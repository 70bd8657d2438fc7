----------------------------- MODULE RoomProofs -----------------------------
(***************************************************************************)
(* Channels, their members and the lists of their messages, for any number of  *)
(* connections, members, channels and messages.                               *)
(***************************************************************************)
EXTENDS MessageProofs

-----------------------------------------------------------------------------
(* What packets name                                                        *)

\* What the packets of kind k in w name; Got(t, k) is that of out[t].
Ids(w, k) == UNION {w[i].ids : i \in {j \in 1..Len(w) : w[j].kind = k}}

Posted(t, k) == Ids(queue[t], k)

\* A packet of a sequence counts for its kind.
LEMMA InIds ==
    ASSUME NEW w, NEW k, NEW x
    PROVE  x \in Ids(w, k) <=> \E i \in 1..Len(w) : w[i].kind = k /\ x \in w[i].ids
BY DEF Ids

\* Got is the same over what was written.
LEMMA GotIds == \A t, k : Got(t, k) = Ids(out[t], k)
BY DEF Got, Ids

\* One more packet.
LEMMA IdsAppend ==
    ASSUME NEW w \in Seq(Packets), NEW packet \in Packets, NEW k
    PROVE  Ids(Append(w, packet), k) = Ids(w, k) \cup (IF packet.kind = k THEN packet.ids ELSE {})
<1> DEFINE v == Append(w, packet)
<1>1. /\ Len(w) \in Nat /\ Len(v) = Len(w) + 1 /\ v[Len(w) + 1] = packet
      /\ \A i \in 1..Len(w) : v[i] = w[i]
  OBVIOUS
<1> HIDE DEF v
<1>2. ASSUME NEW x \in Ids(v, k) PROVE x \in Ids(w, k) \/ (packet.kind = k /\ x \in packet.ids)
  <2>1. PICK i \in 1..Len(v) : v[i].kind = k /\ x \in v[i].ids
    BY InIds
  <2>2. CASE i \in 1..Len(w)
    BY <1>1, <2>1, <2>2, InIds
  <2>3. CASE i = Len(w) + 1
    BY <1>1, <2>1, <2>3
  <2> QED BY <1>1, <2>2, <2>3
<1>3. ASSUME NEW x \in Ids(w, k) PROVE x \in Ids(v, k)
  <2>1. PICK i \in 1..Len(w) : w[i].kind = k /\ x \in w[i].ids
    BY InIds
  <2> QED BY <1>1, <2>1, InIds
<1>4. ASSUME packet.kind = k, NEW x \in packet.ids PROVE x \in Ids(v, k)
  <2>1. Len(w) + 1 \in 1..Len(v)
    BY <1>1
  <2> QED BY <1>1, <1>4, <2>1, InIds
<1> QED BY <1>2, <1>3, <1>4 DEF v

\* One packet less, the first.
LEMMA IdsTail ==
    ASSUME NEW w \in Seq(Packets), w # <<>>, NEW k
    PROVE  Ids(w, k) = (IF Head(w).kind = k THEN Head(w).ids ELSE {}) \cup Ids(Tail(w), k)
<1> DEFINE v == Tail(w)
<1>1. /\ Len(w) \in Nat /\ Len(w) >= 1 /\ Len(v) = Len(w) - 1 /\ Head(w) = w[1]
      /\ \A i \in 1..Len(v) : v[i] = w[i + 1]
  OBVIOUS
<1> HIDE DEF v
<1>2. ASSUME NEW x \in Ids(w, k) PROVE x \in Ids(v, k) \/ (Head(w).kind = k /\ x \in Head(w).ids)
  <2>1. PICK i \in 1..Len(w) : w[i].kind = k /\ x \in w[i].ids
    BY InIds
  <2>2. CASE i = 1
    BY <1>1, <2>1, <2>2
  <2>3. CASE i # 1
    <3>1. i - 1 \in 1..Len(v) /\ v[i - 1] = w[i]
      BY <1>1, <2>3
    <3> QED BY <2>1, <3>1, InIds
  <2> QED BY <2>2, <2>3
<1>3. ASSUME NEW x \in Ids(v, k) PROVE x \in Ids(w, k)
  <2>1. PICK i \in 1..Len(v) : v[i].kind = k /\ x \in v[i].ids
    BY InIds
  <2>2. i + 1 \in 1..Len(w)
    BY <1>1
  <2> QED BY <1>1, <2>1, <2>2, InIds
<1>4. ASSUME Head(w).kind = k, NEW x \in Head(w).ids PROVE x \in Ids(w, k)
  <2>1. 1 \in 1..Len(w)
    BY <1>1
  <2> QED BY <1>1, <1>4, <2>1, InIds
<1> QED BY <1>2, <1>3, <1>4 DEF v

\* Nothing names nothing.
LEMMA IdsEmpty == \A k : Ids(<<>>, k) = {}
BY DEF Ids

-----------------------------------------------------------------------------
(* What a step of one thread does to the others                             *)

\* Another thread's handler stays where it is; what it may notice is that its loop lost its
\* buffer, and then it is one of the disturbed.
Still(s) ==
    /\ frame'[s].at = frame[s].at /\ frame'[s].uid = frame[s].uid
    /\ frame'[s].cid = frame[s].cid /\ frame'[s].mid = frame[s].mid
    /\ frame'[s].pos = frame[s].pos /\ frame'[s].end = frame[s].end
    /\ frame'[s].loose = frame[s].loose \/ s \in disturbed'

Others(t) ==
    /\ \A s \in Conn \ {t} : Still(s)
    /\ frame'[t].loose \subseteq frame[t].loose
    /\ disturbed \subseteq disturbed'

\* The frame of a login, or of a deletion, that turns to channel c.
Replay(f, c) ==
    Loop(Advance([f EXCEPT !.at = "login messages", !.cid = c], "channels"), "messages", logOf[c])

Sweep(f, c) ==
    Loop(Advance([f EXCEPT !.at = "delete messages", !.cid = c], "channels"), "messages", logOf[c])

\* Beginning a loop makes no position loose.
LEMMA LoopLoose == \A f, level, v : Loop(f, level, v).loose \subseteq f.loose
BY DEF Loop

\* Nor does the next turn of one.
LEMMA AdvanceLoose == \A f \in Frames : \A level : Advance(f, level).loose \subseteq f.loose
BY DEF Advance, Frames

\* Nor does turning to the next channel of a login ...
LEMMA ReplayLoose == \A f \in Frames : \A c : Replay(f, c).loose \subseteq f.loose
<1> SUFFICES ASSUME NEW f \in Frames, NEW c PROVE Replay(f, c).loose \subseteq f.loose
  OBVIOUS
<1> DEFINE g == Advance([f EXCEPT !.at = "login messages", !.cid = c], "channels")
<1>1. g.loose = f.loose
  BY DEF Advance, Frames
<1> HIDE DEF g
<1>2. Loop(g, "messages", logOf[c]).loose \subseteq f.loose
  BY <1>1, LoopLoose
<1> QED BY <1>2 DEF Replay, g

\* ... or of a deletion.
LEMMA SweepLoose == \A f \in Frames : \A c : Sweep(f, c).loose \subseteq f.loose
<1> SUFFICES ASSUME NEW f \in Frames, NEW c PROVE Sweep(f, c).loose \subseteq f.loose
  OBVIOUS
<1> DEFINE g == Advance([f EXCEPT !.at = "delete messages", !.cid = c], "channels")
<1>1. g.loose = f.loose
  BY DEF Advance, Frames
<1> HIDE DEF g
<1>2. Loop(g, "messages", logOf[c]).loose \subseteq f.loose
  BY <1>1, LoopLoose
<1> QED BY <1>2 DEF Sweep, g

\* A thread that sets its own frame leaves the others theirs.
LEMMA FrameSet ==
    ASSUME FramesOK, NEW t \in Conn, NEW f, frame' = [frame EXCEPT ![t] = f],
           f.loose \subseteq frame[t].loose, disturbed \subseteq disturbed'
    PROVE  Others(t)
BY DEF FramesOK, Others, Still

\* So does one that sets none.
LEMMA FrameSame ==
    ASSUME FramesOK, NEW t \in Conn, UNCHANGED <<frame, disturbed>>
    PROVE  Others(t)
BY DEF FramesOK, Others, Still

\* push_back may loosen the positions of others, which are disturbed then.
LEMMA PushedOthers ==
    ASSUME FramesOK, NEW t \in Conn, NEW f, NEW level, NEW x, NEW v, Pushed(t, f, level, x, v),
           f.loose \subseteq frame[t].loose
    PROVE  Others(t)
<1>1. PICK moved \in (IF CanMove(v) THEN {Walking(level, x), {}} ELSE {{}}) :
        /\ frame' = [s \in Conn |-> IF s = t THEN f
                                    ELSE IF s \in moved
                                    THEN [frame[s] EXCEPT !.loose = @ \cup {level}]
                                    ELSE frame[s]]
        /\ disturbed' = disturbed \cup moved
                        \cup {s \in Walking(level, x) : frame[s].end[level] > v.len}
  BY DEF Pushed
<1>2. ASSUME NEW s \in Conn \ {t} PROVE Still(s)
  <2>1. CASE s \in moved
    BY <1>1, <2>1 DEF Still, FramesOK, Frames
  <2>2. CASE s \notin moved
    BY <1>1, <2>2 DEF Still
  <2> QED BY <2>1, <2>2
<1> QED BY <1>1, <1>2 DEF Others

\* Every step of t: the others stay where they are, or are disturbed.
LEMMA OtherThreads ==
    ASSUME TypeInv, NEW t \in Conn, Ask(t) \/ Continue(t)
    PROVE  Others(t)
<1>a. FramesOK /\ frame \in [Conn -> Frames] /\ frame[t] \in Frames
  BY DEF TypeInv, FramesOK
<1>1. ASSUME NEW n \in Name, NEW p \in Password, Register(t, n, p) PROVE Others(t)
  <2>1. CASE UNCHANGED frame
    BY <1>a, <1>1, <2>1, FrameSame DEF Register
  <2>2. ASSUME NEW u, frame' = [frame EXCEPT ![t].at = "add password", ![t].uid = u,
                                             ![t].password = p]
        PROVE  Others(t)
    BY <1>a, <1>1, <2>2 DEF Register, Others, Still, Frames
  <2> QED BY <1>1, <2>1, <2>2 DEF Register
<1>2. ASSUME NEW n \in Name, NEW p \in Password, Login(t, n, p) PROVE Others(t)
  <2>1. CASE UNCHANGED frame
    BY <1>a, <1>2, <2>1, FrameSame DEF Login
  <2>2. ASSUME NEW u, frame' = [frame EXCEPT ![t].at = "login user", ![t].uid = u]
        PROVE  Others(t)
    BY <1>a, <1>2, <2>2 DEF Login, Others, Still, Frames
  <2> QED BY <1>2, <2>1, <2>2 DEF Login
<1>3. ASSUME NEW n \in Name, NEW p \in Password, DeleteAccount(t, n, p) PROVE Others(t)
  <2>1. CASE UNCHANGED frame
    BY <1>a, <1>3, <2>1, FrameSame DEF DeleteAccount
  <2>2. ASSUME NEW u, frame' = [frame EXCEPT ![t].at = "delete user", ![t].uid = u]
        PROVE  Others(t)
    BY <1>a, <1>3, <2>2 DEF DeleteAccount, Others, Still, Frames
  <2> QED BY <1>3, <2>1, <2>2 DEF DeleteAccount
<1>4. ASSUME NEW regex \in (SUBSET Name) \cup {Nil}, ListAccounts(t, regex) PROVE Others(t)
  BY <1>a, <1>4 DEF ListAccounts, Others, Still, Frames
<1>5. ASSUME NEW other \in Announced, CreateChannel(t, other) PROVE Others(t)
  BY <1>a, <1>5 DEF CreateChannel, Others, Still, Frames, Loop
<1>6. ASSUME NEW c \in Cid, SendMessage(t, c) PROVE Others(t)
  BY <1>a, <1>6 DEF SendMessage, Others, Still, Frames
<1>7. ASSUME NEW m \in Mid, DeleteMessage(t, m) PROVE Others(t)
  <2>1. CASE UNCHANGED frame
    BY <1>a, <1>7, <2>1, FrameSame DEF DeleteMessage
  <2>2. ASSUME frame' = [frame EXCEPT ![t].at = "remove text", ![t].cid = channelOf[m],
                                      ![t].mid = m]
        PROVE  Others(t)
    BY <1>a, <1>7, <2>2 DEF DeleteMessage, Others, Still, Frames
  <2> QED BY <1>7, <2>1, <2>2 DEF DeleteMessage
<1>8. ASSUME Accept(t) PROVE Others(t)
  BY <1>a, <1>8 DEF Accept, Others, Still, Frames
<1>9. ASSUME Disconnect(t) PROVE Others(t)
  BY <1>a, <1>9 DEF Disconnect, Others, Still, Frames, Goto
<1>10. ASSUME RegisterPassword(t) PROVE Others(t)
  BY <1>a, <1>10 DEF RegisterPassword, Others, Still, Frames, Goto
<1>11. ASSUME RegisterUser(t) PROVE Others(t)
  BY <1>a, <1>11 DEF RegisterUser, Others, Still, Frames, Done, Return, Idle
<1>12. ASSUME LoginUser(t) PROVE Others(t)
  <2>1. CASE UNCHANGED frame
    BY <1>a, <1>12, <2>1, FrameSame DEF LoginUser
  <2>2. CASE frame' = [frame EXCEPT ![t] = Loop([frame[t] EXCEPT !.at = "login channels"],
                                                "channels", chansOf[frame[t].uid])]
    <3>1. [frame[t] EXCEPT !.at = "login channels"].loose = frame[t].loose
      BY <1>a DEF Frames
    <3>2. Loop([frame[t] EXCEPT !.at = "login channels"], "channels", chansOf[frame[t].uid]).loose
            \subseteq frame[t].loose
      BY <3>1, LoopLoose
    <3> QED BY <1>a, <1>12, <2>2, <3>2, FrameSet DEF LoginUser
  <2> QED BY <1>12, <2>1, <2>2 DEF LoginUser
<1>13. ASSUME LoginChannel(t) PROVE Others(t)
  <2>1. PICK c \in Cell(t, "channels", chansOf, frame[t].uid) :
          \/ frame' = [frame EXCEPT ![t] = Advance(frame[t], "channels")]
          \/ frame' = [frame EXCEPT ![t] = Replay(frame[t], c)]
    BY <1>a, <1>13 DEF LoginChannel, Replay
  <2> QED BY <1>a, <1>13, <2>1, FrameSet, AdvanceLoose, ReplayLoose DEF LoginChannel
<1>14. ASSUME LoginMessage(t) PROVE Others(t)
  BY <1>a, <1>14, FrameSet, AdvanceLoose DEF LoginMessage
<1>15. ASSUME LoginChannelReplayed(t) PROVE Others(t)
  BY <1>a, <1>15 DEF LoginChannelReplayed, Others, Still, Frames, Goto
<1>16. ASSUME LoginFinished(t) PROVE Others(t)
  BY <1>a, <1>16 DEF LoginFinished, Others, Still, Frames, Done, Return, Idle
<1>17. ASSUME ListAccount(t) PROVE Others(t)
  BY <1>a, <1>17 DEF ListAccount, Others, Still, Frames
<1>18. ASSUME ListFinished(t) PROVE Others(t)
  BY <1>a, <1>18 DEF ListFinished, Others, Still, Frames, Done, Return, Idle
<1>19. ASSUME DeleteUser(t) PROVE Others(t)
  <2>1. \/ Done(t)
        \/ frame' = [frame EXCEPT ![t] = Loop([frame[t] EXCEPT !.at = "delete channels"],
                                              "channels", chansOf[frame[t].uid])]
    BY <1>19 DEF DeleteUser
  <2>2. [frame[t] EXCEPT !.at = "delete channels"].loose = frame[t].loose
    BY <1>a DEF Frames
  <2>3. Loop([frame[t] EXCEPT !.at = "delete channels"], "channels", chansOf[frame[t].uid]).loose
          \subseteq frame[t].loose
    BY <2>2, LoopLoose
  <2>4. CASE Done(t)
    BY <1>a, <1>19, <2>4 DEF DeleteUser, Others, Still, Done, Return, Idle
  <2> QED BY <1>a, <1>19, <2>1, <2>3, <2>4, FrameSet DEF DeleteUser
<1>20. ASSUME DeleteFromChannel(t) PROVE Others(t)
  <2>1. PICK c \in Cell(t, "channels", chansOf, frame[t].uid) :
          \/ frame' = [frame EXCEPT ![t] = Advance(frame[t], "channels")]
          \/ frame' = [frame EXCEPT ![t] = Sweep(frame[t], c)]
    BY <1>a, <1>20 DEF DeleteFromChannel, Sweep
  <2>2. disturbed \subseteq disturbed'
    BY <1>20 DEF DeleteFromChannel, Erased
  <2> QED BY <1>a, <2>1, <2>2, FrameSet, AdvanceLoose, SweepLoose
<1>21. ASSUME DeleteFindMessage(t) PROVE Others(t)
  <2>1. UNCHANGED disturbed
    BY <1>21 DEF DeleteFindMessage
  <2>2. CASE frame' = [frame EXCEPT ![t] = Advance(frame[t], "messages")]
    BY <1>a, <2>1, <2>2, FrameSet, AdvanceLoose
  <2>3. ASSUME NEW m, frame' = [frame EXCEPT ![t].at = "delete text", ![t].mid = m]
        PROVE  Others(t)
    BY <1>a, <2>1, <2>3 DEF Others, Still, Frames
  <2> QED BY <1>21, <2>2, <2>3 DEF DeleteFindMessage
<1>22. ASSUME DeleteListedMessage(t) PROVE Others(t)
  BY <1>a, <1>22 DEF DeleteListedMessage, Others, Still, Frames, Loop, Advance, Erased
<1>23. ASSUME DeleteNotify(t) PROVE Others(t)
  <2>1. UNCHANGED disturbed
    BY <1>23 DEF DeleteNotify
  <2>2. CASE NotifyMember(t, Packet("deleted", {frame[t].mid}))
    BY <1>a, <2>1, <2>2, FrameSet, AdvanceLoose DEF NotifyMember
  <2>3. CASE Goto(t, "delete messages")
    BY <1>a, <2>1, <2>3 DEF Others, Still, Frames, Goto
  <2> QED BY <1>23, <2>2, <2>3 DEF DeleteNotify
<1>24. ASSUME DeleteChannelFinished(t) PROVE Others(t)
  BY <1>a, <1>24 DEF DeleteChannelFinished, Others, Still, Frames, Goto
<1>25. ASSUME DeleteAccountFinished(t) PROVE Others(t)
  BY <1>a, <1>25 DEF DeleteAccountFinished, Others, Still, Frames, Done, Return, Idle
<1>26. ASSUME CreateMember(t) PROVE Others(t)
  <2> DEFINE u == membersOf[frame[t].cid].cells[frame[t].pos["members"]]
             f == [frame[t] EXCEPT !.at = "create announce", !.uid = u]
  <2>1. CASE frame' = [frame EXCEPT ![t] = Advance(frame[t], "members")] /\ UNCHANGED disturbed
    BY <1>a, <2>1, FrameSet, AdvanceLoose
  <2>2. CASE Pushed(t, f, "channels", u, chansOf[u])
    <3>1. f.loose \subseteq frame[t].loose
      BY <1>a DEF Frames
    <3> HIDE DEF f, u
    <3> QED BY <1>a, <2>2, <3>1, PushedOthers
  <2> QED BY <1>a, <1>26, <2>1, <2>2 DEF CreateMember
<1>27. ASSUME CreateAnnounce(t) PROVE Others(t)
  BY <1>a, <1>27 DEF CreateAnnounce, Others, Still, Frames, Advance
<1>28. ASSUME CreateFinished(t) PROVE Others(t)
  BY <1>a, <1>28 DEF CreateFinished, Others, Still, Frames, Done, Return, Idle
<1>29. ASSUME AppendMessage(t) PROVE Others(t)
  <2> DEFINE c == frame[t].cid
             f == [frame[t] EXCEPT !.at = "send notify"]
             g == Loop(f, "members", membersOf[c])
  <2>1. Pushed(t, g, "messages", c, logOf[c])
    BY <1>29 DEF AppendMessage
  <2>2. f.loose = frame[t].loose
    BY <1>a DEF Frames
  <2> HIDE DEF f
  <2>3. g.loose \subseteq frame[t].loose
    BY <2>2, LoopLoose
  <2> HIDE DEF g, c
  <2> QED BY <1>a, <2>1, <2>3, PushedOthers
<1>30. ASSUME SendNotify(t) PROVE Others(t)
  <2>1. UNCHANGED disturbed
    BY <1>30 DEF SendNotify
  <2>2. CASE NotifyMember(t, Packet("message", {frame[t].mid}))
    BY <1>a, <2>1, <2>2, FrameSet, AdvanceLoose DEF NotifyMember
  <2>3. CASE Done(t)
    BY <1>a, <2>1, <2>3 DEF Others, Still, Done, Return, Idle
  <2> QED BY <1>30, <2>2, <2>3 DEF SendNotify
<1>31. ASSUME RemoveText(t) PROVE Others(t)
  BY <1>a, <1>31 DEF RemoveText, Others, Still, Frames, Loop
<1>32. ASSUME RemoveNotify(t) PROVE Others(t)
  <2>1. UNCHANGED disturbed
    BY <1>32 DEF RemoveNotify
  <2>2. CASE NotifyMember(t, Packet("deleted", {frame[t].mid}))
    BY <1>a, <2>1, <2>2, FrameSet, AdvanceLoose DEF NotifyMember
  <2>3. CASE Goto(t, "unlist")
    BY <1>a, <2>1, <2>3 DEF Others, Still, Frames, Goto
  <2> QED BY <1>32, <2>2, <2>3 DEF RemoveNotify
<1>33. ASSUME Unlist(t) PROVE Others(t)
  BY <1>a, <1>33 DEF Unlist, Others, Still, Frames, Erased, Done, Return, Idle
<1>34. ASSUME DisconnectFinished(t) PROVE Others(t)
  BY <1>a, <1>34 DEF DisconnectFinished, Others, Still, Frames, Return, Idle
<1>35. ASSUME QuitThread(t) PROVE Others(t)
  BY <1>a, <1>35 DEF QuitThread, Others, Still, Frames, Return, Idle
<1>36. ASSUME Dispatch(t) PROVE Others(t)
  BY <1>a, <1>36 DEF Dispatch, Others, Still, Frames, Return, Idle
<1> QED
  BY <1>1, <1>2, <1>3, <1>4, <1>5, <1>6, <1>7, <1>8, <1>9, <1>10, <1>11, <1>12, <1>13,
     <1>14, <1>15, <1>16, <1>17, <1>18, <1>19, <1>20, <1>21, <1>22, <1>23, <1>24, <1>25, <1>26,
     <1>27, <1>28, <1>29, <1>30, <1>31, <1>32, <1>33, <1>34, <1>35, <1>36 DEF Ask, Continue

\* A loop whose buffer has moved is one of the disturbed.
LooseInv == \A t \in Conn : frame[t].loose # {} => t \in disturbed

\* A connection with a loose position is among the disturbed.
LEMMA LooseNext ==
    ASSUME TypeInv, LooseInv, [Next]_vars
    PROVE  LooseInv'
<1>1. ASSUME NEW t \in Conn, Ask(t) \/ Continue(t) PROVE LooseInv'
  <2>1. Others(t)
    BY <1>1, OtherThreads
  <2> QED BY <2>1 DEF LooseInv, Others, Still
<1>2. CASE UNCHANGED vars
  BY <1>2 DEF vars, threads, LooseInv
<1> QED BY <1>1, <1>2 DEF Next, Rest

\* The next turn of a loop.
LEMMA AdvanceFacts ==
    ASSUME NEW f \in Frames, NEW l \in Level
    PROVE  /\ Advance(f, l).at = f.at /\ Advance(f, l).uid = f.uid /\ Advance(f, l).cid = f.cid
           /\ Advance(f, l).mid = f.mid /\ Advance(f, l).end = f.end
           /\ Advance(f, l).pos[l] = f.pos[l] + 1
           /\ \A k \in Level \ {l} : Advance(f, l).pos[k] = f.pos[k]
BY DEF Advance, Frames

-----------------------------------------------------------------------------
(* Steps that have nothing to do with channels                              *)

Pushes == {"channel", "message", "deleted"}

Replaying == {"login channels", "login messages"}

\* Where a handler works on a channel, account deletions apart.
Busy == Replaying \cup {"create members", "create announce", "append", "send notify",
                        "remove text", "remove notify", "unlist"}

\* A packet that tells of no channel and begins no session.
Dull(packet) == packet.kind \notin Pushes /\ (packet.kind = "login" => packet.ids = {})

\* The connection has not come to its end.
On(t) == link[t] \in {"none", "open"}

\* A step of t that tells nobody of a channel and begins no session.
QuietWires(t) ==
    /\ \A s \in Conn \ {t} : /\ out'[s] = out[s] /\ queue'[s] = queue[s]
                             /\ auth'[s] = auth[s] /\ link'[s] = link[s]
    /\ \/ out'[t] = out[t]
       \/ \E packet \in Packets : Dull(packet) /\ out'[t] = Append(out[t], packet)
    /\ \/ queue'[t] = queue[t] /\ auth'[t] = auth[t]
       \/ /\ \E packet \in Packets : Dull(packet) /\ queue'[t] = Append(queue[t], packet)
          /\ auth'[t] = auth[t]
       \/ /\ queue'[t] = <<>> \/ (queue[t] # <<>> /\ queue'[t] = Tail(queue[t]))
          /\ auth'[t] \in {auth[t], Nil} /\ ~On(t)'
    /\ On(t)' => On(t)

Plain(t) ==
    /\ UNCHANGED <<rooms, texts, disturbed>>
    /\ UNCHANGED <<frame, auth>> \/ (frame[t].at \notin Busy /\ frame'[t].at \notin Busy)
    /\ QuietWires(t)

\* An answer that tells nothing ...
LEMMA WriteQuiet ==
    ASSUME TypeInv, NEW t \in Conn, NEW packet \in Packets, Write(t, packet), Dull(packet),
           UNCHANGED <<link, auth, queue>>
    PROVE  QuietWires(t)
BY DEF QuietWires, Write, TypeInv, WiresOK, On

\* ... and no answer at all.
LEMMA NoWireQuiet ==
    ASSUME NEW t \in Conn, UNCHANGED <<link, auth, queue, out>>
    PROVE  QuietWires(t)
BY DEF QuietWires, On

\* Empty answers tell nothing, nor do those of the other kinds.
LEMMA DullPackets ==
    /\ \A k \in Kinds \ Pushes : Packet(k, {}) \in Packets /\ Dull(Packet(k, {}))
    /\ \A k \in Kinds \ (Pushes \cup {"login"}) : \A ids \in SUBSET (Uid \cup Cid \cup Mid) :
           Packet(k, ids) \in Packets /\ Dull(Packet(k, ids))
BY DEF Packet, Packets, Dull

\* Steps about accounts, lists of them and connections.
LEMMA PlainStep ==
    ASSUME TypeInv, NEW t \in Conn,
           \/ \E n \in Name, p \in Password : Register(t, n, p) \/ Login(t, n, p) \/ DeleteAccount(t, n, p)
           \/ \E regex \in (SUBSET Name) \cup {Nil} : ListAccounts(t, regex)
           \/ Accept(t) \/ Disconnect(t) \/ DisconnectFinished(t) \/ QuitThread(t)
           \/ RegisterPassword(t) \/ RegisterUser(t) \/ ListAccount(t) \/ ListFinished(t)
           \/ DeleteUser(t)
    PROVE  Plain(t)
<1>a. frame \in [Conn -> Frames] /\ frame[t] \in Frames
  BY DEF TypeInv, FramesOK
<1>b. frame[t].uid \in Uid \cup {Nil} /\ frame[t].found \subseteq Uid
  BY <1>a DEF Frames
<1> USE DEF Busy, Replaying
<1>1. ASSUME NEW n \in Name, NEW p \in Password, Register(t, n, p) PROVE Plain(t)
  <2>1. QuietWires(t)
    BY <1>1, WriteQuiet, NoWireQuiet, DullPackets DEF Register, Kinds, Pushes
  <2>2. frame'[t].at \notin Busy
    <3>1. CASE UNCHANGED frame
      BY <1>1, <3>1 DEF Register, Request
    <3>2. ASSUME NEW u, frame' = [frame EXCEPT ![t].at = "add password", ![t].uid = u,
                                               ![t].password = p]
          PROVE  frame'[t].at \notin Busy
      BY <1>a, <3>2 DEF Frames
    <3> QED BY <1>1, <3>1, <3>2 DEF Register
  <2> QED BY <1>1, <2>1, <2>2 DEF Register, Plain, Request
<1>2. ASSUME NEW n \in Name, NEW p \in Password, Login(t, n, p) PROVE Plain(t)
  <2>1. QuietWires(t)
    BY <1>2, WriteQuiet, NoWireQuiet, DullPackets DEF Login, Kinds, Pushes
  <2>2. frame'[t].at \notin Busy
    <3>1. CASE UNCHANGED frame
      BY <1>2, <3>1 DEF Login, Request
    <3>2. ASSUME NEW u, frame' = [frame EXCEPT ![t].at = "login user", ![t].uid = u]
          PROVE  frame'[t].at \notin Busy
      BY <1>a, <3>2 DEF Frames
    <3> QED BY <1>2, <3>1, <3>2 DEF Login
  <2> QED BY <1>2, <2>1, <2>2 DEF Login, Plain, Request, tables
<1>3. ASSUME NEW n \in Name, NEW p \in Password, DeleteAccount(t, n, p) PROVE Plain(t)
  <2>1. QuietWires(t)
    BY <1>3, WriteQuiet, NoWireQuiet, DullPackets DEF DeleteAccount, Kinds, Pushes
  <2>2. frame'[t].at \notin Busy
    <3>1. CASE UNCHANGED frame
      BY <1>3, <3>1 DEF DeleteAccount, Request
    <3>2. ASSUME NEW u, frame' = [frame EXCEPT ![t].at = "delete user", ![t].uid = u]
          PROVE  frame'[t].at \notin Busy
      BY <1>a, <3>2 DEF Frames
    <3> QED BY <1>3, <3>1, <3>2 DEF DeleteAccount
  <2> QED BY <1>3, <2>1, <2>2 DEF DeleteAccount, Plain, Request, tables
<1>4. ASSUME NEW regex \in (SUBSET Name) \cup {Nil}, ListAccounts(t, regex) PROVE Plain(t)
  <2>1. QuietWires(t)
    BY <1>4, WriteQuiet, NoWireQuiet, DullPackets DEF ListAccounts, Kinds, Pushes
  <2>2. frame'[t].at \notin Busy
    <3>1. CASE UNCHANGED frame
      BY <1>4, <3>1 DEF ListAccounts, Request
    <3>2. ASSUME NEW us, frame' = [frame EXCEPT ![t].at = "list", ![t].todo = us]
          PROVE  frame'[t].at \notin Busy
      BY <1>a, <3>2 DEF Frames
    <3> QED BY <1>4, <3>1, <3>2 DEF ListAccounts
  <2> QED BY <1>4, <2>1, <2>2 DEF ListAccounts, Plain, Request, tables
<1>5. ASSUME RegisterPassword(t) PROVE Plain(t)
  BY <1>5, <1>a, NoWireQuiet DEF RegisterPassword, Plain, At, Goto, Frames
<1>6. ASSUME RegisterUser(t) PROVE Plain(t)
  <2>a. frame[t].uid \in Uid
    BY <1>6 DEF RegisterUser, At, TypeInv, FramesOK, Whole, HasUid
  <2>b. Packet("register", {frame[t].uid}) \in Packets /\ Dull(Packet("register", {frame[t].uid}))
    BY <2>a, DullPackets DEF Kinds, Pushes
  <2>1. QuietWires(t)
    BY <1>6, <2>b, WriteQuiet DEF RegisterUser
  <2> QED BY <1>6, <1>a, <2>1 DEF RegisterUser, Plain, At, Done, Return, Idle
<1>7. ASSUME ListAccount(t) PROVE Plain(t)
  <2>1. PICK u \in frame[t].todo :
          frame' = [frame EXCEPT ![t].todo = @ \ {u}, ![t].found = @ \cup ({u} \cap users)]
    BY <1>7 DEF ListAccount
  <2>2. frame'[t].at = "list"
    BY <1>7, <1>a, <2>1 DEF Frames, ListAccount, At
  <2> QED BY <1>7, <2>2, NoWireQuiet DEF ListAccount, Plain, At, tables
<1>8. ASSUME ListFinished(t) PROVE Plain(t)
  <2>1. QuietWires(t)
    BY <1>8, <1>b, WriteQuiet, DullPackets DEF ListFinished, Kinds, Pushes
  <2> QED BY <1>8, <1>a, <2>1 DEF ListFinished, Plain, At, Done, Return, Idle, tables
<1>9. ASSUME DeleteUser(t) PROVE Plain(t)
  <2>1. QuietWires(t)
    BY <1>9, WriteQuiet, NoWireQuiet, DullPackets DEF DeleteUser, Kinds, Pushes
  <2>2. frame'[t].at \notin Busy
    <3>1. CASE Done(t)
      BY <1>a, <3>1 DEF Done, Return, Idle
    <3> DEFINE f == Loop([frame[t] EXCEPT !.at = "delete channels"], "channels",
                         chansOf[frame[t].uid])
    <3>2. CASE frame' = [frame EXCEPT ![t] = f]
      <4>1. f.at = "delete channels"
        BY <1>a DEF Loop, Frames
      <4> QED BY <1>a, <3>2, <4>1
    <3> QED BY <1>9, <3>1, <3>2 DEF DeleteUser
  <2> QED BY <1>9, <2>1, <2>2 DEF DeleteUser, Plain, At, tables
<1>10. ASSUME Accept(t) PROVE Plain(t)
  <2>1. QuietWires(t)
    BY <1>10 DEF Accept, QuietWires, On, TypeInv, WiresOK
  <2> QED BY <1>10, <2>1 DEF Accept, Plain, tables
<1>11. ASSUME Disconnect(t) PROVE Plain(t)
  <2>1. QuietWires(t)
    BY <1>11, DullPackets DEF Disconnect, QuietWires, On, TypeInv, WiresOK, Kinds, Pushes
  <2> QED BY <1>11, <1>a, <2>1 DEF Disconnect, Plain, Request, Goto, tables, Frames
<1>12. ASSUME DisconnectFinished(t) PROVE Plain(t)
  <2>1. QuietWires(t)
    BY <1>12, DullPackets
    DEF DisconnectFinished, QuietWires, On, TypeInv, WiresOK, Kinds, Pushes
  <2> QED BY <1>12, <1>a, <2>1 DEF DisconnectFinished, Plain, At, Return, Idle, tables
<1>13. ASSUME QuitThread(t) PROVE Plain(t)
  <2>1. QuietWires(t)
    BY <1>13 DEF QuitThread, Close, QuietWires, On, TypeInv, WiresOK
  <2> QED BY <1>13, <1>a, <2>1 DEF QuitThread, Plain, Return, Idle, tables
<1> QED
  BY <1>1, <1>2, <1>3, <1>4, <1>5, <1>6, <1>7, <1>8, <1>9, <1>10, <1>11, <1>12, <1>13

-----------------------------------------------------------------------------
(* The accounts, while none is deleted                                      *)

\* A step of t, of which every account that was stored or named stays so.
Grows(t) ==
    /\ users \subseteq users'
    /\ \A u \in Uid : nameOf'[u] # Nil => nameOf[u] # Nil \/ Registers(t, u)'
    /\ \A u \in Uid : Registers(t, u) => Registers(t, u)' \/ u \in users'
    /\ \A s \in Conn \ {t} : auth'[s] = auth[s]
    /\ auth'[t] \in users' \cup {auth[t], Nil}

\* Where no account changes and no registration ends.
LEMMA SameAccounts ==
    ASSUME TypeInv, NEW t \in Conn, UNCHANGED <<nameOf, users, auth>>,
           UNCHANGED frame \/ frame[t].at \notin Registering
    PROVE  Grows(t)
BY DEF Grows, Registers

\* While no deletion ends, accounts only grow.
LEMMA AccountSteps ==
    ASSUME TypeInv, NEW t \in Conn, Ask(t) \/ Continue(t), ~DeleteAccountFinished(t)
    PROVE  Grows(t)
<1>a. frame \in [Conn -> Frames] /\ frame[t] \in Frames
  BY DEF TypeInv, FramesOK
<1> USE DEF Registering
<1>1. ASSUME NEW n \in Name, NEW p \in Password, Register(t, n, p) PROVE Grows(t)
  <2>1. CASE UNCHANGED <<nameOf, frame>>
    BY <1>1, <2>1 DEF Register, Grows, Registers
  <2>2. ASSUME NEW u \in FreeUids, MakeUser(u, n),
               frame' = [frame EXCEPT ![t].at = "add password", ![t].uid = u, ![t].password = p]
        PROVE  Grows(t)
    <3>1. frame'[t].at = "add password" /\ frame'[t].uid = u
      BY <1>a, <2>2 DEF Frames
    <3>2. frame[t].at = "idle" /\ UNCHANGED <<users, auth>>
      BY <1>1 DEF Register, Request
    <3>3. \A v \in Uid \ {u} : nameOf'[v] = nameOf[v]
      BY <2>2 DEF MakeUser, TypeInv, TablesTypeOK
    <3> QED BY <3>1, <3>2, <3>3 DEF Grows, Registers
  <2>3. CASE WithName(n) = {} /\ FreeUids # {}
    <3>1. Fresh(FreeUids) \in FreeUids
      BY <2>3 DEF Fresh
    <3> QED BY <1>1, <2>2, <2>3, <3>1 DEF Register
  <2> QED BY <1>1, <2>1, <2>3 DEF Register
<1>2. ASSUME NEW n \in Name, NEW p \in Password, Login(t, n, p) PROVE Grows(t)
  BY <1>2, SameAccounts DEF Login, Request, tables, accounts
<1>3. ASSUME NEW n \in Name, NEW p \in Password, DeleteAccount(t, n, p) PROVE Grows(t)
  BY <1>3, SameAccounts DEF DeleteAccount, Request, tables, accounts
<1>4. ASSUME NEW regex, ListAccounts(t, regex) PROVE Grows(t)
  BY <1>4, SameAccounts DEF ListAccounts, Request, tables, accounts
<1>5. ASSUME NEW other, CreateChannel(t, other) PROVE Grows(t)
  BY <1>5, SameAccounts DEF CreateChannel, Request, tables, accounts
<1>6. ASSUME NEW c, SendMessage(t, c) PROVE Grows(t)
  BY <1>6, SameAccounts DEF SendMessage, Request, tables, accounts
<1>7. ASSUME NEW m, DeleteMessage(t, m) PROVE Grows(t)
  BY <1>7, SameAccounts DEF DeleteMessage, Request, tables, accounts
<1>8. ASSUME Accept(t) PROVE Grows(t)
  BY <1>8, SameAccounts DEF Accept, Request, tables, accounts
<1>9. ASSUME Disconnect(t) PROVE Grows(t)
  BY <1>9, SameAccounts DEF Disconnect, Request, tables, accounts
<1>10. ASSUME RegisterPassword(t) PROVE Grows(t)
  BY <1>a, <1>10 DEF RegisterPassword, Grows, Registers, At, Goto, Frames
<1>11. ASSUME RegisterUser(t) PROVE Grows(t)
  BY <1>a, <1>11 DEF RegisterUser, AddUser, Grows, Registers, At
<1>12. ASSUME LoginUser(t) PROVE Grows(t)
  <2>1. frame[t].at \notin Registering /\ UNCHANGED <<nameOf, users>>
    BY <1>12 DEF LoginUser, At, tables, accounts
  <2>2. UNCHANGED auth \/ (frame[t].uid \in users /\ auth' = [auth EXCEPT ![t] = frame[t].uid])
    BY <1>12 DEF LoginUser
  <2> QED BY <2>1, <2>2 DEF Grows, Registers, TypeInv, WiresOK
<1>13. ASSUME LoginChannel(t) PROVE Grows(t)
  BY <1>13, SameAccounts DEF LoginChannel, At, tables, accounts
<1>14. ASSUME LoginMessage(t) PROVE Grows(t)
  BY <1>14, SameAccounts DEF LoginMessage, At, tables, accounts
<1>15. ASSUME LoginChannelReplayed(t) PROVE Grows(t)
  BY <1>15, SameAccounts DEF LoginChannelReplayed, At, tables, accounts
<1>16. ASSUME LoginFinished(t) PROVE Grows(t)
  BY <1>16, SameAccounts DEF LoginFinished, At, tables, accounts
<1>17. ASSUME ListAccount(t) PROVE Grows(t)
  BY <1>17, SameAccounts DEF ListAccount, At, tables, accounts
<1>18. ASSUME ListFinished(t) PROVE Grows(t)
  BY <1>18, SameAccounts DEF ListFinished, At, tables, accounts
<1>19. ASSUME DeleteUser(t) PROVE Grows(t)
  BY <1>19, SameAccounts DEF DeleteUser, At, tables, accounts
<1>20. ASSUME DeleteFromChannel(t) PROVE Grows(t)
  BY <1>20, SameAccounts DEF DeleteFromChannel, At, tables, accounts
<1>21. ASSUME DeleteFindMessage(t) PROVE Grows(t)
  BY <1>21, SameAccounts DEF DeleteFindMessage, At, tables, accounts
<1>22. ASSUME DeleteListedMessage(t) PROVE Grows(t)
  BY <1>22, SameAccounts DEF DeleteListedMessage, At, tables, accounts
<1>23. ASSUME DeleteNotify(t) PROVE Grows(t)
  BY <1>23, SameAccounts DEF DeleteNotify, At, tables, accounts
<1>24. ASSUME DeleteChannelFinished(t) PROVE Grows(t)
  BY <1>24, SameAccounts DEF DeleteChannelFinished, At, tables, accounts
<1>25. ASSUME CreateMember(t) PROVE Grows(t)
  BY <1>25, SameAccounts DEF CreateMember, At, tables, accounts
<1>26. ASSUME CreateAnnounce(t) PROVE Grows(t)
  BY <1>26, SameAccounts DEF CreateAnnounce, At, tables, accounts
<1>27. ASSUME CreateFinished(t) PROVE Grows(t)
  BY <1>27, SameAccounts DEF CreateFinished, At, tables, accounts
<1>28. ASSUME AppendMessage(t) PROVE Grows(t)
  BY <1>28, SameAccounts DEF AppendMessage, At, tables, accounts
<1>29. ASSUME SendNotify(t) PROVE Grows(t)
  BY <1>29, SameAccounts DEF SendNotify, At, tables, accounts
<1>30. ASSUME RemoveText(t) PROVE Grows(t)
  BY <1>30, SameAccounts DEF RemoveText, At, tables, accounts
<1>31. ASSUME RemoveNotify(t) PROVE Grows(t)
  BY <1>31, SameAccounts DEF RemoveNotify, At, tables, accounts
<1>32. ASSUME Unlist(t) PROVE Grows(t)
  BY <1>32, SameAccounts DEF Unlist, At, tables, accounts
<1>33. ASSUME DisconnectFinished(t) PROVE Grows(t)
  BY <1>33, SameAccounts DEF DisconnectFinished, At, tables, accounts
<1>34. ASSUME QuitThread(t) PROVE Grows(t)
  <2>1. frame[t].at \notin Registering /\ UNCHANGED <<nameOf, users>>
    BY <1>34 DEF QuitThread, tables, accounts
  <2>2. UNCHANGED auth \/ auth' = [auth EXCEPT ![t] = Nil]
    BY <1>34 DEF QuitThread, Close
  <2> QED BY <2>1, <2>2 DEF Grows, Registers, TypeInv, WiresOK
<1>35. ASSUME Dispatch(t) PROVE Grows(t)
  <2>1. frame[t].at \notin Registering /\ UNCHANGED <<nameOf, users>>
    BY <1>35 DEF Dispatch, tables, accounts
  <2>2. UNCHANGED auth \/ auth' = [auth EXCEPT ![t] = Nil]
    BY <1>35 DEF Dispatch, Close
  <2> QED BY <2>1, <2>2 DEF Grows, Registers, TypeInv, WiresOK
<1> QED
  BY <1>1, <1>2, <1>3, <1>4, <1>5, <1>6, <1>7, <1>8, <1>9, <1>10, <1>11, <1>12, <1>13, <1>14,
     <1>15, <1>16, <1>17, <1>18, <1>19, <1>20, <1>21, <1>22, <1>23, <1>24, <1>25, <1>26, <1>27,
     <1>28, <1>29, <1>30, <1>31, <1>32, <1>33, <1>34, <1>35 DEF Ask, Continue

\* A deletion that ends was one.
LEMMA NoneFinished ==
    ASSUME NEW t \in Conn \ Deleting
    PROVE  ~DeleteAccountFinished(t)
BY DEF DeleteAccountFinished, At, Deleting

\* Who is logged in has an account, and so has everybody whose registration is over.
AccountInv ==
    /\ \A t \in Conn : auth[t] # Nil => auth[t] \in users
    /\ \A u \in Uid : nameOf[u] # Nil => u \in users \/ \E t \in Conn : Registers(t, u)

\* As long as no account is deleted.
LEMMA AccountsNext ==
    ASSUME TypeInv, Deleting = {}, AccountInv, [Next]_vars
    PROVE  AccountInv'
<1>1. ASSUME NEW t \in Conn, Ask(t) \/ Continue(t) PROVE AccountInv'
  <2>1. Grows(t) /\ Others(t)
    BY <1>1, NoneFinished, AccountSteps, OtherThreads
  <2>2. \A s \in Conn \ {t} : \A u \in Uid : Registers(s, u) => Registers(s, u)'
    BY <2>1 DEF Others, Still, Registers
  <2>3. \A s \in Conn : auth'[s] # Nil => auth'[s] \in users'
    BY <2>1 DEF Grows, AccountInv
  <2>4. ASSUME NEW u \in Uid, nameOf'[u] # Nil
        PROVE  u \in users' \/ \E s \in Conn : Registers(s, u)'
    <3>1. CASE Registers(t, u)'
      BY <3>1
    <3>2. CASE u \in users
      BY <2>1, <3>2 DEF Grows
    <3>3. ASSUME NEW s \in Conn, Registers(s, u)
          PROVE  u \in users' \/ \E r \in Conn : Registers(r, u)'
      BY <2>1, <2>2, <3>3 DEF Grows
    <3> QED BY <2>1, <2>4, <3>1, <3>2, <3>3 DEF Grows, AccountInv
  <2> QED BY <2>3, <2>4 DEF AccountInv
<1>2. CASE UNCHANGED vars
  BY <1>2 DEF vars, tables, accounts, threads, AccountInv, Registers
<1> QED BY <1>1, <1>2 DEF Next, Rest

\* The server starts without accounts.
LEMMA AccountInit == Init => AccountInv
BY DEF Init, TablesInit, AccountInv

\* Whom a client can offer as the second member of a channel has an account.
LEMMA AnnouncedStored ==
    ASSUME AccountInv, NEW u \in Announced
    PROVE  u \in users
BY DEF AccountInv, Announced, Registers, Registering

-----------------------------------------------------------------------------
(* Who is a member of what                                                  *)

Creates == {"create members", "create announce"}

Creating(t) == frame[t].at \in Creates

\* t has still to write channel c into the list of member u.
Joins(t, c, u) ==
    /\ Creating(t) /\ frame[t].cid = c
    /\ \E i \in frame[t].pos["members"]..frame[t].end["members"] :
          /\ membersOf[c].cells[i] = u
          /\ frame[t].at = "create announce" => i # frame[t].pos["members"]

\* While no account is deleted nothing is taken out of the list of a user's channels.
ChansWhole ==
    \A u \in Uid : /\ chansOf[u].len = Len(chansOf[u].cells)
                   /\ Live(chansOf[u]) \subseteq channels

\* A user lists no channel without being in it.
Admitted == \A u \in Uid : \A c \in Live(chansOf[u]) : u \in Live(membersOf[c])

MembersStored == \A c \in channels : Live(membersOf[c]) \subseteq users

Joined ==
    \A c \in channels : \A u \in Live(membersOf[c]) :
        c \in Live(chansOf[u]) \/ \E t \in Conn : Joins(t, c, u)

\* The loop over the members of a new channel.
Builds(t) ==
    /\ frame[t].cid \in channels
    /\ frame[t].pos["members"] >= 1
    /\ frame[t].end["members"] = membersOf[frame[t].cid].len
    /\ frame[t].at = "create announce" =>
           /\ frame[t].pos["members"] <= frame[t].end["members"]
           /\ frame[t].uid = membersOf[frame[t].cid].cells[frame[t].pos["members"]]

Building == \A t \in Conn : Creating(t) => Builds(t)

\* A channel that was not made has no members.
Unmade == \A c \in Cid \ channels : Live(membersOf[c]) = {}

HallInv == ChansWhole /\ MembersStored /\ Unmade /\ Joined /\ Building

RoomInv == HallInv /\ Admitted

\* A step of t that has nothing to do with who is in which channel.
Roomless(t) ==
    /\ UNCHANGED <<chansOf, channels, membersOf>>
    /\ UNCHANGED frame \/ (~Creating(t) /\ ~Creating(t)')

\* Where neither channels nor creations move.
LEMMA RoomsKept ==
    ASSUME HallInv, UNCHANGED <<chansOf, channels, membersOf>>,
           \A c \in channels : Live(membersOf[c]) \subseteq users',
           \A s \in Conn : Creating(s) \/ Creating(s)' =>
               /\ frame'[s].at = frame[s].at /\ frame'[s].uid = frame[s].uid
               /\ frame'[s].cid = frame[s].cid
               /\ frame'[s].pos = frame[s].pos /\ frame'[s].end = frame[s].end
    PROVE  HallInv' /\ (Admitted => Admitted')
<1>1. \A s \in Conn : Creating(s)' <=> Creating(s)
  BY DEF Creating
<1>2. \A s \in Conn : \A c, u : Joins(s, c, u) => Joins(s, c, u)'
  BY <1>1 DEF Joins
<1>3. ChansWhole' /\ (Admitted => Admitted') /\ MembersStored' /\ Unmade'
  BY DEF HallInv, ChansWhole, Admitted, MembersStored, Unmade
<1>4. Joined'
  BY <1>2 DEF HallInv, Joined
<1>5. Building'
  BY <1>1 DEF HallInv, Building, Builds
<1> QED BY <1>3, <1>4, <1>5 DEF HallInv

\* A step that has nothing to do with creations.
LEMMA RoomlessKeeps ==
    ASSUME HallInv, users \subseteq users', NEW t \in Conn, Roomless(t), Others(t)
    PROVE  HallInv' /\ (Admitted => Admitted')
<1>1. ASSUME NEW s \in Conn, Creating(s) \/ Creating(s)'
      PROVE  /\ frame'[s].at = frame[s].at /\ frame'[s].uid = frame[s].uid
             /\ frame'[s].cid = frame[s].cid
             /\ frame'[s].pos = frame[s].pos /\ frame'[s].end = frame[s].end
  BY <1>1 DEF Roomless, Others, Still
<1>2. \A c \in channels : Live(membersOf[c]) \subseteq users'
  BY DEF HallInv, MembersStored
<1> QED BY <1>1, <1>2, RoomsKept DEF Roomless

\* Plain steps are of that kind ...
LEMMA PlainRoomless ==
    ASSUME TypeInv, NEW t \in Conn, Plain(t)
    PROVE  Roomless(t)
BY DEF Plain, Roomless, Creating, Creates, Busy, rooms

\* ... and so is every step but those of on_create_channel and of Database::remove_user.
LEMMA RoomlessSteps ==
    ASSUME TypeInv, NEW t \in Conn \ Deleting, Ask(t) \/ Continue(t),
           \A other \in Announced : ~CreateChannel(t, other),
           ~CreateMember(t), ~CreateAnnounce(t), ~CreateFinished(t)
    PROVE  Roomless(t)
<1>a. frame \in [Conn -> Frames] /\ frame[t] \in Frames
  BY DEF TypeInv, FramesOK
<1> USE DEF Roomless, Creating, Creates
<1>1. CASE \/ \E n \in Name, p \in Password : Register(t, n, p) \/ Login(t, n, p) \/ DeleteAccount(t, n, p)
           \/ \E regex \in (SUBSET Name) \cup {Nil} : ListAccounts(t, regex)
           \/ Accept(t) \/ Disconnect(t) \/ DisconnectFinished(t) \/ QuitThread(t)
           \/ RegisterPassword(t) \/ RegisterUser(t) \/ ListAccount(t) \/ ListFinished(t)
           \/ DeleteUser(t)
  BY <1>1, PlainStep, PlainRoomless
<1>2. ASSUME NEW c \in Cid, SendMessage(t, c) PROVE Roomless(t)
  BY <1>a, <1>2 DEF SendMessage, Request, rooms, Frames
<1>3. ASSUME NEW m \in Mid, DeleteMessage(t, m) PROVE Roomless(t)
  <2>1. CASE UNCHANGED frame
    BY <1>3, <2>1 DEF DeleteMessage, tables, rooms
  <2>2. CASE frame' = [frame EXCEPT ![t].at = "remove text", ![t].cid = channelOf[m],
                                    ![t].mid = m]
    BY <1>a, <1>3, <2>2 DEF DeleteMessage, Request, tables, rooms, Frames
  <2> QED BY <1>3, <2>1, <2>2 DEF DeleteMessage
<1>4. ASSUME LoginUser(t) PROVE Roomless(t)
  <2>1. CASE UNCHANGED frame
    BY <1>4, <2>1 DEF LoginUser, tables, rooms
  <2> DEFINE f == Loop([frame[t] EXCEPT !.at = "login channels"], "channels",
                       chansOf[frame[t].uid])
  <2>2. CASE frame' = [frame EXCEPT ![t] = f]
    <3>1. f.at = "login channels"
      BY <1>a DEF Loop, Frames
    <3> QED BY <1>a, <1>4, <2>2, <3>1 DEF LoginUser, At, tables, rooms
  <2> QED BY <1>4, <2>1, <2>2 DEF LoginUser
<1>5. ASSUME LoginChannel(t) PROVE Roomless(t)
  <2>1. PICK c \in Cell(t, "channels", chansOf, frame[t].uid) :
          \/ frame' = [frame EXCEPT ![t] = Advance(frame[t], "channels")]
          \/ frame' = [frame EXCEPT ![t] = Replay(frame[t], c)]
    BY <1>a, <1>5 DEF LoginChannel, Replay
  <2>2. Advance(frame[t], "channels").at = "login channels" /\ Replay(frame[t], c).at = "login messages"
    BY <1>a, <1>5 DEF LoginChannel, At, Advance, Replay, Loop, Frames
  <2> QED BY <1>a, <1>5, <2>1, <2>2 DEF LoginChannel, At, tables, rooms
<1>6. ASSUME LoginMessage(t) PROVE Roomless(t)
  BY <1>a, <1>6 DEF LoginMessage, At, Advance, tables, rooms, Frames
<1>7. ASSUME LoginChannelReplayed(t) PROVE Roomless(t)
  BY <1>a, <1>7 DEF LoginChannelReplayed, At, tables, rooms, Goto, Frames
<1>8. ASSUME LoginFinished(t) PROVE Roomless(t)
  BY <1>a, <1>8 DEF LoginFinished, At, tables, rooms, Done, Return, Idle
<1>9. ASSUME AppendMessage(t) PROVE Roomless(t)
  <2> DEFINE f == Loop([frame[t] EXCEPT !.at = "send notify"], "members", membersOf[frame[t].cid])
  <2>1. f.at = "send notify"
    BY <1>a DEF Loop, Frames
  <2>2. frame'[t] = f
    BY <1>9 DEF AppendMessage, Pushed
  <2> QED BY <1>9, <2>1, <2>2 DEF AppendMessage, At
<1>10. ASSUME SendNotify(t) PROVE Roomless(t)
  BY <1>a, <1>10, ZenonT(60)
     DEF SendNotify, At, tables, rooms, NotifyMember, Advance, Done, Return, Idle, Frames
<1>11. ASSUME RemoveNotify(t) PROVE Roomless(t)
  BY <1>a, <1>11, ZenonT(60) DEF RemoveNotify, At, tables, rooms, NotifyMember, Advance, Goto, Frames
<1>12. ASSUME RemoveText(t) PROVE Roomless(t)
  BY <1>a, <1>12 DEF RemoveText, At, rooms, Loop, Frames
<1>13. ASSUME Unlist(t) PROVE Roomless(t)
  BY <1>a, <1>13 DEF Unlist, At, Done, Return, Idle
<1>14. ASSUME Dispatch(t) PROVE Roomless(t)
  BY <1>a, <1>14 DEF Dispatch, tables, rooms, Return, Idle
<1>15. DeleteFromChannel(t) \/ DeleteFindMessage(t) \/ DeleteListedMessage(t) \/ DeleteNotify(t)
         \/ DeleteChannelFinished(t) \/ DeleteAccountFinished(t) => t \in Deleting
  BY DEF DeleteFromChannel, DeleteFindMessage, DeleteListedMessage, DeleteNotify,
     DeleteChannelFinished, DeleteAccountFinished, At, Deleting
<1> QED
  BY <1>1, <1>2, <1>3, <1>4, <1>5, <1>6, <1>7, <1>8, <1>9, <1>10, <1>11, <1>12, <1>13, <1>14,
     <1>15 DEF Ask, Continue

\* push_back into a vector nothing was taken out of.
LEMMA PushWhole ==
    ASSUME NEW S, NEW v \in Vectors(S), NEW x \in S, v.len = Len(v.cells)
    PROVE  Push(v, x).cells = Append(v.cells, x) /\ Push(v, x).len = Len(Push(v, x).cells)
<1>1. v.cells \in Seq(S) /\ Push(v, x).cells = Append(v.cells, x) /\ Push(v, x).len = v.len + 1
  BY DEF Push, Vectors
<1> QED BY <1>1

\* A channel is created by and for users who have accounts.
LEMMA CreateChannelRooms ==
    ASSUME TypeInv, HallInv, NEW t \in Conn, NEW other, CreateChannel(t, other),
           auth[t] \in users, other \in users
    PROVE  HallInv' /\ (Admitted => Admitted')
<1>0. PICK d \in Cid \ channels : d = Fresh(Cid \ channels)
  BY DEF CreateChannel, Fresh, TypeInv, TablesTypeOK
<1> DEFINE uids == <<auth[t], other>>
           f == Loop([frame[t] EXCEPT !.at = "create members", !.cid = d], "members", VectorOf(uids))
<1>1. auth[t] \in users /\ other \in users
  OBVIOUS
<1>2. d \in Cid /\ d \notin channels
  BY <1>0
<1>3. /\ UNCHANGED <<chansOf, users>> /\ channels' = channels \cup {d}
      /\ membersOf'[d] = VectorOf(uids)
      /\ \A c \in Cid \ {d} : membersOf'[c] = membersOf[c]
  BY <1>0, <1>2 DEF CreateChannel, AddChannel, accounts, TypeInv, TablesTypeOK
<1>4. frame'[t] = f /\ \A s \in Conn \ {t} : frame'[s] = frame[s]
  BY <1>0 DEF CreateChannel, TypeInv, FramesOK
<1>5. /\ f.at = "create members" /\ f.cid = d
      /\ f.pos["members"] = 1 /\ f.end["members"] = VectorOf(uids).len
  BY DEF Loop, TypeInv, FramesOK, Frames, Level
<1>6. VectorOf(uids).len = 2 /\ VectorOf(uids).cells = uids
  BY DEF VectorOf
<1>7. Live(VectorOf(uids)) = {auth[t], other}
  BY <1>6 DEF Live
<1>8. ~Creating(t) /\ Creating(t)' /\ frame'[t].cid = d
  BY <1>4, <1>5 DEF Creating, Creates, CreateChannel, Request
<1> HIDE DEF f, uids
<1>9. ASSUME NEW s \in Conn \ {t}, Creating(s) \/ Creating(s)'
      PROVE  Creating(s) /\ frame[s].cid # d /\ frame[s].cid \in Cid
  <2>1. Creating(s)
    BY <1>4, <1>9 DEF Creating
  <2> QED BY <1>2, <2>1 DEF HallInv, Building, Builds, TypeInv, TablesTypeOK
<1>10. ASSUME NEW s \in Conn, NEW c \in channels, NEW u, Joins(s, c, u)
       PROVE  Joins(s, c, u)'
  <2>1. s # t
    BY <1>8, <1>10 DEF Joins
  <2>2. c # d /\ membersOf'[c] = membersOf[c]
    BY <1>2, <1>3 DEF TypeInv, TablesTypeOK
  <2> QED BY <1>4, <1>10, <2>1, <2>2 DEF Joins, Creating
<1>11. ChansWhole'
  BY <1>3 DEF HallInv, ChansWhole
<1>12. \A c \in channels : membersOf'[c] = membersOf[c]
  BY <1>2, <1>3 DEF TypeInv, TablesTypeOK
<1>13. (Admitted => Admitted') /\ MembersStored' /\ Unmade'
  BY <1>1, <1>2, <1>3, <1>7, <1>12 DEF HallInv, Admitted, MembersStored, Unmade, ChansWhole
<1>14. ASSUME NEW u \in Live(membersOf'[d]) PROVE Joins(t, d, u)'
  <2>1. PICK i \in 1..2 : u = uids[i]
    BY <1>3, <1>6 DEF Live
  <2>2. /\ i \in frame'[t].pos["members"]..frame'[t].end["members"]
        /\ membersOf'[d].cells[i] = u /\ frame'[t].at # "create announce"
    BY <1>3, <1>4, <1>5, <1>6, <2>1
  <2> QED BY <1>8, <2>2 DEF Joins
<1>15. Joined'
  <2>1. ASSUME NEW c \in channels, NEW u \in Live(membersOf[c])
        PROVE  c \in Live(chansOf'[u]) \/ \E s \in Conn : Joins(s, c, u)'
    BY <1>3, <1>10 DEF HallInv, Joined
  <2> QED BY <1>3, <1>12, <1>14, <2>1 DEF Joined
<1>16. Building'
  <2>1. ASSUME NEW s \in Conn \ {t}, Creating(s)' PROVE Builds(s)'
    <3>1. Builds(s) /\ membersOf'[frame[s].cid] = membersOf[frame[s].cid] /\ frame'[s] = frame[s]
      BY <1>3, <1>4, <1>9, <2>1 DEF HallInv, Building
    <3> QED BY <1>3, <3>1 DEF Builds
  <2>2. Builds(t)'
    <3>1. /\ frame'[t].cid = d /\ frame'[t].pos["members"] = 1
          /\ frame'[t].end["members"] = 2 /\ frame'[t].at = "create members"
      BY <1>4, <1>5, <1>6
    <3>2. d \in channels' /\ membersOf'[d].len = 2
      BY <1>3, <1>6
    <3>3. frame'[t].pos["members"] >= 1
      <4>1. 1 >= 1
        OBVIOUS
      <4> QED BY <3>1, <4>1, Zenon
    <3>4. frame'[t].end["members"] = membersOf'[frame'[t].cid].len
      BY <3>1, <3>2
    <3> QED BY <3>1, <3>2, <3>3, <3>4 DEF Builds
  <2> QED BY <2>1, <2>2 DEF Building
<1> QED BY <1>11, <1>13, <1>15, <1>16 DEF HallInv

\* The next member of the new channel is told and lists it.
LEMMA CreateMemberRooms ==
    ASSUME TypeInv, HallInv, NEW t \in Conn, CreateMember(t)
    PROVE  HallInv' /\ (Admitted => Admitted')
<1> DEFINE c == frame[t].cid
           p == frame[t].pos["members"]
           e == frame[t].end["members"]
           v == membersOf[c].cells[p]
<1>1. /\ Creating(t) /\ frame[t].at = "create members" /\ c \in channels /\ c \in Cid
      /\ p \in Nat /\ e \in Nat /\ p >= 1 /\ p <= e /\ e = membersOf[c].len
  <2>1. Creating(t) /\ frame[t].at = "create members" /\ p <= e
    BY DEF CreateMember, At, More, Creating, Creates
  <2>2. c \in channels /\ p >= 1 /\ e = membersOf[c].len
    BY <2>1 DEF HallInv, Building, Builds
  <2>3. p \in Nat /\ e \in Nat
    BY DEF TypeInv, FramesOK, Frames, Level
  <2> QED BY <2>1, <2>2, <2>3 DEF TypeInv, TablesTypeOK
<1>2. v \in Live(membersOf[c])
  <2>1. p \in Nat /\ e \in Nat /\ p >= 1 /\ p <= e
    BY <1>1
  <2>2. e = membersOf[c].len
    BY <1>1
  <2> HIDE DEF p, e
  <2>3. p \in 1..e
    BY <2>1
  <2> QED BY <2>2, <2>3 DEF Live
<1>3. v \in users /\ v \in Uid
  BY <1>1, <1>2 DEF HallInv, MembersStored, TypeInv, TablesTypeOK
<1>4. UserAddChannel(v, c) /\ frame'[t] = [frame[t] EXCEPT !.at = "create announce", !.uid = v]
  BY <1>3 DEF CreateMember, Pushed
<1>5. UNCHANGED <<channels, membersOf, users>>
  BY DEF CreateMember, accounts
<1>6. Others(t)
  BY OtherThreads DEF Continue
<1>7. /\ frame'[t].at = "create announce" /\ frame'[t].uid = v /\ frame'[t].cid = c
      /\ frame'[t].pos = frame[t].pos /\ frame'[t].end = frame[t].end
  BY <1>4 DEF TypeInv, FramesOK, Frames
<1>8. /\ Live(chansOf'[v]) = Live(chansOf[v]) \cup {c}
      /\ chansOf'[v].len = Len(chansOf'[v].cells)
      /\ \A u \in Uid \ {v} : chansOf'[u] = chansOf[u]
  <2>1. chansOf[v] \in Vectors(Cid) /\ chansOf[v].len = Len(chansOf[v].cells)
    BY <1>3 DEF TypeInv, TablesTypeOK, HallInv, ChansWhole
  <2>2. chansOf'[v] = Push(chansOf[v], c) /\ \A u \in Uid \ {v} : chansOf'[u] = chansOf[u]
    BY <1>3, <1>4 DEF UserAddChannel, TypeInv, TablesTypeOK
  <2> HIDE DEF c, v
  <2>3. c \in Cid
    BY <1>1
  <2>4. Live(Push(chansOf[v], c)) = Live(chansOf[v]) \cup {c}
    BY <2>1, <2>3, PushLive
  <2>5. Push(chansOf[v], c).len = Len(Push(chansOf[v], c).cells)
    BY <2>1, <2>3, PushWhole
  <2> QED BY <2>2, <2>4, <2>5
<1>9. \A s \in Conn : Creating(s)' <=> Creating(s)
  BY <1>1, <1>6, <1>7 DEF Others, Still, Creating, Creates
<1>10. ASSUME NEW s \in Conn, NEW d, NEW u, Joins(s, d, u)
       PROVE  Joins(s, d, u)' \/ (d = c /\ u = v)
  <2>1. CASE s # t
    BY <1>5, <1>6, <1>10, <2>1 DEF Others, Still, Joins, Creating
  <2>2. CASE s = t
    <3>1. PICK i \in p..e : membersOf[c].cells[i] = u /\ d = c
      BY <1>10, <2>2 DEF Joins
    <3> QED BY <1>5, <1>7, <1>9, <1>10, <2>2, <3>1 DEF Joins
  <2> QED BY <2>1, <2>2
<1> HIDE DEF c, v, p, e
<1>11. ChansWhole'
  BY <1>1, <1>3, <1>5, <1>8 DEF HallInv, ChansWhole
<1>12. (Admitted => Admitted') /\ MembersStored' /\ Unmade'
  BY <1>2, <1>3, <1>5, <1>8 DEF HallInv, Admitted, MembersStored, Unmade
<1>13. Joined'
  <2> SUFFICES ASSUME NEW d \in channels, NEW u \in Live(membersOf[d])
               PROVE  d \in Live(chansOf'[u]) \/ \E s \in Conn : Joins(s, d, u)'
    BY <1>5 DEF Joined
  <2>1. u \in Uid
    BY DEF HallInv, MembersStored, TypeInv, TablesTypeOK
  <2>2. d \in Live(chansOf[u]) => d \in Live(chansOf'[u])
    BY <1>3, <1>8, <2>1
  <2>3. d \in Live(chansOf[u]) \/ \E s \in Conn : Joins(s, d, u)
    BY DEF HallInv, Joined
  <2> QED BY <1>8, <1>10, <2>2, <2>3
<1>14. Building'
  <2>1. ASSUME NEW s \in Conn \ {t}, Creating(s)' PROVE Builds(s)'
    <3>1. Builds(s) /\ Still(s)
      BY <1>6, <1>9, <2>1 DEF HallInv, Building, Others
    <3> QED BY <1>5, <3>1 DEF Builds, Still
  <2>2. Builds(t)'
    BY <1>1, <1>5, <1>7 DEF Builds, c, v, p, e
  <2> QED BY <2>1, <2>2 DEF Building
<1> QED BY <1>11, <1>12, <1>13, <1>14 DEF HallInv

\* The channel is announced to a member, or all of them were told.
LEMMA CreateAnnounceRooms ==
    ASSUME TypeInv, HallInv, NEW t \in Conn, CreateAnnounce(t)
    PROVE  HallInv' /\ (Admitted => Admitted')
<1> DEFINE p == frame[t].pos["members"]
           e == frame[t].end["members"]
<1>1. /\ Creating(t) /\ frame[t].at = "create announce"
      /\ p \in Nat /\ e \in Nat /\ p >= 1 /\ p <= e
      /\ frame[t].cid \in channels /\ e = membersOf[frame[t].cid].len
  <2>1. Creating(t) /\ frame[t].at = "create announce"
    BY DEF CreateAnnounce, At, Creating, Creates
  <2>2. p \in Nat /\ e \in Nat
    BY DEF TypeInv, FramesOK, Frames, Level
  <2> QED BY <2>1, <2>2 DEF HallInv, Building, Builds
<1>2. /\ frame'[t].at = "create members" /\ frame'[t].cid = frame[t].cid
      /\ frame'[t].pos["members"] = p + 1 /\ frame'[t].end["members"] = e
  BY ZenonT(60) DEF CreateAnnounce, Advance, TypeInv, FramesOK, Frames, Level
<1>3. UNCHANGED <<users, chansOf, channels, membersOf>>
  BY DEF CreateAnnounce, tables, accounts, rooms
<1>4. \A s \in Conn \ {t} : frame'[s] = frame[s]
  BY DEF CreateAnnounce, TypeInv, FramesOK
<1>5. \A s \in Conn : Creating(s)' <=> Creating(s)
  BY <1>1, <1>2, <1>4 DEF Creating, Creates
<1>6. ASSUME NEW s \in Conn, NEW d, NEW u, Joins(s, d, u) PROVE Joins(s, d, u)'
  <2>1. CASE s # t
    BY <1>3, <1>4, <1>6, <2>1 DEF Joins, Creating
  <2>2. CASE s = t
    <3>1. PICK i \in p..e : membersOf[d].cells[i] = u /\ d = frame[t].cid /\ i # p
      BY <1>1, <1>6, <2>2 DEF Joins
    <3>2. i \in (p + 1)..e
      <4>1. p \in Nat /\ e \in Nat /\ i \in p..e /\ i # p
        BY <1>1, <3>1
      <4> HIDE DEF p, e
      <4> QED BY <4>1
    <3> QED BY <1>1, <1>2, <1>3, <1>5, <2>2, <3>1, <3>2 DEF Joins
  <2> QED BY <2>1, <2>2
<1>7. ChansWhole' /\ (Admitted => Admitted') /\ MembersStored' /\ Unmade'
  BY <1>3 DEF HallInv, ChansWhole, Admitted, MembersStored, Unmade
<1>8. Joined'
  BY <1>3, <1>6 DEF HallInv, Joined
<1>9. Building'
  <2>1. ASSUME NEW s \in Conn \ {t}, Creating(s)' PROVE Builds(s)'
    <3>1. Builds(s) /\ frame'[s] = frame[s]
      BY <1>4, <1>5, <2>1 DEF HallInv, Building
    <3> QED BY <1>3, <3>1 DEF Builds
  <2>2. Builds(t)'
    <3>1. p + 1 >= 1
      <4>1. p \in Nat
        BY <1>1
      <4> HIDE DEF p
      <4> QED BY <4>1
    <3> QED BY <1>1, <1>2, <1>3, <3>1 DEF Builds
  <2> QED BY <2>1, <2>2 DEF Building
<1> QED BY <1>7, <1>8, <1>9 DEF HallInv

\* The creation is over: by now every member lists the channel.
LEMMA CreateFinishedRooms ==
    ASSUME TypeInv, HallInv, NEW t \in Conn, CreateFinished(t)
    PROVE  HallInv' /\ (Admitted => Admitted')
<1>1. /\ frame[t].at = "create members" /\ ~Creating(t)'
      /\ \A s \in Conn \ {t} : frame'[s] = frame[s]
  BY DEF CreateFinished, At, Done, Return, Idle, Creating, Creates, TypeInv, FramesOK
<1>2. UNCHANGED <<users, chansOf, channels, membersOf>>
  BY DEF CreateFinished, tables, accounts, rooms
<1>3. \A c, u : ~Joins(t, c, u)
  <2> DEFINE p == frame[t].pos["members"]
             e == frame[t].end["members"]
  <2>1. p \in Nat /\ e \in Nat /\ ~(p <= e)
    BY DEF CreateFinished, More, TypeInv, FramesOK, Frames, Level
  <2>2. p..e = {}
    <3> HIDE DEF p, e
    <3> QED BY <2>1
  <2> QED BY <2>2 DEF Joins
<1>4. \A s \in Conn : \A c, u : Joins(s, c, u) => Joins(s, c, u)'
  BY <1>1, <1>2, <1>3, ZenonT(60) DEF Joins, Creating
<1>5. \A s \in Conn : Creating(s)' => Creating(s) /\ frame'[s] = frame[s]
  BY <1>1 DEF Creating
<1>6. ChansWhole' /\ (Admitted => Admitted') /\ MembersStored' /\ Unmade'
  BY <1>2 DEF HallInv, ChansWhole, Admitted, MembersStored, Unmade
<1>7. Joined'
  BY <1>2, <1>4 DEF HallInv, Joined
<1>8. Building'
  BY <1>2, <1>5 DEF HallInv, Building, Builds
<1> QED BY <1>6, <1>7, <1>8 DEF HallInv

\* Every step, while no account is deleted.
LEMMA RoomNext ==
    ASSUME TypeInv, Deleting = {}, AccountInv, RoomInv, [Next]_vars
    PROVE  RoomInv'
<1>1. ASSUME NEW t \in Conn, Ask(t) \/ Continue(t) PROVE RoomInv'
  <2>1. users \subseteq users' /\ Others(t)
    BY <1>1, NoneFinished, AccountSteps, OtherThreads DEF Grows
  <2>2. ASSUME NEW other \in Announced, CreateChannel(t, other) PROVE RoomInv'
    <3>1. auth[t] \in Uid
      BY <2>2, LoggedInUser DEF CreateChannel, Request, TypeInv
    <3>2. auth[t] \in users /\ other \in users
      BY <3>1, AnnouncedStored, NilAssumption DEF AccountInv
    <3> QED BY <2>2, <3>2, CreateChannelRooms DEF RoomInv
  <2>3. CASE CreateMember(t) \/ CreateAnnounce(t) \/ CreateFinished(t)
    BY <2>3, CreateMemberRooms, CreateAnnounceRooms, CreateFinishedRooms DEF RoomInv
  <2>4. CASE Roomless(t)
    BY <2>1, <2>4, RoomlessKeeps DEF RoomInv
  <2> QED BY <1>1, <2>2, <2>3, <2>4, RoomlessSteps
<1>2. CASE UNCHANGED vars
  <2>1. UNCHANGED <<users, chansOf, channels, membersOf, frame>>
    BY <1>2 DEF vars, tables, accounts, rooms, threads
  <2> QED BY <2>1, RoomsKept DEF RoomInv, HallInv, MembersStored
<1> QED BY <1>1, <1>2 DEF Next, Rest

\* The server starts without channels.
LEMMA RoomInit == Init => RoomInv
<1> SUFFICES ASSUME Init PROVE RoomInv
  OBVIOUS
<1>1. channels = {} /\ \A t \in Conn : ~Creating(t)
  BY DEF Init, TablesInit, Idle, Creating, Creates
<1>2. \A u \in Uid : chansOf[u].len = Len(chansOf[u].cells) /\ Live(chansOf[u]) = {}
  BY DEF Init, TablesInit, VectorOf, Live
<1>3. \A c \in Cid : Live(membersOf[c]) = {}
  BY DEF Init, TablesInit, VectorOf, Live
<1> QED BY <1>1, <1>2, <1>3
        DEF RoomInv, HallInv, ChansWhole, Admitted, MembersStored, Unmade, Joined, Building

\* The rooms, as long as no account is deleted.
LEMMA Roomed == Spec /\ [](Deleting = {}) => [](TypeInv /\ AccountInv /\ RoomInv)
<1>1. TypeInv /\ Deleting = {} /\ AccountInv /\ RoomInv /\ [Next]_vars => AccountInv' /\ RoomInv'
  BY AccountsNext, RoomNext
<1> QED BY <1>1, AccountInit, RoomInit, Typed, PTL DEF Spec

\* While no account is deleted: however creations overlap with each other and with logins, a
\* user lists a channel exactly when the channel lists the user, but for the members that
\* Database::add_channel has not come to yet.  (With deletions it is false: a member deleted
\* between its selection in the client and add_channel stays in the list of the channel.)
THEOREM MembersAgree == Spec /\ [](Deleting = {}) => []MembershipAgrees
<1>1. TypeInv /\ RoomInv => MembershipAgrees
  <2> SUFFICES ASSUME TypeInv, RoomInv, NEW u \in users, NEW c \in channels
               PROVE  \/ (u \in Live(membersOf[c])) <=> (c \in Live(chansOf[u]))
                      \/ \E t \in Conn : Creating(t) /\ frame[t].cid = c
    BY DEF MembershipAgrees, Creating, Creates
  <2>1. u \in Uid
    BY DEF TypeInv, TablesTypeOK
  <2>2. c \in Live(chansOf[u]) => u \in Live(membersOf[c])
    BY <2>1 DEF RoomInv, Admitted
  <2>3. u \in Live(membersOf[c]) => c \in Live(chansOf[u]) \/ \E t \in Conn : Joins(t, c, u)
    BY DEF RoomInv, HallInv, Joined
  <2> QED BY <2>2, <2>3 DEF Joins
<1> QED BY <1>1, Roomed, PTL

-----------------------------------------------------------------------------
(* A stored message is listed                                               *)

\* An account whose registration is over.
Settled(u) == nameOf[u] # Nil /\ \A t \in Conn : ~Registers(t, u)

SettledInv ==
    /\ \A t \in Conn : auth[t] # Nil => Settled(auth[t])
    /\ \A m \in Mid : senderOf[m] # Nil => Settled(senderOf[m])

\* What a deletion has taken out of the table is not put back.
Gone == \A t \in Conn : frame[t].at \in Removing => frame[t].mid \notin messages

\* Where the deletion of an account walks the messages of a channel.
Sweeps == {"delete messages", "delete text", "delete notify"}

\* It stays inside the buffer it began in.
SweepsIn(t) ==
    frame[t].at \in Sweeps =>
        /\ frame[t].pos["messages"] >= 1
        /\ frame[t].end["messages"] <= Len(logOf[frame[t].cid].cells)
        /\ frame[t].at = "delete text" => frame[t].pos["messages"] <= frame[t].end["messages"]

\* The message it found is one of the account's, and is still where it was found unless the
\* vector was changed.
Found(t) ==
    frame[t].at = "delete text" =>
        /\ channelOf[frame[t].mid] # Nil /\ senderOf[frame[t].mid] = frame[t].uid
        /\ \/ t \in disturbed
           \/ logOf[frame[t].cid].cells[frame[t].pos["messages"]] = frame[t].mid

StoreInv ==
    /\ SettledInv /\ Gone
    /\ \A t \in Conn : SweepsIn(t) /\ Found(t)
    /\ StoredMessagesListed

\* No registration takes up an account again.
LEMMA SettledStays ==
    ASSUME TypeInv, NEW t \in Conn, Ask(t) \/ Continue(t), NEW u \in Uid, Settled(u)
    PROVE  Settled(u)'
<1>a. frame \in [Conn -> Frames] /\ nameOf \in [Uid -> Name \cup {Nil}]
  BY DEF TypeInv, FramesOK, TablesTypeOK
<1>1. CASE AccountsStay /\ FramesStay
  BY <1>1 DEF AccountsStay, FramesStay, Settled, Registers
<1>2. CASE \E n \in Name, p \in Password : Register(t, n, p)
  <2>1. PICK n \in Name, p \in Password : Register(t, n, p)
    BY <1>2
  <2>2. CASE UNCHANGED <<nameOf, frame>>
    BY <2>2 DEF Settled, Registers
  <2>3. ASSUME NEW v \in FreeUids, MakeUser(v, n),
               frame' = [frame EXCEPT ![t].at = "add password", ![t].uid = v, ![t].password = p]
        PROVE  Settled(u)'
    <3>1. v # u /\ v \in Uid
      BY DEF FreeUids, Settled
    <3>2. nameOf'[u] = nameOf[u]
      BY <1>a, <2>3, <3>1 DEF MakeUser
    <3>3. frame'[t].uid = v /\ \A s \in Conn \ {t} : frame'[s] = frame[s]
      BY <1>a, <2>3 DEF Frames
    <3> QED BY <3>1, <3>2, <3>3 DEF Settled, Registers
  <2>4. CASE WithName(n) = {} /\ FreeUids # {}
    <3>1. Fresh(FreeUids) \in FreeUids
      BY <2>4 DEF Fresh
    <3>2. MakeUser(Fresh(FreeUids), n) /\
          frame' = [frame EXCEPT ![t].at = "add password", ![t].uid = Fresh(FreeUids),
                                 ![t].password = p]
      BY <2>1, <2>4 DEF Register
    <3> QED BY <2>3, <3>1, <3>2
  <2> QED BY <2>1, <2>2, <2>4 DEF Register
<1>3. CASE RegisterPassword(t)
  BY <1>a, <1>3
  DEF Settled, Registers, Registering, RegisterPassword, At, Goto, Frames
<1>4. CASE RegisterUser(t)
  BY <1>a, <1>4
  DEF Settled, Registers, Registering, RegisterUser, At, Done, Return, Idle, Frames
<1> QED BY <1>1, <1>2, <1>3, <1>4, OtherAsks, OtherContinues

\* Who logs in is stored; who sends is logged in.
LEMMA SettledNext ==
    ASSUME TypeInv, TypeInv', Made, SettledInv, NEW t \in Conn, Ask(t) \/ Continue(t),
           \A s \in Conn : auth'[s] \in {auth[s], Nil} \cup users,
           \A m \in Mid : \/ senderOf'[m] = senderOf[m]
                          \/ \E s \in Conn : senderOf'[m] = auth[s]
    PROVE  SettledInv'
<1>1. \A u \in users : u \in Uid /\ Settled(u)
  BY DEF Made, Settled, TypeInv, TablesTypeOK
<1>2. \A s \in Conn : auth[s] # Nil => auth[s] \in Uid /\ Settled(auth[s])
  BY DEF SettledInv, TypeInv, WiresOK
<1>3. \A m \in Mid : senderOf[m] # Nil => senderOf[m] \in Uid /\ Settled(senderOf[m])
  BY DEF SettledInv, TypeInv, TablesTypeOK
<1>4. \A u \in Uid : Settled(u) => Settled(u)'
  BY SettledStays
<1>5. \A s \in Conn : auth'[s] # Nil => auth'[s] \in Uid /\ Settled(auth'[s])
  BY <1>1, <1>2
<1>6. \A m \in Mid : senderOf'[m] # Nil => senderOf'[m] \in Uid /\ Settled(senderOf'[m])
  BY <1>2, <1>3
<1>7. \A u, v : u = v /\ Settled(u)' => (Settled(v))'
  OBVIOUS
<1> QED BY <1>4, <1>5, <1>6 DEF SettledInv, Settled

\* Where a handler works on the lists of messages, or takes an account apart.
Lists == Sweeps \cup Removing \cup {"delete channels", "append"}

\* A step of t that touches no message.
Modest(t) ==
    /\ UNCHANGED <<logOf, texts>> /\ users' \subseteq users
    /\ \A s \in Conn : auth'[s] \in {auth[s], Nil} \cup users
    /\ UNCHANGED frame \/ (frame[t].at \notin Lists /\ frame'[t].at \notin Lists)

\* Every step but those that make, list, remove or sweep messages or accounts.
LEMMA ModestSteps ==
    ASSUME TypeInv, NEW t \in Conn,
           \/ \E n \in Name, p \in Password : Register(t, n, p) \/ Login(t, n, p) \/ DeleteAccount(t, n, p)
           \/ \E regex \in (SUBSET Name) \cup {Nil} : ListAccounts(t, regex)
           \/ \E other \in Announced : CreateChannel(t, other)
           \/ \E m \in Mid : DeleteMessage(t, m)
           \/ Accept(t) \/ Disconnect(t)
           \/ RegisterPassword(t) \/ LoginUser(t) \/ LoginChannel(t) \/ LoginMessage(t)
           \/ LoginChannelReplayed(t) \/ LoginFinished(t) \/ ListAccount(t) \/ ListFinished(t)
           \/ CreateMember(t) \/ CreateAnnounce(t) \/ CreateFinished(t) \/ SendNotify(t)
           \/ DisconnectFinished(t) \/ QuitThread(t) \/ Dispatch(t)
    PROVE  Modest(t)
<1>a. frame \in [Conn -> Frames] /\ frame[t] \in Frames /\ auth \in [Conn -> Uid \cup {Nil}]
  BY DEF TypeInv, FramesOK, WiresOK
<1> USE DEF Modest, Lists, Sweeps, Removing
<1>1. ASSUME NEW n \in Name, NEW p \in Password, Register(t, n, p) PROVE Modest(t)
  <2>1. CASE UNCHANGED frame
    BY <1>1, <2>1 DEF Register, Request, rooms
  <2>2. ASSUME NEW u, frame' = [frame EXCEPT ![t].at = "add password", ![t].uid = u,
                                             ![t].password = p]
        PROVE  Modest(t)
    <3>1. frame'[t].at = "add password"
      BY <1>a, <2>2 DEF Frames
    <3> QED BY <1>1, <3>1 DEF Register, Request, rooms
  <2> QED BY <1>1, <2>1, <2>2 DEF Register
<1>2. ASSUME NEW n \in Name, NEW p \in Password, Login(t, n, p) PROVE Modest(t)
  <2>1. CASE UNCHANGED frame
    BY <1>2, <2>1 DEF Login, Request, tables, rooms, accounts
  <2>2. ASSUME NEW u, frame' = [frame EXCEPT ![t].at = "login user", ![t].uid = u]
        PROVE  Modest(t)
    <3>1. frame'[t].at = "login user"
      BY <1>a, <2>2 DEF Frames
    <3> QED BY <1>2, <3>1 DEF Login, Request, tables, rooms, accounts
  <2> QED BY <1>2, <2>1, <2>2 DEF Login
<1>3. ASSUME NEW n \in Name, NEW p \in Password, DeleteAccount(t, n, p) PROVE Modest(t)
  <2>1. CASE UNCHANGED frame
    BY <1>3, <2>1 DEF DeleteAccount, Request, tables, rooms, accounts
  <2>2. ASSUME NEW u, frame' = [frame EXCEPT ![t].at = "delete user", ![t].uid = u]
        PROVE  Modest(t)
    <3>1. frame'[t].at = "delete user"
      BY <1>a, <2>2 DEF Frames
    <3> QED BY <1>3, <3>1 DEF DeleteAccount, Request, tables, rooms, accounts
  <2> QED BY <1>3, <2>1, <2>2 DEF DeleteAccount
<1>4. ASSUME NEW regex \in (SUBSET Name) \cup {Nil}, ListAccounts(t, regex) PROVE Modest(t)
  <2>1. CASE UNCHANGED frame
    BY <1>4, <2>1 DEF ListAccounts, Request, tables, rooms, accounts
  <2>2. ASSUME NEW us, frame' = [frame EXCEPT ![t].at = "list", ![t].todo = us]
        PROVE  Modest(t)
    <3>1. frame'[t].at = "list"
      BY <1>a, <2>2 DEF Frames
    <3> QED BY <1>4, <3>1 DEF ListAccounts, Request, tables, rooms, accounts
  <2> QED BY <1>4, <2>1, <2>2 DEF ListAccounts
<1>5. ASSUME NEW other \in Announced, CreateChannel(t, other) PROVE Modest(t)
  <2> DEFINE d == Fresh(Cid \ channels)
             f == Loop([frame[t] EXCEPT !.at = "create members", !.cid = d], "members",
                       VectorOf(<<auth[t], other>>))
  <2>1. frame' = [frame EXCEPT ![t] = f]
    BY <1>5 DEF CreateChannel
  <2>2. f.at = "create members"
    BY <1>a DEF Loop, Frames
  <2> HIDE DEF f
  <2>3. frame'[t].at = "create members"
    BY <1>a, <2>1, <2>2
  <2> QED BY <1>5, <2>3 DEF CreateChannel, Request, accounts
<1>6. ASSUME NEW m \in Mid, DeleteMessage(t, m) PROVE Modest(t)
  <2>1. CASE UNCHANGED frame
    BY <1>6, <2>1 DEF DeleteMessage, Request, tables, rooms, accounts
  <2>2. ASSUME frame' = [frame EXCEPT ![t].at = "remove text", ![t].cid = channelOf[m],
                                      ![t].mid = m]
        PROVE  Modest(t)
    <3>1. frame'[t].at = "remove text"
      BY <1>a, <2>2 DEF Frames
    <3> QED BY <1>6, <3>1 DEF DeleteMessage, Request, tables, rooms, accounts
  <2> QED BY <1>6, <2>1, <2>2 DEF DeleteMessage
<1>7. ASSUME Accept(t) PROVE Modest(t)
  BY <1>a, <1>7 DEF Accept, tables, rooms, accounts
<1>8. ASSUME Disconnect(t) PROVE Modest(t)
  BY <1>a, <1>8 DEF Disconnect, Request, Goto, Frames, tables, rooms, accounts
<1>9. ASSUME RegisterPassword(t) PROVE Modest(t)
  BY <1>a, <1>9 DEF RegisterPassword, At, Goto, Frames, rooms
<1>10. ASSUME LoginUser(t) PROVE Modest(t)
  <2> DEFINE f == Loop([frame[t] EXCEPT !.at = "login channels"], "channels",
                       chansOf[frame[t].uid])
  <2>1. CASE UNCHANGED <<frame, auth>>
    BY <1>10, <2>1 DEF LoginUser, tables, rooms, accounts
  <2>2. CASE frame' = [frame EXCEPT ![t] = f] /\ frame[t].uid \in users
             /\ auth' = [auth EXCEPT ![t] = frame[t].uid]
    <3>1. f.at = "login channels"
      BY <1>a DEF Loop, Frames
    <3> HIDE DEF f
    <3>2. frame'[t].at = "login channels"
      BY <1>a, <2>2, <3>1
    <3>3. \A s \in Conn : auth'[s] \in {auth[s], Nil} \cup users
      BY <1>a, <2>2
    <3> QED BY <1>10, <3>2, <3>3 DEF LoginUser, At, tables, rooms, accounts
  <2> QED BY <1>10, <2>1, <2>2 DEF LoginUser
<1>11. ASSUME LoginChannel(t) PROVE Modest(t)
  <2>1. PICK c \in Cell(t, "channels", chansOf, frame[t].uid) :
          \/ frame' = [frame EXCEPT ![t] = Advance(frame[t], "channels")]
          \/ frame' = [frame EXCEPT ![t] = Replay(frame[t], c)]
    BY <1>a, <1>11 DEF LoginChannel, Replay
  <2>2. Advance(frame[t], "channels").at = "login channels" /\ Replay(frame[t], c).at = "login messages"
    BY <1>a, <1>11 DEF LoginChannel, At, Advance, Replay, Loop, Frames
  <2> QED BY <1>a, <1>11, <2>1, <2>2 DEF LoginChannel, At, tables, rooms, accounts
<1>12. ASSUME LoginMessage(t) PROVE Modest(t)
  BY <1>a, <1>12 DEF LoginMessage, At, Advance, Frames, tables, rooms, accounts
<1>13. ASSUME LoginChannelReplayed(t) PROVE Modest(t)
  BY <1>a, <1>13 DEF LoginChannelReplayed, At, Goto, Frames, tables, rooms, accounts
<1>14. ASSUME LoginFinished(t) PROVE Modest(t)
  BY <1>a, <1>14 DEF LoginFinished, At, Done, Return, Idle, tables, rooms, accounts
<1>15. ASSUME ListAccount(t) PROVE Modest(t)
  <2>1. PICK u \in frame[t].todo :
          frame' = [frame EXCEPT ![t].todo = @ \ {u}, ![t].found = @ \cup ({u} \cap users)]
    BY <1>15 DEF ListAccount
  <2>2. frame'[t].at = "list"
    BY <1>15, <1>a, <2>1 DEF Frames, ListAccount, At
  <2> QED BY <1>15, <2>2 DEF ListAccount, At, tables, rooms, accounts
<1>16. ASSUME ListFinished(t) PROVE Modest(t)
  BY <1>a, <1>16 DEF ListFinished, At, Done, Return, Idle, tables, rooms, accounts
<1>17. ASSUME CreateMember(t) PROVE Modest(t)
  <2> DEFINE u == membersOf[frame[t].cid].cells[frame[t].pos["members"]]
             f == [frame[t] EXCEPT !.at = "create announce", !.uid = u]
  <2>1. CASE frame' = [frame EXCEPT ![t] = Advance(frame[t], "members")]
    BY <1>a, <1>17, <2>1 DEF CreateMember, At, Advance, accounts, Frames
  <2>2. CASE Pushed(t, f, "channels", u, chansOf[u])
    <3>1. f.at = "create announce"
      BY <1>a DEF Frames
    <3> HIDE DEF f
    <3>2. frame'[t].at = "create announce"
      BY <2>2, <3>1 DEF Pushed
    <3> QED BY <1>17, <3>2 DEF CreateMember, At, accounts
  <2> QED BY <1>a, <1>17, <2>1, <2>2 DEF CreateMember
<1>18. ASSUME CreateAnnounce(t) PROVE Modest(t)
  BY <1>a, <1>18 DEF CreateAnnounce, At, Advance, Frames, tables, rooms, accounts
<1>19. ASSUME CreateFinished(t) PROVE Modest(t)
  BY <1>a, <1>19 DEF CreateFinished, At, Done, Return, Idle, tables, rooms, accounts
<1>20. ASSUME SendNotify(t) PROVE Modest(t)
  <2>1. frame[t].at = "send notify" /\ UNCHANGED <<logOf, texts, users, auth>>
    BY <1>20 DEF SendNotify, At, tables, rooms, accounts
  <2>2. frame'[t].at \in {"send notify", "idle", "sweep"}
    BY <1>a, <1>20, ZenonT(60) DEF SendNotify, At, NotifyMember, Advance, Done, Return, Idle, Frames
  <2> QED BY <2>1, <2>2
<1>21. ASSUME DisconnectFinished(t) PROVE Modest(t)
  BY <1>a, <1>21 DEF DisconnectFinished, At, Return, Idle, tables, rooms, accounts
<1>22. ASSUME QuitThread(t) PROVE Modest(t)
  <2>1. \A s \in Conn : auth'[s] \in {auth[s], Nil}
    BY <1>a, <1>22 DEF QuitThread, Close
  <2> QED BY <1>a, <1>22, <2>1 DEF QuitThread, Return, Idle, tables, rooms, accounts
<1>23. ASSUME Dispatch(t) PROVE Modest(t)
  <2>1. \A s \in Conn : auth'[s] \in {auth[s], Nil}
    BY <1>a, <1>23 DEF Dispatch, Close
  <2> QED BY <1>a, <1>23, <2>1 DEF Dispatch, Return, Idle, tables, rooms, accounts
<1> QED
  BY <1>1, <1>2, <1>3, <1>4, <1>5, <1>6, <1>7, <1>8, <1>9, <1>10, <1>11, <1>12, <1>13,
     <1>14, <1>15, <1>16, <1>17, <1>18, <1>19, <1>20, <1>21, <1>22, <1>23

\* A handler goes on with what it had in hand.
Keeps(s) ==
    /\ frame[s].at = "append" => frame'[s].at = "append" /\ frame'[s].mid = frame[s].mid
    /\ frame'[s].at \in Removing => frame[s].at \in Removing /\ frame'[s].mid = frame[s].mid
    /\ frame'[s].at = "delete text" =>
           /\ frame[s].at = "delete text" /\ frame'[s].mid = frame[s].mid
           /\ frame'[s].uid = frame[s].uid /\ frame'[s].cid = frame[s].cid
           /\ frame'[s].pos = frame[s].pos
    /\ s \in Deleting => s \in Deleting' /\ frame'[s].uid = frame[s].uid
    /\ SweepsIn(s)'

\* No loop is left without its cells.
LEMMA SweepKept ==
    ASSUME TypeInv, TypeInv', NEW s \in Conn, SweepsIn(s), BuffersKept,
           frame'[s].at = frame[s].at, frame'[s].cid = frame[s].cid,
           frame'[s].pos = frame[s].pos, frame'[s].end = frame[s].end
    PROVE  SweepsIn(s)'
<1> SUFFICES ASSUME frame[s].at \in Sweeps PROVE SweepsIn(s)'
  BY DEF SweepsIn
<1>1. PICK c, e : c = frame[s].cid /\ e = frame[s].end["messages"]
  OBVIOUS
<1>2. c \in Cid /\ e \in Nat
  BY <1>1, ZenonT(60) DEF TypeInv, FramesOK, Whole, HasCid, Sweeps, Frames, Level
<1>3. e <= Len(logOf[c].cells) /\ Len(logOf'[c].cells) >= Len(logOf[c].cells)
  BY <1>1, <1>2 DEF SweepsIn, BuffersKept
<1>4. Len(logOf[c].cells) \in Nat /\ Len(logOf'[c].cells) \in Nat
  BY <1>2 DEF TypeInv, TablesTypeOK, Vectors
<1>5. e <= Len(logOf'[c].cells)
  BY <1>2, <1>3, <1>4
<1> QED BY <1>1, <1>5, Zenon DEF SweepsIn

\* No buffer of a list that does not change gets smaller.
LEMMA BuffersSame ==
    ASSUME TypeInv, UNCHANGED logOf
    PROVE  BuffersKept
<1> SUFFICES ASSUME NEW c \in Cid PROVE Len(logOf'[c].cells) >= Len(logOf[c].cells)
  BY DEF BuffersKept
<1>1. Len(logOf[c].cells) \in Nat /\ logOf' = logOf
  BY DEF TypeInv, TablesTypeOK, Vectors
<1> QED BY <1>1

\* What goes for a thread whose handler stays where it is.
LEMMA StillKeeps ==
    ASSUME TypeInv, TypeInv', NEW s \in Conn, SweepsIn(s), BuffersKept, Still(s)
    PROVE  Keeps(s)
BY SweepKept DEF Keeps, Still, Deleting

\* The same where another step ends the loop's turn.
LEMMA ModestKeeps ==
    ASSUME TypeInv, TypeInv', NEW t \in Conn, SweepsIn(t), Modest(t)
    PROVE  Keeps(t)
<1>1. BuffersKept
  BY BuffersSame DEF Modest
<1>2. CASE UNCHANGED frame
  BY <1>1, <1>2, SweepKept DEF Keeps, Deleting
<1>3. CASE frame[t].at \notin Lists /\ frame'[t].at \notin Lists
  BY <1>3 DEF Keeps, Deleting, Lists, Sweeps, Removing, SweepsIn
<1> QED BY <1>2, <1>3 DEF Modest

\* A message that was listed, or excused, is so after the step.
LEMMA ListedKept ==
    ASSUME TypeInv, NEW m \in Mid, Listed(m), \A s \in Conn : Keeps(s),
           senderOf'[m] = senderOf[m], channelOf'[m] = channelOf[m],
           m \in Live(logOf[channelOf[m]]) => m \in Live(logOf'[channelOf[m]]),
           senderOf[m] \in users' => senderOf[m] \in users
    PROVE  Listed(m)'
<1>1. CASE m \in Live(logOf[channelOf[m]])
  BY <1>1 DEF Listed
<1>2. CASE senderOf[m] \notin users
  BY <1>2 DEF Listed
<1>3. ASSUME NEW s \in Conn, frame[s].at = "append" /\ frame[s].mid = m PROVE Listed(m)'
  BY <1>3 DEF Listed, Keeps
<1>4. ASSUME NEW s \in Deleting, frame[s].uid = senderOf[m] PROVE Listed(m)'
  <2>1. s \in Conn
    BY DEF Deleting
  <2>2. s \in Deleting' /\ frame'[s].uid = senderOf'[m]
    BY <1>4, <2>1 DEF Keeps
  <2> QED BY <2>2 DEF Listed
<1> QED BY <1>1, <1>2, <1>3, <1>4 DEF Listed

\* No list and no message changes.
LEMMA TextsKept ==
    ASSUME TypeInv, StoreInv, SettledInv', UNCHANGED <<logOf, texts>>, users' \subseteq users,
           disturbed \subseteq disturbed', \A s \in Conn : Keeps(s)
    PROVE  StoreInv'
<1>1. UNCHANGED <<messages, senderOf, channelOf>>
  BY DEF texts
<1>2. Gone'
  BY <1>1 DEF StoreInv, Gone, Keeps
<1>3. ASSUME NEW s \in Conn PROVE Found(s)'
  BY <1>1, Zenon DEF StoreInv, Found, Keeps
<1>4. StoredMessagesListed'
  <2> SUFFICES ASSUME disturbed' = {}, NEW m \in messages PROVE Listed(m)'
    BY <1>1 DEF StoredMessagesListed
  <2>1. m \in Mid /\ Listed(m)
    BY DEF StoreInv, StoredMessagesListed, TypeInv, TablesTypeOK
  <2> QED BY <1>1, <2>1, ListedKept
<1> QED BY <1>2, <1>3, <1>4 DEF StoreInv, Keeps

\* A login, a creation, a listing: no message is touched.
LEMMA ModestStores ==
    ASSUME TypeInv, TypeInv', Made, StoreInv, NEW t \in Conn, Ask(t) \/ Continue(t), Modest(t)
    PROVE  StoreInv'
<1>1. Others(t)
  BY OtherThreads
<1>2. BuffersKept
  BY BuffersSame DEF Modest
<1>3. \A s \in Conn : Keeps(s)
  BY <1>1, <1>2, StillKeeps, ModestKeeps DEF StoreInv, Others
<1>4. SettledInv'
  BY SettledNext DEF StoreInv, Modest, texts
<1> QED BY <1>1, <1>3, <1>4, TextsKept DEF Modest, Others

\* The other threads, in any step.
LEMMA OthersKeep ==
    ASSUME TypeInv, TypeInv', StoreInv, NEW t \in Conn, Ask(t) \/ Continue(t), BuffersKept
    PROVE  disturbed \subseteq disturbed' /\ \A s \in Conn \ {t} : Still(s) /\ Keeps(s)
<1>1. Others(t)
  BY OtherThreads
<1> QED BY <1>1, StillKeeps DEF StoreInv, Others

\* A step of which only its own frame is left to look at.
LEMMA FrameStores ==
    ASSUME TypeInv, TypeInv', Made, StoreInv, NEW t \in Conn, Ask(t) \/ Continue(t),
           UNCHANGED <<logOf, texts, users, auth>>, Keeps(t)
    PROVE  StoreInv'
<1>1. disturbed \subseteq disturbed' /\ \A s \in Conn : Keeps(s)
  BY BuffersSame, OthersKeep
<1>2. SettledInv'
  BY SettledNext DEF StoreInv, texts
<1> QED BY <1>1, <1>2, TextsKept

\* UserTable::remove_user: the sweep of what the account sent begins.
LEMMA DeleteUserStores ==
    ASSUME TypeInv, TypeInv', Made, StoreInv, NEW t \in Conn, DeleteUser(t)
    PROVE  StoreInv'
<1>1. frame[t] \in Frames /\ frame \in [Conn -> Frames] /\ frame[t].at = "delete user"
      /\ UNCHANGED <<logOf, texts, users, auth>>
  BY DEF TypeInv, FramesOK, DeleteUser, At, tables, rooms, accounts
<1>2. frame'[t].at \in {"idle", "sweep", "delete channels"}
  <2>1. CASE Done(t)
    BY <1>1, <2>1 DEF Done, Return, Idle
  <2> DEFINE f == Loop([frame[t] EXCEPT !.at = "delete channels"], "channels",
                       chansOf[frame[t].uid])
  <2>2. CASE frame' = [frame EXCEPT ![t] = f]
    <3>1. f.at = "delete channels"
      BY <1>1 DEF Loop, Frames
    <3> QED BY <1>1, <2>2, <3>1
  <2> QED BY <2>1, <2>2 DEF DeleteUser
<1>3. Keeps(t)
  BY <1>1, <1>2 DEF Keeps, SweepsIn, Sweeps, Removing, Deleting
<1> QED BY <1>1, <1>3, FrameStores DEF Continue

\* A deletion goes on to its second removal.
LEMMA RemoveNotifyStores ==
    ASSUME TypeInv, TypeInv', Made, StoreInv, NEW t \in Conn, RemoveNotify(t)
    PROVE  StoreInv'
<1>1. frame[t] \in Frames /\ frame \in [Conn -> Frames] /\ frame[t].at = "remove notify"
      /\ UNCHANGED <<logOf, texts, users, auth>>
  BY DEF TypeInv, FramesOK, RemoveNotify, At, tables, rooms, accounts
<1>2. frame'[t].at \in Removing /\ frame'[t].mid = frame[t].mid
  <2>1. CASE frame' = [frame EXCEPT ![t] = Advance(frame[t], "members")]
    BY <1>1, <2>1, AdvanceType DEF Removing, Level
  <2>2. CASE Goto(t, "unlist")
    BY <1>1, <2>2 DEF Goto, Frames, Removing
  <2> QED BY <2>1, <2>2 DEF RemoveNotify, NotifyMember
<1>3. Keeps(t)
  BY <1>1, <1>2 DEF Keeps, SweepsIn, Sweeps, Removing, Deleting
<1> QED BY <1>1, <1>3, FrameStores DEF Continue

\* The announcements of a deleted account's message, and the end of one channel.
LEMMA SweepStores ==
    ASSUME TypeInv, TypeInv', Made, StoreInv, NEW t \in Conn,
           DeleteNotify(t) \/ DeleteChannelFinished(t)
    PROVE  StoreInv'
<1>1. frame[t] \in Frames /\ frame \in [Conn -> Frames]
      /\ frame[t].at \in {"delete notify", "delete messages"}
      /\ UNCHANGED <<logOf, texts, users, auth>>
  BY DEF TypeInv, FramesOK, DeleteNotify, DeleteChannelFinished, At, tables, rooms, accounts
<1>2. /\ frame'[t].at \in {"delete notify", "delete messages", "delete channels"}
      /\ frame'[t].uid = frame[t].uid /\ frame'[t].cid = frame[t].cid
      /\ frame'[t].pos["messages"] = frame[t].pos["messages"]
      /\ frame'[t].end = frame[t].end
  <2>1. CASE DeleteNotify(t)
    <3>1. CASE frame' = [frame EXCEPT ![t] = Advance(frame[t], "members")]
      <4>1. frame'[t] = Advance(frame[t], "members") /\ frame[t].at = "delete notify"
        BY <1>1, <2>1, <3>1 DEF DeleteNotify, At
      <4>2. "members" \in Level /\ "messages" \in Level \ {"members"}
        BY DEF Level
      <4> DEFINE h == Advance(frame[t], "members")
      <4>3. /\ h.at = frame[t].at /\ h.uid = frame[t].uid /\ h.cid = frame[t].cid
            /\ h.end = frame[t].end /\ h.pos["messages"] = frame[t].pos["messages"]
        BY <1>1, <4>2, AdvanceFacts
      <4> HIDE DEF h
      <4>4. frame'[t] = h
        BY <4>1 DEF h
      <4> QED BY <4>1, <4>3, <4>4
    <3>2. CASE Goto(t, "delete messages")
      BY <1>1, <3>2 DEF Goto, Frames
    <3> QED BY <2>1, <3>1, <3>2 DEF DeleteNotify, NotifyMember
  <2>2. CASE DeleteChannelFinished(t)
    BY <1>1, <2>2 DEF DeleteChannelFinished, Goto, Frames
  <2> QED BY <2>1, <2>2
<1>3. SweepsIn(t)
  BY DEF StoreInv
<1>4. SweepsIn(t)'
  BY <1>1, <1>2, <1>3, Zenon DEF SweepsIn, Sweeps
<1>5. Keeps(t)
  BY <1>1, <1>2, <1>4 DEF Keeps, Removing, Deleting
<1> QED BY <1>1, <1>5, FrameStores DEF Continue

\* The frame of a deletion that turns to a channel.
LEMMA SweepFacts ==
    ASSUME NEW f \in Frames, NEW c \in Cid, f.at = "delete channels", NEW v \in Vectors(Mid)
    PROVE  LET h == Loop(Advance([f EXCEPT !.at = "delete messages", !.cid = c], "channels"),
                         "messages", v)
           IN  /\ h.at = "delete messages" /\ h.uid = f.uid /\ h.cid = c
               /\ h.pos["messages"] = 1 /\ h.end["messages"] = v.len
BY DEF Loop, Advance, Frames, Level

\* A deletion of an account turns to its next channel.
LEMMA DeleteFromChannelStores ==
    ASSUME TypeInv, TypeInv', Made, StoreInv, NEW t \in Conn, DeleteFromChannel(t)
    PROVE  StoreInv'
<1>1. frame[t] \in Frames /\ frame \in [Conn -> Frames] /\ frame[t].at = "delete channels"
      /\ UNCHANGED <<logOf, texts, users, auth>>
  BY DEF TypeInv, FramesOK, DeleteFromChannel, At, accounts
<1>2. PICK c \in Cell(t, "channels", chansOf, frame[t].uid) :
          \/ frame' = [frame EXCEPT ![t] = Advance(frame[t], "channels")]
          \/ c \in channels /\ frame' = [frame EXCEPT ![t] = Sweep(frame[t], c)]
  BY <1>1 DEF DeleteFromChannel, Sweep
<1>3. CASE frame' = [frame EXCEPT ![t] = Advance(frame[t], "channels")]
  <2>1. frame'[t].at = "delete channels" /\ frame'[t].uid = frame[t].uid
    BY <1>1, <1>3 DEF Advance, Frames
  <2>2. Keeps(t)
    BY <1>1, <2>1 DEF Keeps, SweepsIn, Sweeps, Removing, Deleting
  <2> QED BY <1>1, <2>2, FrameStores DEF Continue
<1>4. CASE c \in channels /\ frame' = [frame EXCEPT ![t] = Sweep(frame[t], c)]
  <2>1. c \in Cid /\ logOf[c] \in Vectors(Mid)
    BY <1>4 DEF TypeInv, TablesTypeOK
  <2> DEFINE h == Sweep(frame[t], c)
  <2>2. /\ h.at = "delete messages" /\ h.uid = frame[t].uid /\ h.cid = c
        /\ h.pos["messages"] = 1 /\ h.end["messages"] = logOf[c].len
    BY <1>1, <2>1, SweepFacts DEF Sweep
  <2>3. frame'[t] = h
    BY <1>1, <1>4
  <2> HIDE DEF h
  <2>4. logOf[c].len <= Len(logOf'[c].cells) /\ 1 >= 1
    <3>1. logOf[c].len <= Len(logOf[c].cells) /\ 1 >= 1
      BY <2>1 DEF Vectors
    <3> QED BY <1>1, <3>1
  <2>5. SweepsIn(t)'
    BY <2>2, <2>3, <2>4, Zenon DEF SweepsIn
  <2>6. Keeps(t)
    BY <1>1, <2>2, <2>3, <2>5 DEF Keeps, Removing, Deleting
  <2> QED BY <1>1, <2>6, FrameStores DEF Continue
<1> QED BY <1>2, <1>3, <1>4

\* Who is stored is the account of no message yet: its registration ends here.
LEMMA RegisterUserStores ==
    ASSUME TypeInv, TypeInv', Made, StoreInv, NEW t \in Conn, RegisterUser(t)
    PROVE  StoreInv'
<1>1. frame \in [Conn -> Frames] /\ frame[t].at = "add user"
      /\ UNCHANGED <<logOf, texts, messages, senderOf, channelOf, auth>>
  BY DEF TypeInv, FramesOK, RegisterUser, At, rooms, texts
<1>2. PICK u : u = frame[t].uid
  OBVIOUS
<1>3. u \in Uid /\ Registers(t, u) /\ users' = users \cup {u}
  BY <1>1, <1>2 DEF TypeInv, FramesOK, Whole, HasUid, Registers, Registering, RegisterUser, AddUser
<1>4. frame'[t].at \in {"idle", "sweep"}
  BY <1>1 DEF RegisterUser, Done, Return, Idle
<1>5. Keeps(t)
  BY <1>1, <1>4 DEF Keeps, SweepsIn, Sweeps, Removing, Deleting
<1>6. disturbed \subseteq disturbed' /\ \A s \in Conn : Keeps(s)
  BY <1>1, <1>5, BuffersSame, OthersKeep DEF Continue
<1>7. SettledInv'
  BY <1>1, SettledNext DEF StoreInv, Continue
<1>8. Gone'
  BY <1>1, <1>6 DEF StoreInv, Gone, Keeps
<1>9. ASSUME NEW s \in Conn PROVE Found(s)'
  BY <1>1, <1>6, Zenon DEF StoreInv, Found, Keeps
<1>10. StoredMessagesListed'
  <2> SUFFICES ASSUME disturbed' = {}, NEW m \in messages PROVE Listed(m)'
    BY <1>1 DEF StoredMessagesListed
  <2>1. m \in Mid /\ Listed(m)
    BY <1>6 DEF StoreInv, StoredMessagesListed, TypeInv, TablesTypeOK
  <2>2. senderOf[m] # u
    BY <1>3, <2>1, NilAssumption DEF StoreInv, SettledInv, Settled
  <2> QED BY <1>1, <1>3, <1>6, <2>1, <2>2, ListedKept
<1> QED BY <1>6, <1>7, <1>8, <1>9, <1>10 DEF StoreInv, Keeps

\* The new message is stored first and listed next.
LEMMA SendMessageStores ==
    ASSUME TypeInv, TypeInv', Made, Placed, ListInv, StoreInv, NEW t \in Conn, NEW c \in Cid,
           SendMessage(t, c)
    PROVE  StoreInv'
<1>1. PICK x \in NextSnowflake :
          /\ AddMessage(x, auth[t], c)
          /\ frame' = [frame EXCEPT ![t].at = "append", ![t].cid = c, ![t].mid = x]
  BY DEF SendMessage
<1>2. x \in Mid /\ channelOf[x] = Nil
  BY DEF NextSnowflake, FreeMids
<1>3. frame \in [Conn -> Frames] /\ frame[t].at = "idle" /\ UNCHANGED <<logOf, users, auth>>
  BY DEF TypeInv, FramesOK, SendMessage, Request, rooms, accounts
<1>4. frame'[t].at = "append" /\ frame'[t].mid = x
  BY <1>1, <1>3 DEF Frames
<1>5. /\ messages' = messages \cup {x}
      /\ senderOf'[x] = auth[t] /\ channelOf'[x] = c
      /\ \A m \in Mid \ {x} : senderOf'[m] = senderOf[m] /\ channelOf'[m] = channelOf[m]
  BY <1>1, <1>2 DEF AddMessage, TypeInv, TablesTypeOK
<1>6. Keeps(t)
  BY <1>3, <1>4 DEF Keeps, SweepsIn, Sweeps, Removing, Deleting
<1>7. disturbed \subseteq disturbed' /\ \A s \in Conn : Keeps(s)
  BY <1>3, <1>6, BuffersSame, OthersKeep DEF Ask
<1>8. SettledInv'
  BY <1>3, <1>5, SettledNext DEF StoreInv, Ask
<1>9. Gone'
  <2> SUFFICES ASSUME NEW s \in Conn, frame'[s].at \in Removing
               PROVE  frame'[s].mid \notin messages'
    BY DEF Gone
  <2>1. frame[s].at \in Removing /\ frame'[s].mid = frame[s].mid /\ frame[s].mid \notin messages
    BY <1>7 DEF Keeps, StoreInv, Gone
  <2>2. channelOf[frame[s].mid] = frame[s].cid /\ frame[s].cid \in Cid
    BY <2>1 DEF ListInv, SecretInv, Carried, Removing, Holding, TypeInv, FramesOK, Whole, HasCid
  <2> QED BY <1>2, <1>5, <2>1, <2>2, NilAssumption
<1>10. ASSUME NEW s \in Conn PROVE Found(s)'
  <2> SUFFICES ASSUME frame'[s].at = "delete text" PROVE Found(s)'
    BY DEF Found
  <2>1. /\ frame[s].at = "delete text" /\ frame'[s].mid = frame[s].mid
        /\ frame'[s].uid = frame[s].uid /\ frame'[s].cid = frame[s].cid
        /\ frame'[s].pos = frame[s].pos
    BY <1>7 DEF Keeps
  <2>2. channelOf[frame[s].mid] # Nil /\ frame[s].mid \in Mid /\ Found(s)
    BY <2>1 DEF StoreInv, Found, TypeInv, FramesOK, Whole, HasMid
  <2>3. /\ senderOf'[frame[s].mid] = senderOf[frame[s].mid]
        /\ channelOf'[frame[s].mid] = channelOf[frame[s].mid]
    BY <1>2, <1>5, <2>2
  <2> QED BY <1>3, <1>7, <2>1, <2>2, <2>3, Zenon DEF Found
<1>11. StoredMessagesListed'
  <2> SUFFICES ASSUME disturbed' = {}, NEW m \in messages' PROVE Listed(m)'
    BY DEF StoredMessagesListed
  <2>1. CASE m = x
    BY <1>4, <2>1 DEF Listed
  <2>2. CASE m # x
    <3>1. m \in messages /\ m \in Mid /\ Listed(m)
      BY <1>5, <1>7, <2>2 DEF StoreInv, StoredMessagesListed, TypeInv, TablesTypeOK
    <3> QED BY <1>3, <1>5, <1>7, <2>2, <3>1, ListedKept
  <2> QED BY <2>1, <2>2
<1> QED BY <1>7, <1>8, <1>9, <1>10, <1>11 DEF StoreInv, Keeps

\* The deletion of a message: out of the table first.
LEMMA RemoveTextStores ==
    ASSUME TypeInv, TypeInv', Made, StoreInv, NEW t \in Conn, RemoveText(t)
    PROVE  StoreInv'
<1> DEFINE g == [frame[t] EXCEPT !.at = "remove notify"]
           f == Loop(g, "members", membersOf[frame[t].cid])
<1>1. /\ frame \in [Conn -> Frames] /\ frame[t].at = "remove text"
      /\ UNCHANGED <<logOf, users, auth, senderOf, channelOf>>
      /\ messages' = messages \ {frame[t].mid} /\ frame' = [frame EXCEPT ![t] = f]
  BY DEF TypeInv, FramesOK, RemoveText, RemoveMessage, At, rooms, accounts
<1>2. g.at = "remove notify" /\ g.mid = frame[t].mid /\ frame[t] \in Frames
  BY <1>1 DEF Frames
<1> HIDE DEF g
<1>3. f.at = "remove notify" /\ f.mid = frame[t].mid
  BY <1>2 DEF Loop, g, Frames
<1> HIDE DEF f
<1>4. frame'[t].at = "remove notify" /\ frame'[t].mid = frame[t].mid
  BY <1>1, <1>3
<1>5. BuffersKept
  BY <1>1, BuffersSame
<1>6. disturbed \subseteq disturbed' /\ \A s \in Conn \ {t} : Keeps(s)
  BY <1>5, OthersKeep DEF Continue
<1>7. SettledInv'
  BY <1>1, SettledNext DEF StoreInv, Continue
<1>8. Gone'
  <2>1. frame'[t].mid \notin messages'
    BY <1>1, <1>4
  <2>2. \A s \in Conn \ {t} : frame'[s].at \in Removing => frame'[s].mid \notin messages'
    BY <1>1, <1>6 DEF Keeps, StoreInv, Gone
  <2> QED BY <2>1, <2>2 DEF Gone
<1>9. ASSUME NEW s \in Conn PROVE Found(s)' /\ SweepsIn(s)'
  <2>1. CASE s = t
    BY <1>4, <2>1 DEF Found, SweepsIn, Sweeps
  <2>2. CASE s # t
    <3>1. Keeps(s)
      BY <1>6, <2>2
    <3> QED BY <1>1, <1>6, <3>1, Zenon DEF StoreInv, Found, Keeps
  <2> QED BY <2>1, <2>2
<1>10. StoredMessagesListed'
  <2> SUFFICES ASSUME disturbed' = {}, NEW m \in messages' PROVE Listed(m)'
    BY DEF StoredMessagesListed
  <2>1. m \in messages /\ Listed(m)
    BY <1>1, <1>6 DEF StoreInv, StoredMessagesListed
  <2>2. CASE m \in Live(logOf[channelOf[m]])
    BY <1>1, <2>2 DEF Listed
  <2>3. CASE senderOf[m] \notin users
    BY <1>1, <2>3 DEF Listed
  <2>4. ASSUME NEW s \in Conn, frame[s].at = "append" /\ frame[s].mid = m PROVE Listed(m)'
    <3>1. s # t
      BY <1>1, <2>4
    <3> QED BY <1>6, <2>4, <3>1 DEF Listed, Keeps
  <2>5. ASSUME NEW s \in Deleting, frame[s].uid = senderOf[m] PROVE Listed(m)'
    <3>1. s \in Conn \ {t}
      BY <1>1 DEF Deleting
    <3>2. s \in Deleting' /\ frame'[s].uid = senderOf'[m]
      BY <1>1, <1>6, <2>5, <3>1 DEF Keeps
    <3> QED BY <3>2 DEF Listed
  <2> QED BY <2>1, <2>2, <2>3, <2>4, <2>5 DEF Listed
<1> QED BY <1>7, <1>8, <1>9, <1>10 DEF StoreInv

\* The second addition: whoever is about to read a cell it took for an old one is disturbed.
LEMMA AppendMessageStores ==
    ASSUME TypeInv, TypeInv', Made, Placed, ListInv, StoreInv, NEW t \in Conn, AppendMessage(t)
    PROVE  StoreInv'
<1> DEFINE c == frame[t].cid
           x == frame[t].mid
           g == [frame[t] EXCEPT !.at = "send notify"]
           f == Loop(g, "members", membersOf[c])
<1>1. /\ c \in Cid /\ x \in Mid /\ frame[t].at = "append" /\ frame[t] \in Frames
      /\ UNCHANGED <<messages, senderOf, channelOf, users, auth>>
  BY DEF TypeInv, FramesOK, Whole, HasMid, HasCid, AppendMessage, At, texts, accounts
<1>2. ChannelAddMessage(c, x) /\ Pushed(t, f, "messages", c, logOf[c])
  BY DEF AppendMessage
<1>3. f.at = "send notify"
  BY <1>1 DEF Loop, Frames
<1> HIDE DEF f, g
<1>4. PICK d, y : d = c /\ y = x
  OBVIOUS
<1>5. d \in Cid /\ y \in Mid /\ frame[t].cid = d /\ frame[t].mid = y
  BY <1>1, <1>4
<1>6. ChannelAddMessage(d, y) /\ Pushed(t, f, "messages", d, logOf[d])
  BY <1>2, <1>4
<1> HIDE DEF c, x
<1>7. PICK v : v = logOf[d]
  OBVIOUS
<1>8. /\ v \in Vectors(Mid) /\ logOf'[d] = Push(v, y)
      /\ \A e \in Cid \ {d} : logOf'[e] = logOf[e]
      /\ \A e \in Cid : logOf[e] \in Vectors(Mid)
  BY <1>5, <1>6, <1>7 DEF ChannelAddMessage, TypeInv, TablesTypeOK
<1>9. BuffersKept
  <2> SUFFICES ASSUME NEW e \in Cid PROVE Len(logOf'[e].cells) >= Len(logOf[e].cells)
    BY DEF BuffersKept
  <2>1. CASE e = d
    BY <1>5, <1>7, <1>8, <2>1, BufferKept
  <2>2. CASE e # d
    <3>1. logOf'[e] = logOf[e] /\ Len(logOf[e].cells) \in Nat
      BY <1>8, <2>2 DEF Vectors
    <3> QED BY <3>1
  <2> QED BY <2>1, <2>2
<1>10. disturbed \subseteq disturbed' /\ \A s \in Conn \ {t} : Keeps(s) /\ Still(s)
  BY <1>9, OthersKeep DEF Continue
<1>11. frame'[t].at = "send notify"
  BY <1>3, <1>6 DEF Pushed
<1>12. SettledInv'
  BY <1>1, SettledNext DEF StoreInv, Continue
<1>13. Gone'
  <2>1. \A s \in Conn : frame'[s].at \in Removing =>
            frame[s].at \in Removing /\ frame'[s].mid = frame[s].mid
    BY <1>10, <1>11 DEF Keeps, Removing
  <2> QED BY <1>1, <2>1 DEF StoreInv, Gone
<1>14. ASSUME NEW s \in Conn \ {t} PROVE Found(s)'
  <2> SUFFICES ASSUME frame'[s].at = "delete text", s \notin disturbed' PROVE Found(s)'
    BY <1>1, <1>10, Zenon DEF StoreInv, Found, Keeps
  <2>1. /\ frame[s].at = "delete text" /\ frame'[s].mid = frame[s].mid
        /\ frame'[s].uid = frame[s].uid /\ frame'[s].cid = frame[s].cid
        /\ frame'[s].pos = frame[s].pos
    BY <1>10 DEF Keeps
  <2>2. PICK e, i, n : e = frame[s].cid /\ i = frame[s].pos["messages"] /\ n = frame[s].end["messages"]
    OBVIOUS
  <2>3. /\ channelOf[frame[s].mid] # Nil /\ senderOf[frame[s].mid] = frame[s].uid
        /\ logOf[e].cells[i] = frame[s].mid
    BY <1>10, <2>1, <2>2 DEF StoreInv, Found
  <2>4. e \in Cid /\ i \in Nat /\ n \in Nat
    BY <2>1, <2>2, ZenonT(60) DEF TypeInv, FramesOK, Whole, HasCid, Frames, Level
  <2>5. logOf'[e].cells[i] = logOf[e].cells[i]
    <3>1. CASE e = d
      <4>1. s \in Walking("messages", d)
        BY <2>1, <2>2, <3>1 DEF Walking
      <4>2. ~(n > v.len)
        BY <1>6, <1>7, <2>2, <4>1 DEF Pushed
      <4>3. i >= 1 /\ i <= n
        BY <2>1, <2>2 DEF StoreInv, SweepsIn, Sweeps
      <4>4. i \in 1..v.len
        <5>1. PICK k \in Nat : k = v.len
          BY <1>8 DEF Vectors
        <5>2. ~(n > k)
          BY <4>2, <5>1
        <5>3. i \in 1..k
          BY ONLY <2>4, <4>3, <5>2, <5>1
        <5> QED BY <5>1, <5>3
      <4>5. Push(v, y).cells[i] = v.cells[i]
        BY <1>5, <1>8, <4>4, PushKeeps, ZenonT(60)
      <4> QED BY <1>7, <1>8, <3>1, <4>5
    <3>2. CASE e # d
      BY <1>8, <2>4, <3>2
    <3> QED BY <3>1, <3>2
  <2> QED BY <1>1, <2>1, <2>2, <2>3, <2>5, Zenon DEF Found
<1>15. Found(t)' /\ SweepsIn(t)'
  BY <1>11 DEF Found, SweepsIn, Sweeps
<1>16. StoredMessagesListed'
  <2> SUFFICES ASSUME disturbed' = {}, NEW m \in messages PROVE Listed(m)'
    BY <1>1 DEF StoredMessagesListed
  <2>1. Listed(m) /\ m \in Mid
    BY <1>10 DEF StoreInv, StoredMessagesListed, TypeInv, TablesTypeOK
  <2>2. CASE m \in Live(logOf[channelOf[m]])
    <3>1. channelOf[m] \in Cid
      BY <2>1 DEF TypeInv, TablesTypeOK, Placed
    <3>2. Live(Push(v, y)) = Live(v) \cup {y}
      BY <1>5, <1>8, PushLive
    <3> QED BY <1>1, <1>7, <1>8, <2>2, <3>1, <3>2 DEF Listed
  <2>3. CASE senderOf[m] \notin users
    BY <1>1, <2>3 DEF Listed
  <2>4. CASE m = y
    <3>1. channelOf[m] = d
      BY <1>1, <1>5, <2>4 DEF ListInv, SecretInv, Carried
    <3>2. m \in Live(Push(v, y))
      BY <1>5, <1>8, <2>4, PushLive
    <3> QED BY <1>1, <1>8, <3>1, <3>2 DEF Listed
  <2>5. ASSUME NEW s \in Conn, frame[s].at = "append" /\ frame[s].mid = m, m # y PROVE Listed(m)'
    <3>1. s # t
      BY <1>5, <2>5
    <3> QED BY <1>10, <2>5, <3>1 DEF Listed, Keeps
  <2>6. ASSUME NEW s \in Deleting, frame[s].uid = senderOf[m] PROVE Listed(m)'
    <3>1. s \in Conn \ {t}
      BY <1>1 DEF Deleting
    <3>2. s \in Deleting' /\ frame'[s].uid = senderOf'[m]
      BY <1>1, <1>10, <2>6, <3>1 DEF Keeps
    <3> QED BY <3>2 DEF Listed
  <2> QED BY <2>1, <2>2, <2>3, <2>4, <2>5, <2>6 DEF Listed
<1>17. \A s \in Conn : SweepsIn(s)'
  BY <1>10, <1>15 DEF Keeps
<1> QED BY <1>12, <1>13, <1>14, <1>15, <1>16, <1>17 DEF StoreInv

\* An erasure by another thread disturbs a loop, or changes nothing.
LEMMA ErasedFound ==
    ASSUME TypeInv, StoreInv, NEW t \in Conn, NEW c \in Cid, NEW x,
           ChannelRemoveMessage(c, x), Erased(t, "messages", c, logOf[c], x),
           UNCHANGED <<senderOf, channelOf>>, NEW s \in Conn \ {t}, Keeps(s),
           disturbed \subseteq disturbed'
    PROVE  Found(s)'
<1> SUFFICES ASSUME frame'[s].at = "delete text", s \notin disturbed' PROVE Found(s)'
  BY Zenon DEF StoreInv, Found, Keeps
<1>1. /\ frame[s].at = "delete text" /\ frame'[s].mid = frame[s].mid
      /\ frame'[s].uid = frame[s].uid /\ frame'[s].cid = frame[s].cid
      /\ frame'[s].pos = frame[s].pos
  BY DEF Keeps
<1>2. PICK e, i : e = frame[s].cid /\ i = frame[s].pos["messages"]
  OBVIOUS
<1>3. /\ channelOf[frame[s].mid] # Nil /\ senderOf[frame[s].mid] = frame[s].uid
      /\ logOf[e].cells[i] = frame[s].mid
  BY <1>1, <1>2 DEF StoreInv, Found
<1>4. e \in Cid
  BY <1>1, <1>2 DEF TypeInv, FramesOK, Whole, HasCid
<1>5. logOf[c] \in Vectors(Mid) /\ logOf'[c] = Erase(logOf[c], x)
      /\ \A d \in Cid \ {c} : logOf'[d] = logOf[d]
  BY DEF ChannelRemoveMessage, TypeInv, TablesTypeOK
<1>6. logOf'[e].cells[i] = logOf[e].cells[i]
  <2>1. CASE e # c
    BY <1>4, <1>5, <2>1
  <2>2. CASE e = c
    <3>1. s \in Walking("messages", c)
      BY <1>1, <1>2, <2>2 DEF Walking
    <3>2. x \notin Live(logOf[c])
      BY <3>1 DEF Erased
    <3>3. Erase(logOf[c], x).cells = logOf[c].cells
      BY <1>5, <3>2, EraseSame
    <3> QED BY <1>5, <2>2, <3>3
  <2> QED BY <2>1, <2>2
<1> QED BY <1>1, <1>2, <1>3, <1>6, Zenon DEF Found

\* What is taken off the list is in the table no more.
LEMMA UnlistStores ==
    ASSUME TypeInv, TypeInv', Made, Placed, StoreInv, NEW t \in Conn, Unlist(t)
    PROVE  StoreInv'
<1>1. /\ frame \in [Conn -> Frames] /\ frame[t].at = "unlist" /\ frame[t].at \in Removing
      /\ UNCHANGED <<messages, senderOf, channelOf, users, auth>>
  BY DEF TypeInv, FramesOK, Unlist, At, texts, accounts, Removing
<1>2. PICK c, x : c = frame[t].cid /\ x = frame[t].mid
  OBVIOUS
<1>3. c \in Cid /\ x \in Mid /\ x \notin messages
  BY <1>1, <1>2 DEF TypeInv, FramesOK, Whole, HasCid, HasMid, StoreInv, Gone
<1>4. ChannelRemoveMessage(c, x) /\ Erased(t, "messages", c, logOf[c], x)
  BY <1>2 DEF Unlist
<1>5. frame'[t].at \in {"idle", "sweep"}
  BY <1>1 DEF Unlist, Done, Return, Idle
<1>6. BuffersKept
  BY <1>3, <1>4, ErasedLists
<1>7. disturbed \subseteq disturbed' /\ \A s \in Conn \ {t} : Keeps(s)
  BY <1>6, OthersKeep DEF Continue
<1>8. Keeps(t)
  BY <1>1, <1>5 DEF Keeps, SweepsIn, Sweeps, Removing, Deleting
<1>9. SettledInv'
  BY <1>1, SettledNext DEF StoreInv, Continue
<1>10. Gone'
  BY <1>1, <1>7, <1>8 DEF StoreInv, Gone, Keeps
<1>11. ASSUME NEW s \in Conn PROVE Found(s)'
  <2>1. CASE s = t
    BY <1>5, <2>1 DEF Found
  <2>2. CASE s # t
    BY <1>1, <1>3, <1>4, <1>7, <2>2, ErasedFound
  <2> QED BY <2>1, <2>2
<1>12. StoredMessagesListed'
  <2> SUFFICES ASSUME disturbed' = {}, NEW m \in messages PROVE Listed(m)'
    BY <1>1 DEF StoredMessagesListed
  <2>1. Listed(m) /\ m \in Mid /\ channelOf[m] \in Cid /\ m # x
    BY <1>3, <1>7 DEF StoreInv, StoredMessagesListed, TypeInv, TablesTypeOK, Placed
  <2>2. m \in Live(logOf[channelOf[m]]) => m \in Live(logOf'[channelOf[m]])
    <3>1. logOf[c] \in Vectors(Mid) /\ logOf'[c] = Erase(logOf[c], x)
          /\ \A d \in Cid \ {c} : logOf'[d] = logOf[d]
      BY <1>3, <1>4 DEF ChannelRemoveMessage, TypeInv, TablesTypeOK
    <3>2. Live(Erase(logOf[c], x)) = Live(logOf[c]) \ {x}
      BY <3>1, EraseLive
    <3> QED BY <2>1, <3>1, <3>2
  <2> QED BY <1>1, <1>7, <1>8, <2>1, <2>2, ListedKept
<1> QED BY <1>7, <1>8, <1>9, <1>10, <1>11, <1>12 DEF StoreInv, Keeps

\* A loop over the messages finds one of the account's, or passes over another's.
LEMMA DeleteFindMessageStores ==
    ASSUME TypeInv, TypeInv', Made, Placed, LooseInv, StoreInv, NEW t \in Conn,
           DeleteFindMessage(t)
    PROVE  StoreInv'
<1>1. /\ frame \in [Conn -> Frames] /\ frame[t] \in Frames /\ frame[t].at = "delete messages"
      /\ UNCHANGED <<logOf, texts, messages, senderOf, channelOf, users, auth, disturbed>>
  BY DEF TypeInv, FramesOK, DeleteFindMessage, At, tables, rooms, texts, accounts
<1>2. PICK c, p, e : c = frame[t].cid /\ p = frame[t].pos["messages"] /\ e = frame[t].end["messages"]
  OBVIOUS
<1>3. p \in Nat /\ e \in Nat /\ p <= e /\ p >= 1
  BY <1>1, <1>2 DEF DeleteFindMessage, More, TypeInv, FramesOK, Frames, Level, StoreInv,
                    SweepsIn, Sweeps
<1>4. SweepsIn(t)
  BY DEF StoreInv
<1>5. PICK m \in Cell(t, "messages", logOf, frame[t].cid) :
          \/ /\ m \in messages /\ senderOf[m] = frame[t].uid
             /\ frame' = [frame EXCEPT ![t].at = "delete text", ![t].mid = m]
          \/ frame' = [frame EXCEPT ![t] = Advance(frame[t], "messages")]
  BY <1>1 DEF DeleteFindMessage
<1>6. CASE frame' = [frame EXCEPT ![t] = Advance(frame[t], "messages")]
  <2> DEFINE h == Advance(frame[t], "messages")
  <2>1. "messages" \in Level
    BY DEF Level
  <2>2. /\ h.at = frame[t].at /\ h.uid = frame[t].uid /\ h.cid = frame[t].cid
        /\ h.end = frame[t].end /\ h.pos["messages"] = p + 1
    BY <1>1, <1>2, <2>1, AdvanceFacts
  <2>3. frame'[t] = h
    BY <1>1, <1>6
  <2> HIDE DEF h
  <2>4. p + 1 >= 1
    BY <1>3
  <2>5. frame'[t].pos["messages"] >= 1
    BY <2>2, <2>3, <2>4
  <2>6. SweepsIn(t)'
    BY <1>1, <1>4, <2>2, <2>3, <2>5, Zenon DEF SweepsIn, Sweeps
  <2>7. Keeps(t)
    BY <1>1, <2>2, <2>3, <2>6 DEF Keeps, Removing, Deleting
  <2> QED BY <1>1, <2>7, FrameStores DEF Continue
<1>7. CASE /\ m \in messages /\ senderOf[m] = frame[t].uid
           /\ frame' = [frame EXCEPT ![t].at = "delete text", ![t].mid = m]
  <2>1. /\ frame'[t].at = "delete text" /\ frame'[t].mid = m /\ frame'[t].uid = frame[t].uid
        /\ frame'[t].cid = frame[t].cid /\ frame'[t].pos = frame[t].pos
        /\ frame'[t].end = frame[t].end
    BY <1>1, <1>7 DEF Frames
  <2>2. BuffersKept
    BY <1>1, BuffersSame
  <2>3. \A s \in Conn \ {t} : Keeps(s)
    BY <2>2, OthersKeep DEF Continue
  <2>4. SweepsIn(t)'
    BY <1>1, <1>2, <1>3, <1>4, <2>1, Zenon DEF SweepsIn, Sweeps
  <2>5. Found(t)'
    <3>1. t \in disturbed \/ m = logOf[frame[t].cid].cells[frame[t].pos["messages"]]
      BY <1>5 DEF LooseInv, Cell
    <3>2. channelOf[m] # Nil
      BY <1>7 DEF Placed
    <3> QED BY <1>1, <1>7, <2>1, <3>1, <3>2, Zenon DEF Found
  <2>6. SettledInv'
    BY <1>1, SettledNext DEF StoreInv, Continue
  <2>7. Gone'
    <3>1. frame'[t].at \notin Removing
      BY <2>1 DEF Removing
    <3> QED BY <1>1, <2>3, <3>1 DEF StoreInv, Gone, Keeps
  <2>8. ASSUME NEW s \in Conn \ {t} PROVE Found(s)'
    <3>1. Found(s) /\ Keeps(s)
      BY <2>3 DEF StoreInv
    <3> QED BY <1>1, <3>1, Zenon DEF Found, Keeps
  <2>9. StoredMessagesListed'
    <3> SUFFICES ASSUME disturbed = {}, NEW x \in messages PROVE Listed(x)'
      BY <1>1 DEF StoredMessagesListed
    <3>1. Listed(x)
      BY DEF StoreInv, StoredMessagesListed
    <3>2. \A s \in Conn : frame[s].at = "append" => frame'[s].at = "append" /\ frame'[s].mid = frame[s].mid
      BY <1>1, <2>3 DEF Keeps
    <3>3. \A s \in Deleting : s \in Deleting' /\ frame'[s].uid = frame[s].uid
      BY <1>1, <2>1, <2>3 DEF Keeps, Deleting
    <3> QED BY <1>1, <3>1, <3>2, <3>3 DEF Listed
  <2>10. \A s \in Conn : SweepsIn(s)'
    BY <2>3, <2>4 DEF Keeps
  <2> QED BY <2>5, <2>6, <2>7, <2>8, <2>9, <2>10 DEF StoreInv
<1> QED BY <1>5, <1>6, <1>7

\* An undisturbed deletion erases the message it found; its account is on its way out.
LEMMA DeleteListedMessageStores ==
    ASSUME TypeInv, TypeInv', Made, Placed, LooseInv, StoreInv, NEW t \in Conn,
           DeleteListedMessage(t)
    PROVE  StoreInv'
<1>1. /\ frame \in [Conn -> Frames] /\ frame[t] \in Frames /\ frame[t].at = "delete text"
      /\ UNCHANGED <<messages, senderOf, channelOf, users, auth>>
  BY DEF TypeInv, FramesOK, DeleteListedMessage, At, texts, accounts
<1>2. PICK c, p : c = frame[t].cid /\ p = frame[t].pos["messages"]
  OBVIOUS
<1>3. c \in Cid /\ p \in Nat /\ p >= 1
  BY <1>1, <1>2
  DEF TypeInv, FramesOK, Whole, HasCid, Frames, Level, StoreInv, SweepsIn, Sweeps
<1>4. PICK x \in Cell(t, "messages", logOf, c) :
          ChannelRemoveMessage(c, x) /\ Erased(t, "messages", c, logOf[c], x)
  BY <1>2 DEF DeleteListedMessage
<1>5. /\ frame'[t].at = "delete notify" /\ frame'[t].uid = frame[t].uid /\ frame'[t].cid = c
      /\ frame'[t].pos["messages"] = p + 1 /\ frame'[t].end["messages"] = frame[t].end["messages"]
  <2> DEFINE g == [frame[t] EXCEPT !.at = "delete notify"]
             h == Advance(g, "messages")
             f == Loop(h, "members", membersOf[c])
  <2>1. "messages" \in Level /\ "members" \in Level /\ "messages" # "members"
        /\ membersOf[c] \in Vectors(Uid) /\ "delete notify" \in Places
    BY <1>3 DEF Level, TypeInv, TablesTypeOK, Places
  <2>2. /\ g \in Frames /\ g.at = "delete notify" /\ g.uid = frame[t].uid
        /\ g.cid = c /\ g.pos["messages"] = p /\ g.end = frame[t].end
    BY <1>1, <1>2, <2>1 DEF Frames
  <2> HIDE DEF g
  <2>3. /\ h \in Frames /\ h.at = "delete notify" /\ h.uid = frame[t].uid
        /\ h.cid = c /\ h.pos["messages"] = p + 1 /\ h.end = frame[t].end
    BY <2>1, <2>2, AdvanceFacts, AdvanceType
  <2> HIDE DEF h
  <2>4. /\ f.at = h.at /\ f.uid = h.uid /\ f.cid = h.cid
        /\ f.pos["messages"] = h.pos["messages"] /\ f.end["messages"] = h.end["messages"]
    BY <2>1, <2>3 DEF Loop, Frames
  <2> HIDE DEF f
  <2>5. frame'[t] = f
    BY <1>1, <1>2 DEF DeleteListedMessage, f, h, g
  <2> QED BY <2>3, <2>4, <2>5
<1>6. BuffersKept
  BY <1>3, <1>4, ErasedLists
<1>7. disturbed \subseteq disturbed' /\ \A s \in Conn \ {t} : Keeps(s)
  BY <1>6, OthersKeep DEF Continue
<1>8. SweepsIn(t)'
  <2>1. PICK e \in Nat : e = frame[t].end["messages"]
    BY <1>1 DEF Frames, Level
  <2>2. e <= Len(logOf[c].cells) /\ Len(logOf'[c].cells) >= Len(logOf[c].cells)
    BY <1>1, <1>2, <1>3, <1>6, <2>1 DEF StoreInv, SweepsIn, Sweeps, BuffersKept
  <2>3. Len(logOf[c].cells) \in Nat /\ Len(logOf'[c].cells) \in Nat
    BY <1>3 DEF TypeInv, TablesTypeOK, Vectors
  <2>4. e <= Len(logOf'[c].cells) /\ p + 1 >= 1
    BY <1>3, <2>2, <2>3
  <2> QED BY <1>5, <2>1, <2>4, Zenon DEF SweepsIn
<1>9. Keeps(t)
  BY <1>1, <1>5, <1>8 DEF Keeps, Removing, Deleting
<1>10. SettledInv'
  BY <1>1, SettledNext DEF StoreInv, Continue
<1>11. Gone'
  BY <1>1, <1>7, <1>9 DEF StoreInv, Gone, Keeps
<1>12. ASSUME NEW s \in Conn PROVE Found(s)'
  <2>1. CASE s = t
    BY <1>5, <2>1 DEF Found
  <2>2. CASE s # t
    BY <1>1, <1>3, <1>4, <1>7, <2>2, ErasedFound
  <2> QED BY <2>1, <2>2
<1>13. StoredMessagesListed'
  <2> SUFFICES ASSUME disturbed' = {}, NEW m \in messages PROVE Listed(m)'
    BY <1>1 DEF StoredMessagesListed
  <2>1. Listed(m) /\ m \in Mid /\ channelOf[m] \in Cid
    BY <1>7 DEF StoreInv, StoredMessagesListed, TypeInv, TablesTypeOK, Placed
  <2>2. CASE senderOf[m] = frame[t].uid
    <3>1. t \in Deleting' /\ frame'[t].uid = senderOf'[m]
      BY <1>1, <1>5, <2>2 DEF Deleting
    <3> QED BY <3>1 DEF Listed
  <2>3. CASE senderOf[m] # frame[t].uid
    <3>1. m # x
      <4>1. t \notin disturbed
        BY <1>7
      <4>2. x = logOf[c].cells[p] /\ logOf[c].cells[p] = frame[t].mid
            /\ senderOf[frame[t].mid] = frame[t].uid
        BY <1>1, <1>2, <1>4, <4>1 DEF LooseInv, Cell, StoreInv, Found
      <4> QED BY <2>3, <4>2
    <3>2. logOf[c] \in Vectors(Mid) /\ logOf'[c] = Erase(logOf[c], x)
          /\ \A d \in Cid \ {c} : logOf'[d] = logOf[d]
      BY <1>3, <1>4 DEF ChannelRemoveMessage, TypeInv, TablesTypeOK
    <3>3. Live(Erase(logOf[c], x)) = Live(logOf[c]) \ {x}
      BY <3>2, EraseLive
    <3>4. m \in Live(logOf[channelOf[m]]) => m \in Live(logOf'[channelOf[m]])
      BY <2>1, <3>1, <3>2, <3>3
    <3> QED BY <1>1, <1>7, <1>9, <2>1, <3>4, ListedKept
  <2> QED BY <2>2, <2>3
<1> QED BY <1>7, <1>9, <1>10, <1>11, <1>12, <1>13 DEF StoreInv, Keeps

\* The last step of Database::remove_user: the account excuses its messages no longer, but it
\* is gone.
LEMMA DeleteAccountFinishedStores ==
    ASSUME TypeInv, TypeInv', Made, StoreInv, NEW t \in Conn, DeleteAccountFinished(t)
    PROVE  StoreInv'
<1>1. /\ frame \in [Conn -> Frames] /\ frame[t].at = "delete channels"
      /\ UNCHANGED <<logOf, messages, senderOf, channelOf, auth>>
      /\ users' = users \ {frame[t].uid}
  BY DEF TypeInv, FramesOK, DeleteAccountFinished, At, rooms, texts, RemoveUser
<1>2. frame'[t].at \in {"idle", "sweep"}
  BY <1>1 DEF DeleteAccountFinished, Done, Return, Idle
<1>3. disturbed \subseteq disturbed' /\ \A s \in Conn \ {t} : Keeps(s)
  BY <1>1, BuffersSame, OthersKeep DEF Continue
<1>4. SettledInv'
  BY <1>1, SettledNext DEF StoreInv, Continue
<1>5. \A s \in Conn : frame'[s].at \in Removing =>
          frame[s].at \in Removing /\ frame'[s].mid = frame[s].mid
  BY <1>2, <1>3 DEF Keeps, Removing
<1>6. Gone'
  BY <1>1, <1>5 DEF StoreInv, Gone
<1>7. ASSUME NEW s \in Conn PROVE Found(s)' /\ SweepsIn(s)'
  <2>1. CASE s = t
    BY <1>2, <2>1 DEF Found, SweepsIn, Sweeps
  <2>2. CASE s # t
    <3>1. Keeps(s)
      BY <1>3, <2>2
    <3> QED BY <1>1, <1>3, <3>1, Zenon DEF StoreInv, Found, Keeps
  <2> QED BY <2>1, <2>2
<1>8. StoredMessagesListed'
  <2> SUFFICES ASSUME disturbed' = {}, NEW m \in messages PROVE Listed(m)'
    BY <1>1 DEF StoredMessagesListed
  <2>1. Listed(m)
    BY <1>3 DEF StoreInv, StoredMessagesListed
  <2>2. CASE m \in Live(logOf[channelOf[m]]) \/ senderOf[m] \notin users'
    BY <1>1, <2>2 DEF Listed
  <2>3. CASE senderOf[m] \notin users
    BY <1>1, <2>3 DEF Listed
  <2>4. ASSUME NEW s \in Conn, frame[s].at = "append" /\ frame[s].mid = m PROVE Listed(m)'
    <3>1. s # t
      BY <1>1, <2>4
    <3> QED BY <1>3, <2>4, <3>1 DEF Listed, Keeps
  <2>5. ASSUME NEW s \in Deleting, frame[s].uid = senderOf[m] PROVE Listed(m)'
    <3>1. CASE s = t
      BY <1>1, <2>2, <2>5, <3>1
    <3>2. CASE s # t
      <4>1. s \in Deleting' /\ frame'[s].uid = senderOf'[m]
        BY <1>1, <1>3, <2>5, <3>2 DEF Keeps, Deleting
      <4> QED BY <4>1 DEF Listed
    <3> QED BY <3>1, <3>2
  <2> QED BY <2>1, <2>2, <2>3, <2>4, <2>5 DEF Listed
<1> QED BY <1>4, <1>6, <1>7, <1>8 DEF StoreInv

\* Every step.
LEMMA StoreNext ==
    ASSUME TypeInv, TypeInv', Made, Placed, ListInv, LooseInv, StoreInv, [Next]_vars
    PROVE  StoreInv'
<1>1. ASSUME NEW t \in Conn, Ask(t) PROVE StoreInv'
  <2>1. Modest(t) \/ \E c \in Cid : SendMessage(t, c)
    BY <1>1, ModestSteps DEF Ask
  <2> QED BY <1>1, <2>1, ModestStores, SendMessageStores
<1>2. ASSUME NEW t \in Conn, Continue(t) PROVE StoreInv'
  <2>1. \/ Modest(t)
        \/ RegisterUser(t) \/ DeleteUser(t) \/ DeleteFromChannel(t) \/ DeleteFindMessage(t)
        \/ DeleteListedMessage(t) \/ DeleteNotify(t) \/ DeleteChannelFinished(t)
        \/ DeleteAccountFinished(t) \/ AppendMessage(t) \/ RemoveText(t) \/ RemoveNotify(t)
        \/ Unlist(t)
    BY <1>2, ModestSteps DEF Continue
  <2> QED BY <1>2, <2>1, ModestStores, RegisterUserStores, DeleteUserStores,
             DeleteFromChannelStores, DeleteFindMessageStores, DeleteListedMessageStores,
             SweepStores, DeleteAccountFinishedStores, AppendMessageStores, RemoveTextStores,
             RemoveNotifyStores, UnlistStores
<1>3. CASE UNCHANGED vars
  <2>1. UNCHANGED <<nameOf, users, logOf, messages, senderOf, channelOf, auth, frame, disturbed>>
    BY <1>3 DEF vars, tables, accounts, rooms, texts, threads
  <2>2. SettledInv'
    BY <2>1 DEF StoreInv, SettledInv, Settled, Registers
  <2>3. Gone' /\ \A s \in Conn : SweepsIn(s)' /\ Found(s)'
    BY <2>1 DEF StoreInv, Gone, SweepsIn, Found
  <2>4. StoredMessagesListed'
    BY <2>1 DEF StoreInv, StoredMessagesListed, Listed, Deleting
  <2> QED BY <2>2, <2>3, <2>4 DEF StoreInv
<1> QED BY <1>1, <1>2, <1>3 DEF Next, Rest

\* The server starts without messages.
LEMMA StoreInit == Init => StoreInv
<1> SUFFICES ASSUME Init PROVE StoreInv
  OBVIOUS
<1>1. /\ \A t \in Conn : frame[t].at = "idle" /\ auth[t] = Nil
      /\ messages = {} /\ \A m \in Mid : senderOf[m] = Nil
  BY DEF Init, TablesInit, Idle
<1> QED BY <1>1
        DEF StoreInv, SettledInv, Gone, Removing, SweepsIn, Sweeps, Found, StoredMessagesListed

\* Whatever else goes on, deletions of accounts included: as long as no loop had its vector
\* changed under it, a stored message of a living account is listed in its channel, but for
\* the message between the two additions of Database::add_message and those of an account that
\* Database::remove_user is taking apart. The loop of a deletion erases what its cell holds by
\* then: that this is the message it found and announces is where no change is needed.
THEOREM StoredListed == Spec => []StoredMessagesListed
<1>1. /\ TypeInv /\ TypeInv' /\ Placed /\ DeleterInv /\ ListInv /\ LooseInv /\ StoreInv
      /\ [Next]_vars
      => DeleterInv' /\ ListInv' /\ LooseInv' /\ StoreInv'
  BY DeleterNext, ListNext, LooseNext, StoreNext DEF TypeInv, DeleterInv
<1>2. Init => LooseInv
  BY DEF Init, Idle, LooseInv
<1>3. StoreInv => StoredMessagesListed
  BY DEF StoreInv
<1> QED BY <1>1, <1>2, <1>3, DeleterInit, ListInit, StoreInit, Typed, PTL DEF Spec

-----------------------------------------------------------------------------
(* A deleted account is in no channel                                       *)

\* No step but that of Database::add_channel moves the list of channels that another thread's
\* handler is at.
Firm(s) == "channels" \in frame'[s].loose => "channels" \in frame[s].loose

\* All other steps leave that list where it was.
LEMMA OthersFirm ==
    ASSUME TypeInv, NEW t \in Conn, Ask(t) \/ Continue(t), ~CreateMember(t)
    PROVE  \A s \in Conn \ {t} : Firm(s)
<1> DEFINE Spares == \A s \in Conn \ {t} : frame'[s] = frame[s]
<1>a. frame \in [Conn -> Frames]
  BY DEF TypeInv, FramesOK
<1>b. CASE Spares
  BY <1>b DEF Firm
<1>1. ASSUME NEW n \in Name, NEW p \in Password, Register(t, n, p) PROVE Spares
  BY <1>a, <1>1 DEF Register
<1>2. ASSUME NEW n \in Name, NEW p \in Password, Login(t, n, p) PROVE Spares
  BY <1>a, <1>2 DEF Login
<1>3. ASSUME NEW n \in Name, NEW p \in Password, DeleteAccount(t, n, p) PROVE Spares
  BY <1>a, <1>3 DEF DeleteAccount
<1>4. ASSUME NEW regex \in (SUBSET Name) \cup {Nil}, ListAccounts(t, regex) PROVE Spares
  BY <1>a, <1>4 DEF ListAccounts
<1>5. ASSUME NEW other \in Announced, CreateChannel(t, other) PROVE Spares
  BY <1>a, <1>5 DEF CreateChannel
<1>6. ASSUME NEW c \in Cid, SendMessage(t, c) PROVE Spares
  BY <1>a, <1>6 DEF SendMessage
<1>7. ASSUME NEW m \in Mid, DeleteMessage(t, m) PROVE Spares
  BY <1>a, <1>7 DEF DeleteMessage
<1>8. ASSUME Accept(t) PROVE Spares
  BY <1>a, <1>8 DEF Accept
<1>9. ASSUME Disconnect(t) PROVE Spares
  BY <1>a, <1>9 DEF Disconnect, Goto
<1>10. ASSUME RegisterPassword(t) PROVE Spares
  BY <1>a, <1>10 DEF RegisterPassword, Goto
<1>11. ASSUME RegisterUser(t) PROVE Spares
  BY <1>a, <1>11 DEF RegisterUser, Done, Return
<1>12. ASSUME LoginUser(t) PROVE Spares
  BY <1>a, <1>12 DEF LoginUser
<1>13. ASSUME LoginChannel(t) PROVE Spares
  BY <1>a, <1>13 DEF LoginChannel
<1>14. ASSUME LoginMessage(t) PROVE Spares
  BY <1>a, <1>14 DEF LoginMessage
<1>15. ASSUME LoginChannelReplayed(t) PROVE Spares
  BY <1>a, <1>15 DEF LoginChannelReplayed, Goto
<1>16. ASSUME LoginFinished(t) PROVE Spares
  BY <1>a, <1>16 DEF LoginFinished, Done, Return
<1>17. ASSUME ListAccount(t) PROVE Spares
  BY <1>a, <1>17 DEF ListAccount
<1>18. ASSUME ListFinished(t) PROVE Spares
  BY <1>a, <1>18 DEF ListFinished, Done, Return
<1>19. ASSUME DeleteUser(t) PROVE Spares
  BY <1>a, <1>19 DEF DeleteUser, Done, Return
<1>20. ASSUME DeleteFromChannel(t) PROVE Spares
  BY <1>a, <1>20 DEF DeleteFromChannel
<1>21. ASSUME DeleteFindMessage(t) PROVE Spares
  BY <1>a, <1>21 DEF DeleteFindMessage
<1>22. ASSUME DeleteListedMessage(t) PROVE Spares
  BY <1>a, <1>22 DEF DeleteListedMessage
<1>23. ASSUME DeleteNotify(t) PROVE Spares
  BY <1>a, <1>23 DEF DeleteNotify, NotifyMember, Goto
<1>24. ASSUME DeleteChannelFinished(t) PROVE Spares
  BY <1>a, <1>24 DEF DeleteChannelFinished, Goto
<1>25. ASSUME DeleteAccountFinished(t) PROVE Spares
  BY <1>a, <1>25 DEF DeleteAccountFinished, Done, Return
<1>26. ASSUME CreateAnnounce(t) PROVE Spares
  BY <1>a, <1>26 DEF CreateAnnounce
<1>27. ASSUME CreateFinished(t) PROVE Spares
  BY <1>a, <1>27 DEF CreateFinished, Done, Return
<1>28. ASSUME SendNotify(t) PROVE Spares
  BY <1>a, <1>28 DEF SendNotify, NotifyMember, Done, Return
<1>29. ASSUME RemoveText(t) PROVE Spares
  BY <1>a, <1>29 DEF RemoveText
<1>30. ASSUME RemoveNotify(t) PROVE Spares
  BY <1>a, <1>30 DEF RemoveNotify, NotifyMember, Goto
<1>31. ASSUME Unlist(t) PROVE Spares
  BY <1>a, <1>31 DEF Unlist, Done, Return
<1>32. ASSUME DisconnectFinished(t) PROVE Spares
  BY <1>a, <1>32 DEF DisconnectFinished, Return
<1>33. ASSUME QuitThread(t) PROVE Spares
  BY <1>a, <1>33 DEF QuitThread, Return
<1>34. ASSUME Dispatch(t) PROVE Spares
  BY <1>a, <1>34 DEF Dispatch, Return
<1>35. CASE AppendMessage(t)
  <2> DEFINE c == frame[t].cid
             f == Loop([frame[t] EXCEPT !.at = "send notify"], "members", membersOf[c])
  <2>1. Pushed(t, f, "messages", c, logOf[c])
    BY <1>35 DEF AppendMessage
  <2> HIDE DEF f, c
  <2>2. ASSUME NEW s \in Conn \ {t} PROVE Firm(s)
    <3>1. frame'[s] \in {frame[s], [frame[s] EXCEPT !.loose = @ \cup {"messages"}]}
      BY <2>1 DEF Pushed
    <3> QED BY <1>a, <3>1 DEF Firm, Frames
  <2> QED BY <2>2
<1> QED
  BY <1>b, <1>1, <1>2, <1>3, <1>4, <1>5, <1>6, <1>7, <1>8, <1>9, <1>10, <1>11, <1>12,
     <1>13, <1>14, <1>15, <1>16, <1>17, <1>18, <1>19, <1>20, <1>21, <1>22, <1>23, <1>24,
     <1>25, <1>26, <1>27, <1>28, <1>29, <1>30, <1>31, <1>32, <1>33, <1>34, <1>35 DEF Ask,
     Continue

\* No member of a channel that is still being created has been deleted, or is being.
NoneLeaves ==
    \A t \in Conn : Creating(t) => \A u \in Live(membersOf[frame[t].cid]) :
        u \in users /\ \A s \in Deleting : frame[s].uid # u

\* The channels the user is in are among those the deletion in t has still to come to.
Comes(t) ==
    /\ "channels" \notin frame[t].loose
    /\ \A c \in channels : frame[t].uid \in Live(membersOf[c]) =>
          \E i \in frame[t].pos["channels"]..frame[t].end["channels"] :
              chansOf[frame[t].uid].cells[i] = c

Leaving == \A t \in Deleting : Comes(t)

LeaveInv == HallInv /\ Leaving

\* The handler of s goes on with the deletion it had in hand, if it is at one.
GoesOn(s) ==
    s \in Deleting' =>
        /\ s \in Deleting /\ frame'[s].uid = frame[s].uid /\ Firm(s)
        /\ frame'[s].pos["channels"] = frame[s].pos["channels"]
        /\ frame'[s].end["channels"] = frame[s].end["channels"]

\* The other threads do.
LEMMA OthersGoOn ==
    ASSUME NEW t \in Conn, Others(t), NEW s \in Conn \ {t}, Firm(s)
    PROVE  GoesOn(s)
BY DEF Others, Still, GoesOn, Deleting

\* Where nobody joins a channel the deletion has no more to come to.
LEMMA ComesKept ==
    ASSUME Leaving, NEW s \in Deleting', GoesOn(s), UNCHANGED <<chansOf, channels>>,
           \A c \in channels : Live(membersOf'[c]) \subseteq Live(membersOf[c])
    PROVE  Comes(s)'
<1>1. /\ Comes(s) /\ frame'[s].uid = frame[s].uid /\ Firm(s)
      /\ frame'[s].pos["channels"] = frame[s].pos["channels"]
      /\ frame'[s].end["channels"] = frame[s].end["channels"]
  BY DEF GoesOn, Leaving
<1> QED BY <1>1 DEF Comes, Firm

\* A step that does not touch who is in which channel.
LEMMA RoomlessLeaves ==
    ASSUME TypeInv, LeaveInv, NEW t \in Conn, Ask(t) \/ Continue(t), Roomless(t),
           ~CreateMember(t), ~DeleteAccountFinished(t), GoesOn(t)
    PROVE  LeaveInv'
<1>1. users \subseteq users' /\ Others(t)
  BY AccountSteps, OtherThreads DEF Grows
<1>2. HallInv'
  BY <1>1, RoomlessKeeps DEF LeaveInv
<1>3. \A s \in Conn : GoesOn(s)
  BY <1>1, OthersFirm, OthersGoOn
<1>4. Leaving'
  BY <1>3, ComesKept DEF Roomless, Leaving, LeaveInv, Deleting
<1> QED BY <1>2, <1>4 DEF LeaveInv

\* No deletion is in hand of a handler that works on something else.
LEMMA ElsewhereGoesOn ==
    ASSUME NEW t \in Conn, UNCHANGED frame \/ t \notin Deleting'
    PROVE  GoesOn(t)
BY DEF GoesOn, Firm, Deleting

\* The next turn of a loop within one channel.
LEMMA AdvanceInner ==
    ASSUME NEW f \in Frames, NEW l \in {"messages", "members"}
    PROVE  /\ Advance(f, l) \in Frames /\ Advance(f, l).at = f.at /\ Advance(f, l).uid = f.uid
           /\ Advance(f, l).loose = f.loose /\ Advance(f, l).end = f.end
           /\ Advance(f, l).pos["channels"] = f.pos["channels"]
<1>1. "channels" \in Level \ {l} /\ l \in Level
  BY DEF Level
<1>2. Advance(f, l) \in Frames /\ Advance(f, l).at = f.at /\ Advance(f, l).uid = f.uid
  BY <1>1, AdvanceType
<1>3. Advance(f, l).loose = f.loose /\ Advance(f, l).end = f.end
  BY DEF Advance, Frames
<1>4. Advance(f, l).pos["channels"] = f.pos["channels"]
  BY <1>1, AdvanceFacts
<1> QED BY <1>2, <1>3, <1>4

\* The steps of a deletion within one channel.
LEMMA SweepLeaves ==
    ASSUME TypeInv, LeaveInv, NEW t \in Conn,
           \/ DeleteFindMessage(t) \/ DeleteListedMessage(t) \/ DeleteNotify(t)
           \/ DeleteChannelFinished(t)
    PROVE  LeaveInv'
<1>a. frame \in [Conn -> Frames] /\ frame[t] \in Frames
  BY DEF TypeInv, FramesOK
<1> DEFINE Goes == /\ t \in Deleting /\ frame'[t].at \in Sweeps \cup {"delete channels"}
                   /\ frame'[t].uid = frame[t].uid /\ frame'[t].loose \subseteq frame[t].loose
                   /\ frame'[t].pos["channels"] = frame[t].pos["channels"]
                   /\ frame'[t].end["channels"] = frame[t].end["channels"]
<1>1. ASSUME DeleteFindMessage(t) PROVE Goes
  <2>1. t \in Deleting /\ frame[t].at = "delete messages"
    BY <1>1 DEF DeleteFindMessage, At, Deleting
  <2>2. ASSUME NEW m, frame' = [frame EXCEPT ![t].at = "delete text", ![t].mid = m] PROVE Goes
    BY <1>a, <2>1, <2>2 DEF Frames, Sweeps
  <2>3. CASE frame' = [frame EXCEPT ![t] = Advance(@, "messages")]
    <3> DEFINE g == Advance(frame[t], "messages")
    <3>1. frame'[t] = g
      BY <1>a, <2>3
    <3>2. /\ g.at = frame[t].at /\ g.uid = frame[t].uid /\ g.loose = frame[t].loose
          /\ g.end = frame[t].end /\ g.pos["channels"] = frame[t].pos["channels"]
      BY <1>a, AdvanceInner
    <3> HIDE DEF g
    <3> QED BY <2>1, <3>1, <3>2 DEF Sweeps
  <2> QED BY <1>1, <2>2, <2>3 DEF DeleteFindMessage
<1>2. ASSUME DeleteListedMessage(t) PROVE Goes
  <2> DEFINE f == [frame[t] EXCEPT !.at = "delete notify"]
             g == Advance(f, "messages")
             h == Loop(g, "members", membersOf[frame[t].cid])
  <2>1. t \in Deleting /\ frame' = [frame EXCEPT ![t] = h]
    BY <1>2 DEF DeleteListedMessage, At, Deleting
  <2>2. /\ f.at = "delete notify" /\ f.uid = frame[t].uid /\ f.loose = frame[t].loose
        /\ f.pos = frame[t].pos /\ f.end = frame[t].end /\ f \in Frames
    BY <1>a DEF Frames, Places
  <2> HIDE DEF f
  <2>3. /\ g.at = "delete notify" /\ g.uid = frame[t].uid /\ g.loose = frame[t].loose
        /\ g.pos["channels"] = frame[t].pos["channels"] /\ g.end = frame[t].end /\ g \in Frames
    <3>1. /\ g.at = f.at /\ g.uid = f.uid /\ g.loose = f.loose /\ g.end = f.end
          /\ g.pos["channels"] = f.pos["channels"] /\ g \in Frames
      BY <2>2, AdvanceInner
    <3> QED BY <2>2, <3>1
  <2> HIDE DEF g
  <2>4. /\ h.at = "delete notify" /\ h.uid = frame[t].uid /\ h.loose \subseteq frame[t].loose
        /\ h.pos["channels"] = frame[t].pos["channels"]
        /\ h.end["channels"] = frame[t].end["channels"]
    <3>1. h.loose \subseteq g.loose
      BY LoopLoose
    <3>2. /\ h.at = g.at /\ h.uid = g.uid /\ h.pos["channels"] = g.pos["channels"]
          /\ h.end["channels"] = g.end["channels"]
      BY <2>3 DEF Loop, Frames, Level
    <3> QED BY <2>3, <3>1, <3>2
  <2> HIDE DEF h
  <2>5. frame'[t] = h
    BY <1>a, <2>1
  <2> QED BY <2>1, <2>4, <2>5 DEF Sweeps
<1>3. ASSUME DeleteNotify(t) PROVE Goes
  <2>1. t \in Deleting /\ frame[t].at = "delete notify"
    BY <1>3 DEF DeleteNotify, At, Deleting
  <2>2. CASE frame' = [frame EXCEPT ![t] = Advance(@, "members")]
    <3> DEFINE g == Advance(frame[t], "members")
    <3>1. frame'[t] = g
      BY <1>a, <2>2
    <3>2. /\ g.at = frame[t].at /\ g.uid = frame[t].uid /\ g.loose = frame[t].loose
          /\ g.end = frame[t].end /\ g.pos["channels"] = frame[t].pos["channels"]
      BY <1>a, AdvanceInner
    <3> HIDE DEF g
    <3> QED BY <2>1, <3>1, <3>2 DEF Sweeps
  <2>3. CASE Goto(t, "delete messages")
    BY <1>a, <2>1, <2>3 DEF Goto, Frames, Sweeps
  <2> QED BY <1>3, <2>2, <2>3 DEF DeleteNotify, NotifyMember
<1>4. ASSUME DeleteChannelFinished(t) PROVE Goes
  BY <1>a, <1>4 DEF DeleteChannelFinished, At, Deleting, Goto, Frames, Sweeps
<1>5. Goes
  BY <1>1, <1>2, <1>3, <1>4
<1>6. GoesOn(t)
  BY <1>5 DEF GoesOn, Firm
<1>7. UNCHANGED <<chansOf, channels, membersOf>>
  BY DEF DeleteFindMessage, DeleteListedMessage, DeleteNotify, DeleteChannelFinished, tables, rooms
<1>8. Roomless(t)
  <2>1. ~Creating(t) /\ ~Creating(t)'
    BY <1>5 DEF Deleting, Sweeps, Creating, Creates
  <2> QED BY <1>7, <2>1 DEF Roomless
<1>9. ~CreateMember(t) /\ ~DeleteAccountFinished(t)
  <2>1. ~CreateMember(t)
    BY <1>5 DEF Deleting, CreateMember, At
  <2>2. ~DeleteAccountFinished(t)
    BY DEF DeleteAccountFinished, More, At, DeleteFindMessage, DeleteListedMessage, DeleteNotify,
           DeleteChannelFinished
  <2> QED BY <2>1, <2>2
<1> QED BY <1>6, <1>8, <1>9, RoomlessLeaves DEF Continue

\* A deletion begins: whoever is in a channel lists it, and where that is not so yet, the
\* channel is being created and the user does not leave.
LEMMA DeleteUserLeaves ==
    ASSUME TypeInv, TypeInv', LeaveInv, NoneLeaves', NEW t \in Conn, DeleteUser(t)
    PROVE  LeaveInv'
<1>a. /\ frame \in [Conn -> Frames] /\ frame[t] \in Frames /\ frame[t].at = "delete user"
      /\ UNCHANGED <<users, chansOf, channels, membersOf>>
  BY DEF TypeInv, FramesOK, DeleteUser, At, tables, accounts, rooms
<1>b. Others(t) /\ \A s \in Conn \ {t} : Firm(s)
  BY <1>a, OtherThreads, OthersFirm DEF Continue, CreateMember, At
<1>1. HallInv'
  <2>1. Roomless(t)
    BY PlainStep, PlainRoomless
  <2> QED BY <1>a, <1>b, <2>1, RoomlessKeeps DEF LeaveInv
<1>2. ASSUME NEW s \in Deleting', s # t PROVE Comes(s)'
  <2>1. s \in Conn
    BY DEF Deleting
  <2> QED BY <1>a, <1>b, <1>2, <2>1, OthersGoOn, ComesKept DEF LeaveInv
<1>3. ASSUME t \in Deleting' PROVE Comes(t)'
  <2>1. PICK u, v : u = frame[t].uid /\ v = chansOf[u]
    OBVIOUS
  <2>2. frame'[t] = Loop([frame[t] EXCEPT !.at = "delete channels"], "channels", v)
    <3>1. CASE Done(t)
      BY <1>a, <1>3, <3>1 DEF Done, Return, Idle, Deleting
    <3> QED BY <1>a, <2>1, <3>1 DEF DeleteUser
  <2>3. /\ frame'[t].uid = u /\ frame'[t].pos["channels"] = 1 /\ frame'[t].end["channels"] = v.len
        /\ "channels" \notin frame'[t].loose
    <3> DEFINE f == [frame[t] EXCEPT !.at = "delete channels"]
    <3>1. f \in Frames /\ f.uid = u
      BY <1>a, <2>1 DEF Frames, Places
    <3>2. frame'[t] = Loop(f, "channels", v)
      BY <2>2
    <3> HIDE DEF f
    <3>3. /\ Loop(f, "channels", v).uid = u /\ Loop(f, "channels", v).pos["channels"] = 1
          /\ Loop(f, "channels", v).end["channels"] = v.len
          /\ "channels" \notin Loop(f, "channels", v).loose
      BY <3>1 DEF Loop, Frames, Level
    <3> QED BY <3>2, <3>3
  <2>4. ASSUME NEW c \in channels, u \in Live(membersOf[c])
        PROVE  \E i \in 1..v.len : v.cells[i] = c
    <3>1. CASE c \in Live(chansOf[u])
      BY <2>1, <3>1 DEF Live
    <3>2. ASSUME NEW s \in Conn, Joins(s, c, u) PROVE FALSE
      <4>1. Creating(s) /\ frame[s].cid = c /\ s # t
        BY <1>a, <3>2 DEF Joins, Creating, Creates
      <4>2. Creating(s)' /\ frame'[s].cid = c
        BY <1>b, <4>1 DEF Others, Still, Creating
      <4>3. u \in Live(membersOf'[c])
        BY <1>a, <2>4
      <4> QED BY <1>3, <2>3, <4>2, <4>3 DEF NoneLeaves
    <3> QED BY <2>4, <3>1, <3>2 DEF LeaveInv, HallInv, Joined
  <2>5. \A c \in channels' : u \in Live(membersOf'[c]) =>
           \E i \in 1..v.len : chansOf'[u].cells[i] = c
    BY <1>a, <2>1, <2>4
  <2> QED BY <2>3, <2>5 DEF Comes
<1> QED BY <1>1, <1>2, <1>3 DEF LeaveInv, Leaving

\* A deletion ends: by then its user is in no channel.
LEMMA DeleteAccountFinishedLeaves ==
    ASSUME TypeInv, LeaveInv, NEW t \in Conn, DeleteAccountFinished(t)
    PROVE  LeaveInv'
<1>a. /\ frame \in [Conn -> Frames] /\ frame[t].at = "delete channels"
      /\ UNCHANGED <<chansOf, channels, membersOf>>
  BY DEF TypeInv, FramesOK, DeleteAccountFinished, At, rooms
<1>1. PICK u, p, e : u = frame[t].uid /\ p = frame[t].pos["channels"] /\ e = frame[t].end["channels"]
  OBVIOUS
<1>2. p \in Nat /\ e \in Nat /\ p > e
  <2>1. p \in Nat /\ e \in Nat
    BY <1>1 DEF TypeInv, FramesOK, Frames, Level
  <2>2. ~(p <= e)
    BY <1>1 DEF DeleteAccountFinished, More
  <2> QED BY <2>1, <2>2
<1>3. \A c \in channels : u \notin Live(membersOf[c])
  <2>1. p..e = {}
    BY <1>2
  <2>2. Comes(t)
    BY <1>a DEF LeaveInv, Leaving, Deleting
  <2> QED BY <1>1, <2>1, <2>2 DEF Comes
<1>4. frame'[t].at \in {"idle", "sweep"} /\ \A s \in Conn \ {t} : frame'[s] = frame[s]
  BY <1>a DEF DeleteAccountFinished, Done, Return, Idle
<1>5. HallInv'
  <2>1. users' = users \ {u}
    BY <1>1 DEF DeleteAccountFinished, RemoveUser
  <2>2. \A c \in channels : Live(membersOf[c]) \subseteq users'
    BY <1>3, <2>1 DEF LeaveInv, HallInv, MembersStored
  <2>3. \A s \in Conn : Creating(s) \/ Creating(s)' => frame'[s] = frame[s]
    BY <1>a, <1>4 DEF Creating, Creates
  <2> QED BY <1>a, <2>2, <2>3, RoomsKept DEF LeaveInv
<1>6. ASSUME NEW s \in Deleting' PROVE Comes(s)'
  <2>1. s \in Conn \ {t} /\ s \in Deleting /\ frame'[s] = frame[s]
    BY <1>4 DEF Deleting
  <2>2. Comes(s)
    BY <2>1 DEF LeaveInv, Leaving
  <2> QED BY <1>a, <2>1, <2>2 DEF Comes
<1> QED BY <1>5, <1>6 DEF LeaveInv, Leaving

\* The next channel of the user: the user is taken out of it, and it is none that is still being
\* created.
LEMMA DeleteFromChannelLeaves ==
    ASSUME TypeInv, LeaveInv, NoneLeaves, NEW t \in Conn, DeleteFromChannel(t)
    PROVE  LeaveInv'
<1>a. /\ frame \in [Conn -> Frames] /\ frame[t] \in Frames /\ t \in Deleting
      /\ frame[t].at = "delete channels" /\ UNCHANGED <<users, chansOf, channels>>
  BY DEF TypeInv, FramesOK, DeleteFromChannel, At, Deleting, accounts
<1>b. Others(t) /\ \A s \in Conn \ {t} : Firm(s)
  BY <1>a, OtherThreads, OthersFirm DEF Continue, CreateMember, At
<1>1. PICK u, p, e, w : /\ u = frame[t].uid /\ p = frame[t].pos["channels"]
                        /\ e = frame[t].end["channels"] /\ w = chansOf[u].cells
  OBVIOUS
<1>2. p \in Nat /\ e \in Nat
  BY <1>a, <1>1 DEF Frames, Level
<1>3. Comes(t)
  BY <1>a DEF LeaveInv, Leaving
<1>4. PICK d \in Cell(t, "channels", chansOf, u) :
        \/ /\ d \notin channels
           /\ frame' = [frame EXCEPT ![t] = Advance(frame[t], "channels")]
           /\ UNCHANGED membersOf
        \/ /\ d \in channels
           /\ ChannelRemoveUser(d, u)
           /\ frame' = [frame EXCEPT ![t] = Sweep(frame[t], d)]
  BY <1>a, <1>1 DEF DeleteFromChannel, Sweep
<1>5. d = w[p]
  BY <1>1, <1>3 DEF Cell, Comes
<1>6. /\ frame'[t].at \in {"delete channels", "delete messages"} /\ frame'[t].uid = u
      /\ frame'[t].pos["channels"] = p + 1 /\ frame'[t].end["channels"] = e
  <2>1. /\ Advance(frame[t], "channels").at = "delete channels"
        /\ Advance(frame[t], "channels").uid = u
        /\ Advance(frame[t], "channels").pos["channels"] = p + 1
        /\ Advance(frame[t], "channels").end["channels"] = e
    BY <1>a, <1>1, AdvanceFacts DEF Level
  <2>2. ASSUME d \in channels
        PROVE  /\ Sweep(frame[t], d).at = "delete messages" /\ Sweep(frame[t], d).uid = u
               /\ Sweep(frame[t], d).pos["channels"] = p + 1
               /\ Sweep(frame[t], d).end["channels"] = e
    <3> DEFINE f == [frame[t] EXCEPT !.at = "delete messages", !.cid = d]
               g == Advance(f, "channels")
    <3>1. /\ f \in Frames /\ f.at = "delete messages" /\ f.uid = u
          /\ f.pos = frame[t].pos /\ f.end = frame[t].end
      BY <1>a, <1>1, <2>2 DEF Frames, Places, TypeInv, TablesTypeOK
    <3> HIDE DEF f
    <3>2. "channels" \in Level
      BY DEF Level
    <3>3. g \in Frames /\ g.at = "delete messages" /\ g.uid = u
      BY <3>1, <3>2, AdvanceType
    <3>4. g.pos["channels"] = p + 1 /\ g.end["channels"] = e
      BY <1>1, <3>1, <3>2, AdvanceFacts
    <3> HIDE DEF g
    <3>5. /\ Loop(g, "messages", logOf[d]).at = "delete messages"
          /\ Loop(g, "messages", logOf[d]).uid = u
          /\ Loop(g, "messages", logOf[d]).pos["channels"] = p + 1
          /\ Loop(g, "messages", logOf[d]).end["channels"] = e
      BY <3>3, <3>4 DEF Loop, Frames, Level
    <3> QED BY <3>5 DEF Sweep, f, g
  <2> QED BY <1>a, <1>4, <2>1, <2>2
<1>7. \A c \in channels : /\ Live(membersOf'[c]) \subseteq Live(membersOf[c])
                          /\ u \in Live(membersOf'[c]) => c # d
  <2>1. CASE UNCHANGED membersOf /\ d \notin channels
    BY <2>1
  <2>2. CASE d \in channels /\ ChannelRemoveUser(d, u)
    <3>1. membersOf[d] \in Vectors(Uid) /\ membersOf \in [Cid -> Vectors(Uid)] /\ d \in Cid
      BY <2>2 DEF TypeInv, TablesTypeOK
    <3>2. /\ membersOf'[d] = Erase(membersOf[d], u)
          /\ \A c \in Cid \ {d} : membersOf'[c] = membersOf[c]
      BY <2>2, <3>1 DEF ChannelRemoveUser
    <3>3. Live(membersOf'[d]) = Live(membersOf[d]) \ {u}
      BY <3>1, <3>2, EraseLive
    <3> QED BY <3>2, <3>3 DEF TypeInv, TablesTypeOK
  <2> QED BY <1>4, <2>1, <2>2
\* What is being created the step leaves alone.
<1>8. /\ \A s \in Conn \ {t} : Creating(s) =>
            /\ membersOf'[frame[s].cid].cells = membersOf[frame[s].cid].cells
            /\ membersOf'[frame[s].cid].len = membersOf[frame[s].cid].len
      /\ \A c \in Cid \ channels : membersOf'[c] = membersOf[c]
  <2>1. CASE UNCHANGED membersOf
    BY <2>1
  <2>2. CASE d \in channels /\ ChannelRemoveUser(d, u)
    <3>1. membersOf[d] \in Vectors(Uid) /\ membersOf \in [Cid -> Vectors(Uid)] /\ d \in Cid
      BY <2>2 DEF TypeInv, TablesTypeOK
    <3>2. /\ membersOf'[d] = Erase(membersOf[d], u)
          /\ \A c \in Cid \ {d} : membersOf'[c] = membersOf[c]
      BY <2>2, <3>1 DEF ChannelRemoveUser
    <3>3. ASSUME NEW s \in Conn, Creating(s), frame[s].cid = d PROVE u \notin Live(membersOf[d])
      BY <1>a, <1>1, <3>3 DEF NoneLeaves
    <3>4. ASSUME u \notin Live(membersOf[d])
          PROVE  membersOf'[d].cells = membersOf[d].cells /\ membersOf'[d].len = membersOf[d].len
      BY <3>1, <3>2, <3>4, EraseSame
    <3>5. ASSUME NEW s \in Conn, Creating(s) PROVE frame[s].cid \in Cid
      BY <3>5 DEF LeaveInv, HallInv, Building, Builds, TypeInv, TablesTypeOK
    <3> QED BY <2>2, <3>2, <3>3, <3>4, <3>5
  <2> QED BY <1>4, <2>1, <2>2
<1>9. ~Creating(t) /\ ~Creating(t)'
  BY <1>a, <1>6 DEF Creating, Creates
<1>10. HallInv'
  <2>1. ChansWhole' /\ MembersStored'
    BY <1>a, <1>7 DEF LeaveInv, HallInv, ChansWhole, MembersStored
  <2>2. Unmade'
    BY <1>a, <1>8 DEF LeaveInv, HallInv, Unmade
  <2>3. ASSUME NEW s \in Conn, NEW c \in channels, NEW x, Joins(s, c, x) PROVE Joins(s, c, x)'
    <3>1. Creating(s) /\ frame[s].cid = c /\ s # t
      BY <1>9, <2>3 DEF Joins
    <3>2. Still(s) /\ membersOf'[c].cells = membersOf[c].cells
      BY <1>b, <1>8, <3>1 DEF Others
    <3> QED BY <2>3, <3>1, <3>2 DEF Joins, Still, Creating
  <2>4. Joined'
    BY <1>a, <1>7, <2>3 DEF LeaveInv, HallInv, Joined
  <2>5. ASSUME NEW s \in Conn, Creating(s)' PROVE Builds(s)'
    <3>1. s # t /\ Still(s) /\ Creating(s)
      BY <1>9, <1>b, <2>5 DEF Others, Still, Creating
    <3>2. Builds(s)
      BY <3>1 DEF LeaveInv, HallInv, Building
    <3>3. /\ membersOf'[frame[s].cid].cells = membersOf[frame[s].cid].cells
          /\ membersOf'[frame[s].cid].len = membersOf[frame[s].cid].len
      BY <1>8, <3>1
    <3> QED BY <1>a, <3>1, <3>2, <3>3 DEF Builds, Still
  <2> QED BY <2>1, <2>2, <2>4, <2>5 DEF HallInv, Building
<1>11. Comes(t)'
  <2>1. "channels" \notin frame'[t].loose
    BY <1>b, <1>3 DEF Others, Comes
  <2>2. ASSUME NEW c \in channels, u \in Live(membersOf'[c]) PROVE \E i \in (p + 1)..e : w[i] = c
    <3>1. u \in Live(membersOf[c]) /\ c # d
      BY <1>7, <2>2
    <3>2. PICK i \in p..e : w[i] = c
      BY <1>1, <1>3, <3>1 DEF Comes
    <3>3. i # p
      BY <1>5, <3>1, <3>2
    <3>4. i \in (p + 1)..e
      BY ONLY <1>2, <3>2, <3>3
    <3> QED BY <3>2, <3>4
  <2>3. \A c \in channels' : u \in Live(membersOf'[c]) =>
           \E i \in (p + 1)..e : chansOf'[u].cells[i] = c
    BY <1>a, <1>1, <2>2
  <2> QED BY <1>6, <2>1, <2>3 DEF Comes
<1>12. ASSUME NEW s \in Deleting', s # t PROVE Comes(s)'
  <2>1. s \in Conn
    BY DEF Deleting
  <2> QED BY <1>a, <1>b, <1>7, <1>12, <2>1, OthersGoOn, ComesKept DEF LeaveInv
<1> QED BY <1>10, <1>11, <1>12 DEF LeaveInv, Leaving

\* A channel is created, for users who have accounts and are not about to leave.
LEMMA CreateChannelLeaves ==
    ASSUME TypeInv, LeaveInv, NoneLeaves', NEW t \in Conn, NEW other, CreateChannel(t, other)
    PROVE  LeaveInv'
<1>0. PICK d \in Cid \ channels : d = Fresh(Cid \ channels)
  BY DEF CreateChannel, Fresh, TypeInv, TablesTypeOK
<1> DEFINE uids == <<auth[t], other>>
           f == Loop([frame[t] EXCEPT !.at = "create members", !.cid = d], "members", VectorOf(uids))
<1>1. /\ UNCHANGED <<chansOf, users>> /\ channels' = channels \cup {d}
      /\ membersOf'[d] = VectorOf(uids)
      /\ \A c \in channels : membersOf'[c] = membersOf[c]
  BY <1>0 DEF CreateChannel, AddChannel, accounts, TypeInv, TablesTypeOK
<1>2. frame'[t] = f /\ \A s \in Conn \ {t} : frame'[s] = frame[s]
  BY <1>0 DEF CreateChannel, TypeInv, FramesOK
<1>3. f.at = "create members" /\ f.cid = d
  BY DEF Loop, TypeInv, FramesOK, Frames
<1>4. Live(membersOf'[d]) = {auth[t], other}
  BY <1>1 DEF VectorOf, Live
<1> HIDE DEF f, uids
<1>5. \A u \in {auth[t], other} : u \in users' /\ \A s \in Deleting' : frame'[s].uid # u
  <2>1. Creating(t)' /\ frame'[t].cid = d
    BY <1>2, <1>3 DEF Creating, Creates
  <2> QED BY <1>4, <2>1 DEF NoneLeaves
<1>6. HallInv'
  BY <1>1, <1>5, CreateChannelRooms DEF LeaveInv
<1>7. ASSUME NEW s \in Deleting' PROVE Comes(s)'
  <2>1. s \in Conn \ {t} /\ s \in Deleting /\ frame'[s] = frame[s]
    BY <1>2, <1>3 DEF Deleting
  <2>2. Comes(s)
    BY <2>1 DEF LeaveInv, Leaving
  <2>3. frame[s].uid \notin Live(membersOf'[d])
    BY <1>4, <1>5, <2>1
  <2>4. ASSUME NEW c \in channels', frame[s].uid \in Live(membersOf'[c])
        PROVE  \E i \in frame[s].pos["channels"]..frame[s].end["channels"] :
                   chansOf'[frame[s].uid].cells[i] = c
    <3>1. c \in channels /\ membersOf'[c] = membersOf[c]
      BY <1>1, <2>3, <2>4
    <3> QED BY <1>1, <2>2, <2>4, <3>1 DEF Comes
  <2> QED BY <2>1, <2>2, <2>4 DEF Comes
<1> QED BY <1>6, <1>7 DEF LeaveInv, Leaving

\* A member of the new channel lists it: nobody who is being deleted is one.
LEMMA CreateMemberLeaves ==
    ASSUME TypeInv, LeaveInv, NoneLeaves, NEW t \in Conn, CreateMember(t)
    PROVE  LeaveInv'
<1>a. frame \in [Conn -> Frames] /\ frame[t].at = "create members" /\ Creating(t)
  BY DEF TypeInv, FramesOK, CreateMember, At, Creating, Creates
<1>1. PICK c, p, u : /\ c = frame[t].cid /\ p = frame[t].pos["members"]
                     /\ u = membersOf[c].cells[p]
  OBVIOUS
<1>2. u \in Live(membersOf[c])
  <2>a. Builds(t)
    BY <1>a DEF LeaveInv, HallInv, Building
  <2>b. p \in Nat /\ frame[t].end["members"] \in Nat
    BY <1>a, <1>1 DEF Frames, Level
  <2>1. p >= 1 /\ p <= frame[t].end["members"] /\ frame[t].end["members"] = membersOf[c].len
    BY <1>1, <2>a, <2>b DEF Builds, CreateMember, More
  <2>2. p \in 1..membersOf[c].len
    BY <2>1, <2>b
  <2> QED BY <1>1, <2>2 DEF Live
<1>3. u \in users /\ u \in Uid /\ \A s \in Deleting : frame[s].uid # u
  BY <1>a, <1>1, <1>2 DEF NoneLeaves, TypeInv, TablesTypeOK
<1>4. /\ UserAddChannel(u, c) /\ UNCHANGED <<channels, membersOf>>
      /\ Pushed(t, [frame[t] EXCEPT !.at = "create announce", !.uid = u], "channels", u, chansOf[u])
  BY <1>1, <1>3 DEF CreateMember
<1>5. HallInv'
  BY CreateMemberRooms DEF LeaveInv
<1>6. Others(t)
  BY OtherThreads DEF Continue
<1>7. t \notin Deleting'
  <2>1. frame'[t] = [frame[t] EXCEPT !.at = "create announce", !.uid = u]
    BY <1>4 DEF Pushed
  <2>2. frame'[t].at = "create announce"
    BY <1>a, <2>1 DEF Frames
  <2> QED BY <2>2 DEF Deleting
<1>8. ASSUME NEW s \in Deleting' PROVE Comes(s)'
  <2>1. s \in Conn \ {t} /\ s \in Deleting
    BY <1>6, <1>7 DEF Others, Still, Deleting
  <2>2. frame[s].uid # u
    BY <1>3, <2>1
  <2>3. s \notin Walking("channels", u)
    BY <2>2 DEF Walking
  <2>4. frame'[s] = frame[s]
    BY <1>4, <2>1, <2>3 DEF Pushed
  <2>5. chansOf'[frame[s].uid] = chansOf[frame[s].uid]
    <3>1. frame[s].uid \in Uid
      BY <2>1 DEF Deleting, TypeInv, FramesOK, Whole, HasUid
    <3> QED BY <1>4, <2>2, <3>1 DEF UserAddChannel, TypeInv, TablesTypeOK
  <2>6. Comes(s)
    BY <2>1 DEF LeaveInv, Leaving
  <2> QED BY <1>4, <2>4, <2>5, <2>6 DEF Comes
<1> QED BY <1>5, <1>8 DEF LeaveInv, Leaving

\* The new channel is announced to the member, or all of them were told.
LEMMA CreateOnLeaves ==
    ASSUME TypeInv, LeaveInv, NEW t \in Conn, CreateAnnounce(t) \/ CreateFinished(t)
    PROVE  LeaveInv'
<1>a. frame \in [Conn -> Frames] /\ frame[t] \in Frames
  BY DEF TypeInv, FramesOK
<1>1. HallInv'
  BY CreateAnnounceRooms, CreateFinishedRooms DEF LeaveInv
<1>2. /\ UNCHANGED <<chansOf, channels, membersOf>> /\ \A s \in Conn \ {t} : frame'[s] = frame[s]
      /\ frame'[t].at \in {"create members", "idle", "sweep"}
  <2>1. CASE CreateAnnounce(t)
    BY <1>a, <2>1 DEF CreateAnnounce, tables, rooms, Advance, Frames
  <2>2. CASE CreateFinished(t)
    BY <1>a, <2>2 DEF CreateFinished, tables, rooms, Done, Return, Idle
  <2> QED BY <2>1, <2>2
<1>3. ASSUME NEW s \in Deleting' PROVE Comes(s)'
  <2>1. s \in Conn /\ s \in Deleting /\ frame'[s] = frame[s]
    BY <1>2 DEF Deleting
  <2>2. Comes(s)
    BY <2>1 DEF LeaveInv, Leaving
  <2> QED BY <1>2, <2>1, <2>2 DEF Comes
<1> QED BY <1>1, <1>3 DEF LeaveInv, Leaving

\* The steps that work on something else than a deletion.
LEMMA NoDeletion ==
    ASSUME TypeInv, NEW t \in Conn, Ask(t) \/ Continue(t), ~Accept(t),
           ~DeleteUser(t), ~DeleteFromChannel(t), ~DeleteFindMessage(t), ~DeleteListedMessage(t),
           ~DeleteNotify(t), ~DeleteChannelFinished(t), ~DeleteAccountFinished(t)
    PROVE  t \notin Deleting /\ t \notin Deleting'
<1>a. frame \in [Conn -> Frames] /\ frame[t] \in Frames
  BY DEF TypeInv, FramesOK
<1> DEFINE Away == frame[t].at \notin Sweeps \cup {"delete channels"}
           Later == frame'[t].at \notin Sweeps \cup {"delete channels"}
<1>1. Away
  <2>1. CASE Ask(t)
    <3>1. frame[t].at = "idle"
      BY <2>1 DEF Ask, Register, Login, DeleteAccount, ListAccounts, CreateChannel, SendMessage,
         DeleteMessage, Disconnect, Request
    <3> QED BY <3>1 DEF Sweeps
  <2>2. CASE \/ RegisterPassword(t) \/ RegisterUser(t) \/ LoginUser(t) \/ LoginChannel(t)
             \/ LoginMessage(t) \/ LoginChannelReplayed(t) \/ LoginFinished(t) \/ ListAccount(t)
             \/ ListFinished(t)
    BY <2>2 DEF RegisterPassword, RegisterUser, LoginUser, LoginChannel, LoginMessage,
       LoginChannelReplayed, LoginFinished, ListAccount, ListFinished, At, Sweeps
  <2>3. CASE \/ CreateMember(t) \/ CreateAnnounce(t) \/ CreateFinished(t) \/ AppendMessage(t)
             \/ SendNotify(t) \/ RemoveText(t) \/ RemoveNotify(t) \/ Unlist(t)
             \/ DisconnectFinished(t)
    BY <2>3 DEF CreateMember, CreateAnnounce, CreateFinished, AppendMessage, SendNotify,
       RemoveText, RemoveNotify, Unlist, DisconnectFinished, At, Sweeps
  <2>4. CASE QuitThread(t) \/ Dispatch(t)
    BY <2>4 DEF QuitThread, Dispatch, Sweeps
  <2> QED BY <2>1, <2>2, <2>3, <2>4 DEF Continue
<1>2. Later
  <2>1. CASE Modest(t)
    BY <1>1, <2>1 DEF Modest, Lists
  <2>2. CASE RegisterUser(t) \/ Unlist(t)
    BY <1>a, <2>2 DEF RegisterUser, Unlist, Done, Return, Idle, Sweeps
  <2>3. ASSUME NEW c, SendMessage(t, c) PROVE Later
    <3>1. PICK m : frame' = [frame EXCEPT ![t].at = "append", ![t].cid = c, ![t].mid = m]
      BY <2>3 DEF SendMessage
    <3> QED BY <1>a, <3>1 DEF Frames, Sweeps
  <2>4. CASE AppendMessage(t)
    <3> DEFINE f == Loop([frame[t] EXCEPT !.at = "send notify"], "members", membersOf[frame[t].cid])
    <3>1. f.at = "send notify"
      BY <1>a DEF Loop, Frames
    <3>2. frame'[t] = f
      BY <2>4 DEF AppendMessage, Pushed
    <3> QED BY <3>1, <3>2 DEF Sweeps
  <2>5. CASE RemoveText(t)
    BY <1>a, <2>5 DEF RemoveText, Loop, Frames, Sweeps
  <2>6. CASE RemoveNotify(t)
    <3>1. CASE Goto(t, "unlist")
      BY <1>a, <3>1 DEF Goto, Frames, Sweeps
    <3>2. CASE frame' = [frame EXCEPT ![t] = Advance(@, "members")]
      <4>1. Advance(frame[t], "members").at = frame[t].at
        BY <1>a, AdvanceInner
      <4> QED BY <1>a, <1>1, <3>2, <4>1
    <3> QED BY <2>6, <3>1, <3>2 DEF RemoveNotify, NotifyMember
  <2> QED BY <2>1, <2>2, <2>3, <2>4, <2>5, <2>6, ModestSteps DEF Ask, Continue
<1> QED BY <1>1, <1>2 DEF Deleting, Sweeps

\* A step that moves neither handlers nor channels.
LEMMA SameLeaves ==
    ASSUME LeaveInv, UNCHANGED <<users, chansOf, channels, membersOf, frame>>
    PROVE  LeaveInv'
<1>1. HallInv'
  <2>1. HallInv /\ \A c \in channels : Live(membersOf[c]) \subseteq users'
    BY DEF LeaveInv, HallInv, MembersStored
  <2>2. \A s \in Conn : /\ frame'[s].at = frame[s].at /\ frame'[s].uid = frame[s].uid
                       /\ frame'[s].cid = frame[s].cid
                       /\ frame'[s].pos = frame[s].pos /\ frame'[s].end = frame[s].end
    OBVIOUS
  <2> QED BY <2>1, <2>2, RoomsKept
<1>2. Leaving'
  <2>1. Leaving /\ Deleting' = Deleting
    BY DEF LeaveInv, Deleting
  <2>2. ASSUME NEW t \in Conn, Comes(t) PROVE Comes(t)'
    BY <2>2 DEF Comes
  <2> QED BY <2>1, <2>2 DEF Leaving, Deleting
<1> QED BY <1>1, <1>2 DEF LeaveInv

\* Every step, where no member of a channel under creation leaves.
LEMMA LeaveNext ==
    ASSUME TypeInv, TypeInv', NoneLeaves, NoneLeaves', LeaveInv, [Next]_vars
    PROVE  LeaveInv'
<1>1. ASSUME NEW t \in Conn, Ask(t) \/ Continue(t) PROVE LeaveInv'
  <2>1. ASSUME NEW other, CreateChannel(t, other) PROVE LeaveInv'
    BY <2>1, CreateChannelLeaves
  <2>2. CASE CreateMember(t) \/ CreateAnnounce(t) \/ CreateFinished(t)
    BY <2>2, CreateMemberLeaves, CreateOnLeaves
  <2>3. CASE DeleteUser(t) \/ DeleteFromChannel(t) \/ DeleteAccountFinished(t)
    BY <2>3, DeleteUserLeaves, DeleteFromChannelLeaves, DeleteAccountFinishedLeaves
  <2>4. CASE \/ DeleteFindMessage(t) \/ DeleteListedMessage(t) \/ DeleteNotify(t)
             \/ DeleteChannelFinished(t)
    BY <2>4, SweepLeaves
  <2>5. CASE Accept(t)
    BY <2>5, SameLeaves DEF Accept, tables, accounts, rooms
  <2>6. ASSUME \A other \in Announced : ~CreateChannel(t, other), ~Accept(t),
               ~CreateMember(t), ~CreateAnnounce(t), ~CreateFinished(t), ~DeleteUser(t),
               ~DeleteFromChannel(t), ~DeleteFindMessage(t), ~DeleteListedMessage(t),
               ~DeleteNotify(t), ~DeleteChannelFinished(t), ~DeleteAccountFinished(t)
        PROVE  LeaveInv'
    <3>1. t \notin Deleting /\ t \notin Deleting'
      BY <1>1, <2>6, NoDeletion
    <3>2. GoesOn(t)
      BY <3>1, ElsewhereGoesOn
    <3>3. Roomless(t)
      BY <1>1, <2>6, <3>1, RoomlessSteps
    <3> QED BY <1>1, <2>6, <3>2, <3>3, RoomlessLeaves
  <2> QED BY <2>1, <2>2, <2>3, <2>4, <2>5, <2>6
<1>2. CASE UNCHANGED vars
  BY <1>2, SameLeaves DEF vars, tables, accounts, rooms, threads
<1> QED BY <1>1, <1>2 DEF Next, Rest

\* A deletion that is reported in w is that of one account.
Whom(w) ==
    \A i \in 1..Len(w) : \A u \in w[i].ids :
        w[i].kind = "delete account" => w[i] = Packet("delete account", {u})

ToldWhom == \A t \in Conn : Whom(out[t])

\* One more packet.
LEMMA WhomAppend ==
    ASSUME NEW w \in Seq(Packets), NEW packet \in Packets, Whom(w),
           \A u \in packet.ids : packet.kind = "delete account" =>
               packet = Packet("delete account", {u})
    PROVE  Whom(Append(w, packet))
<1>a. PICK v, n, m : v = Append(w, packet) /\ n = Len(w) /\ m = Len(v)
  OBVIOUS
<1>b. n \in Nat /\ Len(v) = n + 1 /\ v[n + 1] = packet /\ \A i \in 1..n : v[i] = w[i]
  <2>1. w \in Seq(Packets) /\ packet \in Packets /\ v = Append(w, packet) /\ n = Len(w)
    BY <1>a
  <2>2. PICK S : S = Packets
    OBVIOUS
  <2>3. w \in Seq(S) /\ packet \in S
    BY <2>1, <2>2
  <2> QED BY ONLY <2>1, <2>3
<1>1. n \in Nat /\ m = n + 1 /\ v[n + 1] = packet /\ \A i \in 1..n : v[i] = w[i]
  BY ONLY <1>a, <1>b, Zenon
<1>2. ASSUME NEW i \in 1..m, NEW u \in v[i].ids, v[i].kind = "delete account"
      PROVE  v[i] = Packet("delete account", {u})
  <2>1. CASE i = n + 1
    BY <1>1, <1>2, <2>1
  <2>2. CASE i # n + 1
    <3>1. i \in 1..m /\ i # n + 1
      BY <1>2, <2>2
    <3>2. i \in 1..n /\ v[i] = w[i]
      BY ONLY <1>1, <3>1
    <3> QED BY <1>a, <1>2, <3>2 DEF Whom
  <2> QED BY <2>1, <2>2
<1> QED BY <1>a, <1>2 DEF Whom

\* Every answer names one account or none.
LEMMA ToldWhomNext ==
    ASSUME TypeInv, TypeInv', ToldWhom, [Next]_vars
    PROVE  ToldWhom'
<1>1. ASSUME NEW t \in Conn, NEW packet, Write(t, packet),
             \A u \in packet.ids : packet.kind = "delete account" =>
                 packet = Packet("delete account", {u})
      PROVE  ToldWhom'
  <2>1. /\ out[t] \in Seq(Packets) /\ out'[t] = Append(out[t], packet)
        /\ \A s \in Conn \ {t} : out'[s] = out[s]
    BY <1>1 DEF Write, TypeInv, WiresOK
  <2>2. packet \in Packets
    <3>1. /\ Len(out[t]) \in Nat /\ Len(out'[t]) = Len(out[t]) + 1
          /\ out'[t][Len(out[t]) + 1] = packet
      BY <1>1, AppendParts
    <3>2. out'[t] \in Seq(Packets)
      BY DEF TypeInv, WiresOK
    <3>3. PICK w, n : w = out'[t] /\ n = Len(out[t])
      OBVIOUS
    <3>4. w \in Seq(Packets) /\ n \in Nat /\ Len(w) = n + 1 /\ w[n + 1] = packet
      BY ONLY <3>1, <3>2, <3>3
    <3> QED BY ONLY <3>4
  <2>3. Whom(out'[t])
    BY <1>1, <2>1, <2>2, WhomAppend DEF ToldWhom
  <2> QED BY <2>1, <2>3 DEF ToldWhom
<1>2. CASE UNCHANGED out
  BY <1>2 DEF ToldWhom
<1>3. ASSUME NEW t \in Conn, NoneTold(t) PROVE ToldWhom'
  BY <1>1, <1>2, <1>3 DEF NoneTold
<1>4. ASSUME NEW t \in Conn, DeleteAccountFinished(t) PROVE ToldWhom'
  <2>1. PICK u : u = frame[t].uid
    OBVIOUS
  <2> DEFINE packet == Packet("delete account", {u} \cap users)
  <2>2. Write(t, packet)
    BY <1>4, <2>1 DEF DeleteAccountFinished
  <2>3. ASSUME NEW v \in packet.ids PROVE packet = Packet("delete account", {v})
    BY <2>3 DEF Packet
  <2> HIDE DEF packet
  <2> QED BY <1>1, <2>2, <2>3
<1>5. CASE UNCHANGED vars
  BY <1>2, <1>5 DEF vars, threads
<1> QED BY <1>3, <1>4, <1>5, AskTells, ContinueTells DEF Next, Rest

\* Once a client is told that an account is deleted, the account is in no channel: if no member of
\* a channel is deleted while it is being created. The deletion reads the list of the user's
\* channels without a lock, while other threads create and other deletions run; only a member
\* whom Database::add_channel has not come to yet escapes it, or one who went before.
THEOREM DeletedLeave == Spec /\ []NoneLeaves => []LeavesChannels
<1>1. Init => LeaveInv /\ ToldWhom
  <2> SUFFICES ASSUME Init PROVE LeaveInv /\ ToldWhom
    OBVIOUS
  <2>1. \A t \in Conn : frame[t].at = "idle" /\ 1..Len(out[t]) = {}
    BY DEF Init, Idle
  <2> QED BY <2>1, RoomInit DEF LeaveInv, RoomInv, Leaving, Deleting, ToldWhom, Whom
<1>2. /\ TypeInv /\ TypeInv' /\ NoneLeaves /\ NoneLeaves' /\ LeaveInv /\ DeleterInv /\ ToldWhom
      /\ [Next]_vars
      => LeaveInv' /\ DeleterInv' /\ ToldWhom'
  BY LeaveNext, DeleterNext, ToldWhomNext
<1>3. TypeInv /\ LeaveInv /\ DeleterInv /\ ToldWhom => LeavesChannels
  <2> SUFFICES ASSUME TypeInv, LeaveInv, DeleterInv, ToldWhom, NEW t \in Conn,
                      NEW u \in Got(t, "delete account"), NEW c \in channels,
                      u \in Live(membersOf[c])
               PROVE  FALSE
    BY DEF LeavesChannels
  <2>1. u \in users /\ u \in Uid
    BY DEF LeaveInv, HallInv, MembersStored, TypeInv, TablesTypeOK
  <2>2. PICK i \in 1..Len(out[t]) : out[t][i].kind = "delete account" /\ u \in out[t][i].ids
    BY DEF Got
  <2>3. ToldOf(t, i, u)
    BY <2>2 DEF ToldWhom, Whom, ToldOf
  <2> QED BY <2>1, <2>2, <2>3 DEF DeleterInv, GoneForGood
<1> QED BY <1>1, <1>2, <1>3, DeleterInit, Typed, PTL DEF Spec
=============================================================================
