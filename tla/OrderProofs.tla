----------------------------- MODULE OrderProofs ------------------------------
(***************************************************************************)
(* In which order a connection is sent what, for any number of connections    *)
(* and messages: no message after its deletion, and the messages of one        *)
(* sender in a channel in the order in which they were sent.                  *)
(***************************************************************************)
EXTENDS PushProofs

-----------------------------------------------------------------------------
(* Sequences of packets                                                     *)

\* No message after its deletion.
InOrder(w) ==
    \A i, j \in 1..Len(w) : \A m \in w[i].ids : i < j /\ w[i].kind = "deleted" => ~Says(w[j], m)

\* A connection is sent, and has posted, no message after its deletion.
Orderly(t) ==
    InOrder(out[t]) /\ InOrder(queue[t]) /\ Got(t, "deleted") \cap Posted(t, "message") = {}

\* One more packet ...
LEMMA OrderAppend ==
    ASSUME NEW w \in Seq(Packets), NEW packet \in Packets, InOrder(w),
           packet.kind = "message" => packet.ids \cap Ids(w, "deleted") = {}
    PROVE  InOrder(Append(w, packet))
<1> DEFINE v == Append(w, packet)
<1>1. /\ Len(w) \in Nat /\ Len(v) = Len(w) + 1 /\ v[Len(w) + 1] = packet
      /\ \A i \in 1..Len(w) : v[i] = w[i]
  OBVIOUS
<1> HIDE DEF v
<1>2. ASSUME NEW i \in 1..Len(v), NEW j \in 1..Len(v), NEW m \in v[i].ids, i < j,
             v[i].kind = "deleted", Says(v[j], m)
      PROVE  FALSE
  <2>1. i \in 1..Len(w)
    BY <1>1, <1>2
  <2>2. m \in w[i].ids /\ w[i].kind = "deleted"
    BY <1>1, <1>2, <2>1
  <2>3. CASE j \in 1..Len(w)
    BY <1>1, <1>2, <2>1, <2>2, <2>3 DEF InOrder
  <2>4. CASE j = Len(w) + 1
    BY <1>1, <1>2, <2>1, <2>2, <2>4, InIds DEF Says
  <2> QED BY <1>1, <2>3, <2>4
<1> QED BY <1>2 DEF InOrder, v

\* ... or one less.
LEMMA OrderTail ==
    ASSUME NEW w \in Seq(Packets), w # <<>>, InOrder(w)
    PROVE  /\ InOrder(Tail(w))
           /\ Adds(Head(w), "deleted") \cap Ids(Tail(w), "message") = {}
<1> DEFINE v == Tail(w)
<1>1. /\ Len(w) \in Nat /\ Len(w) >= 1 /\ Len(v) = Len(w) - 1 /\ Head(w) = w[1]
      /\ \A i \in 1..Len(v) : v[i] = w[i + 1]
  OBVIOUS
<1> HIDE DEF v
<1>2. ASSUME NEW i \in 1..Len(v), NEW j \in 1..Len(v), NEW m \in v[i].ids, i < j,
             v[i].kind = "deleted", Says(v[j], m)
      PROVE  FALSE
  <2>1. i + 1 \in 1..Len(w) /\ j + 1 \in 1..Len(w) /\ i + 1 < j + 1
    BY <1>1, <1>2
  <2>2. m \in w[i + 1].ids /\ w[i + 1].kind = "deleted" /\ Says(w[j + 1], m)
    BY <1>1, <1>2
  <2> QED BY <2>1, <2>2 DEF InOrder
<1>3. ASSUME NEW m \in Adds(Head(w), "deleted"), m \in Ids(v, "message") PROVE FALSE
  <2>1. PICK j \in 1..Len(v) : v[j].kind = "message" /\ m \in v[j].ids
    BY <1>3, InIds
  <2>2. 1 \in 1..Len(w) /\ j + 1 \in 1..Len(w) /\ 1 < j + 1
    BY <1>1
  <2>3. m \in w[1].ids /\ w[1].kind = "deleted"
    BY <1>1, <1>3 DEF Adds
  <2>4. Says(w[j + 1], m)
    BY <1>1, <2>1 DEF Says
  <2> QED BY <2>2, <2>3, <2>4 DEF InOrder
<1> QED BY <1>2, <1>3 DEF InOrder, v

\* Nothing is in order.
LEMMA OrderEmpty == InOrder(<<>>)
BY DEF InOrder

-----------------------------------------------------------------------------
(* What a step does to the order                                            *)

\* What was sent and posted, by name of the sequence.
LEMMA Named ==
    ASSUME NEW s
    PROVE  \A k : /\ Got(s, k) = Ids(out[s], k) /\ Got(s, k)' = Ids(out'[s], k)
                  /\ Posted(s, k) = Ids(queue[s], k) /\ Posted(s, k)' = Ids(queue'[s], k)
BY DEF Got, Ids, Posted

\* Nothing of interest written or posted.
LEMMA QuietOrder ==
    ASSUME TypeInv, NEW t \in Conn, QuietWires(t), NEW s \in Conn, Orderly(s)
    PROVE  Orderly(s)'
<1>1. out[s] \in Seq(Packets) /\ queue[s] \in Seq(Packets)
      /\ InOrder(out[s]) /\ InOrder(queue[s])
  BY DEF TypeInv, WiresOK, Orderly
<1>2. InOrder(out'[s])
  <2>1. CASE out'[s] = out[s]
    BY <1>1, <2>1
  <2>2. ASSUME NEW packet \in Packets, Dull(packet), out'[s] = Append(out[s], packet)
        PROVE  InOrder(out'[s])
    BY <1>1, <2>2, OrderAppend DEF Dull, Pushes
  <2> QED BY <2>1, <2>2 DEF QuietWires
<1>3. InOrder(queue'[s])
  <2>1. CASE queue'[s] = queue[s]
    BY <1>1, <2>1
  <2>2. ASSUME NEW packet \in Packets, Dull(packet), queue'[s] = Append(queue[s], packet)
        PROVE  InOrder(queue'[s])
    BY <1>1, <2>2, OrderAppend DEF Dull, Pushes
  <2>3. CASE queue'[s] = <<>>
    BY <2>3, OrderEmpty
  <2>4. CASE queue[s] # <<>> /\ queue'[s] = Tail(queue[s])
    BY <1>1, <2>4, OrderTail
  <2> QED BY <2>1, <2>2, <2>3, <2>4 DEF QuietWires
<1>4. /\ Ids(out'[s], "deleted") = Ids(out[s], "deleted")
      /\ Ids(queue'[s], "message") \subseteq Ids(queue[s], "message")
  BY QuietFacts DEF Pushes
<1> QED BY <1>2, <1>3, <1>4, Named DEF Orderly

\* A posted packet passed on.
LEMMA PassesOrder ==
    ASSUME TypeInv, NEW t \in Conn, Passes(t), NEW s \in Conn, Orderly(s)
    PROVE  Orderly(s)'
<1>1. CASE s # t
  BY <1>1, Named DEF Passes, Write, TypeInv, WiresOK, Orderly
<1>2. CASE s = t
  <2>1. PICK w, e, r : w = queue[t] /\ e = Head(w) /\ r = Tail(w)
    OBVIOUS
  <2>2. /\ w \in Seq(Packets) /\ w # <<>> /\ e \in Packets
        /\ out[t] \in Seq(Packets) /\ queue'[t] = r /\ out'[t] = Append(out[t], e)
    <3>1. w \in Seq(Packets) /\ w # <<>>
      BY <2>1 DEF TypeInv, WiresOK, Passes
    <3>2. e \in Packets
      BY <2>1, <3>1
    <3> QED BY <2>1, <3>1, <3>2 DEF TypeInv, WiresOK, Passes, Write
  <2>3. InOrder(out[t]) /\ InOrder(w) /\ Ids(out[t], "deleted") \cap Ids(w, "message") = {}
    BY <1>2, <2>1, Named DEF Orderly
  <2>4. \A k : Ids(w, k) = Adds(e, k) \cup Ids(r, k)
    BY <2>1, <2>2, IdsTail DEF Adds
  <2>5. InOrder(out'[t])
    <3>1. e.kind = "message" => e.ids \subseteq Ids(w, "message")
      BY <2>4 DEF Adds
    <3>2. e.kind = "message" => e.ids \cap Ids(out[t], "deleted") = {}
      BY <2>3, <3>1
    <3> QED BY <2>2, <2>3, <3>2, OrderAppend
  <2>6. InOrder(queue'[t]) /\ Adds(e, "deleted") \cap Ids(r, "message") = {}
    BY <2>1, <2>2, <2>3, OrderTail
  <2>7. Ids(out'[t], "deleted") = Ids(out[t], "deleted") \cup Adds(e, "deleted")
    BY <2>2, IdsAppend DEF Adds
  <2>8. Ids(out'[t], "deleted") \cap Ids(queue'[t], "message") = {}
    BY <2>2, <2>3, <2>4, <2>6, <2>7
  <2> QED BY <1>2, <2>5, <2>6, <2>8, Named DEF Orderly
<1> QED BY <1>1, <1>2

\* An answer that is no deletion, and names no message already deleted.
LEMMA SendsOrder ==
    ASSUME TypeInv, NEW t \in Conn, NEW packet \in Packets, Write(t, packet), UNCHANGED queue,
           packet.kind # "deleted",
           packet.kind = "message" => packet.ids \cap Got(t, "deleted") = {},
           NEW s \in Conn, Orderly(s)
    PROVE  Orderly(s)'
<1>1. CASE s # t
  BY <1>1, Named DEF Write, TypeInv, WiresOK, Orderly
<1>2. CASE s = t
  <2>1. out[t] \in Seq(Packets) /\ out'[t] = Append(out[t], packet)
    BY DEF TypeInv, WiresOK, Write
  <2>2. InOrder(out'[t])
    BY <1>2, <2>1, OrderAppend, GotIds DEF Orderly
  <2>3. Ids(out'[t], "deleted") = Ids(out[t], "deleted")
    <3>1. Ids(Append(out[t], packet), "deleted")
            = Ids(out[t], "deleted") \cup (IF packet.kind = "deleted" THEN packet.ids ELSE {})
      BY <2>1, IdsAppend
    <3> QED BY <2>1, <3>1
  <2> QED BY <1>2, <2>2, <2>3, Named DEF Orderly
<1> QED BY <1>1, <1>2

\* A signal: a message that nobody was told is deleted, or a deletion after which its own
\* connection has no such message to come.
LEMMA EmitsOrder ==
    ASSUME TypeInv, NEW t \in Conn, NEW u, NEW packet \in Packets, Emits(t, u, packet),
           NEW s \in Conn, Orderly(s),
           packet.kind = "message" => packet.ids \cap Reached(s, "deleted") = {},
           packet.kind = "deleted" /\ s = t => packet.ids \cap Posted(t, "message") = {}
    PROVE  Orderly(s)'
<1>1. /\ out[s] \in Seq(Packets) /\ queue[s] \in Seq(Packets)
      /\ InOrder(out[s]) /\ InOrder(queue[s])
      /\ Ids(out[s], "deleted") \cap Ids(queue[s], "message") = {}
  BY Named DEF TypeInv, WiresOK, Orderly
<1>2. /\ out'[s] = IF s = t /\ auth[s] = u THEN Append(out[s], packet) ELSE out[s]
      /\ queue'[s] = IF s # t /\ auth[s] = u THEN Append(queue[s], packet) ELSE queue[s]
  BY DEF Emits, Emit, TypeInv, WiresOK
<1>3. packet.kind = "message" => /\ packet.ids \cap Ids(out[s], "deleted") = {}
                                 /\ packet.ids \cap Ids(queue[s], "deleted") = {}
  BY Named DEF Reached
<1>4. InOrder(Append(out[s], packet)) /\ InOrder(Append(queue[s], packet))
  BY <1>1, <1>3, OrderAppend
<1>5. InOrder(out'[s]) /\ InOrder(queue'[s])
  BY <1>1, <1>2, <1>4
<1>6. /\ Ids(Append(out[s], packet), "deleted") = Ids(out[s], "deleted") \cup Adds(packet, "deleted")
      /\ Ids(Append(queue[s], packet), "message") = Ids(queue[s], "message") \cup Adds(packet, "message")
  BY <1>1, IdsAppend DEF Adds
<1>7. Ids(out'[s], "deleted") \cap Ids(queue'[s], "message") = {}
  <2>1. CASE s = t
    <3>1. packet.kind = "deleted" => packet.ids \cap Ids(queue[s], "message") = {}
      BY <2>1, Named
    <3>2. Adds(packet, "deleted") \cap Ids(queue[s], "message") = {}
      BY <3>1 DEF Adds
    <3> QED BY <1>1, <1>2, <1>6, <2>1, <3>2
  <2>2. CASE s # t
    <3>1. Adds(packet, "message") \cap Ids(out[s], "deleted") = {}
      BY <1>3 DEF Adds
    <3> QED BY <1>1, <1>2, <1>6, <2>2, <3>1
  <2> QED BY <2>1, <2>2
<1> QED BY <1>5, <1>7, Named DEF Orderly

-----------------------------------------------------------------------------
(* No message after its deletion                                            *)

\* Where a handler works on a message of its user, and where it still makes it known.
Acting == Holding \cup {"append"}

Sending == {"append", "send notify"}

OwnWork == \A t \in Conn : frame[t].at \in Acting => senderOf[frame[t].mid] = auth[t]

Signed == \A m \in Mid : channelOf[m] # Nil => senderOf[m] \in Uid

\* A message of somebody else.
Foreign(t, m) == m \in Mid /\ channelOf[m] # Nil /\ senderOf[m] # auth[t]

AllForeign == \A t \in Conn : \A m \in Posted(t, "message") : Foreign(t, m)

\* A message that is gone, and that nobody is going to make known.
Final(m) ==
    /\ m \in Mid /\ channelOf[m] # Nil /\ m \notin messages
    /\ \A s \in Conn : frame[s].at \in Sending => frame[s].mid # m

AllFinal == \A t \in Conn : \A m \in Reached(t, "deleted") : Final(m)

\* While no account is deleted, a login begins where none was answered before.
Undeleted ==
    \A t \in Conn : \A i \in 1..Len(out[t]) :
        out[t][i].kind = "delete account" => out[t][i].ids = {}

LoginOnce == \A t \in Conn : frame[t].at = "login user" => ~Welcomed(t)

OnceInv == Undeleted /\ LoginOnce

GhostInv ==
    /\ OwnWork /\ Signed /\ AllForeign /\ AllFinal
    /\ \A t \in Conn : Orderly(t)

\* Every account has at most one connection.
OneEach == \A s, t \in Conn : auth[s] = auth[t] /\ auth[s] # Nil => s = t

\* A handler that returns is in its event loop.
LEMMA Returned ==
    ASSUME NEW t \in Conn, frame \in [Conn -> Frames], \E posted : Return(t, posted)
    PROVE  frame'[t].at \in {"idle", "sweep"}
BY DEF Return, Idle

\* A login looks for its user where none was answered before, and writes nothing yet.
LEMMA LoginBegins ==
    ASSUME TypeInv, NEW t \in Conn, Ask(t) \/ Continue(t), frame'[t].at = "login user"
    PROVE  UNCHANGED out /\ (frame[t].at = "login user" \/ ~LoggedIn(t))
<1>a. frame \in [Conn -> Frames] /\ frame[t] \in Frames
  BY DEF TypeInv, FramesOK
<1> DEFINE Begun == UNCHANGED out /\ (frame[t].at = "login user" \/ ~LoggedIn(t))
<1>1. ASSUME NEW n \in Name, NEW p \in Password, Register(t, n, p) PROVE FALSE
  <2>1. CASE UNCHANGED frame
    BY <1>1, <2>1 DEF Register, Request
  <2>2. ASSUME NEW u, frame' = [frame EXCEPT ![t].at = "add password", ![t].uid = u,
                                             ![t].password = p]
        PROVE  FALSE
    BY <1>a, <2>2 DEF Frames
  <2> QED BY <1>1, <2>1, <2>2 DEF Register
<1>2. ASSUME NEW n \in Name, NEW p \in Password, Login(t, n, p) PROVE Begun
  <2>1. CASE UNCHANGED frame
    BY <1>2, <2>1 DEF Login, Request
  <2>2. CASE ~UNCHANGED frame
    BY <1>2, <2>2 DEF Login
  <2> QED BY <2>1, <2>2
<1>3. ASSUME NEW n \in Name, NEW p \in Password, DeleteAccount(t, n, p) PROVE FALSE
  <2>1. CASE UNCHANGED frame
    BY <1>3, <2>1 DEF DeleteAccount, Request
  <2>2. ASSUME NEW u, frame' = [frame EXCEPT ![t].at = "delete user", ![t].uid = u]
        PROVE  FALSE
    BY <1>a, <2>2 DEF Frames
  <2> QED BY <1>3, <2>1, <2>2 DEF DeleteAccount
<1>4. ASSUME NEW m, DeleteMessage(t, m) PROVE FALSE
  <2>1. CASE UNCHANGED frame
    BY <1>4, <2>1 DEF DeleteMessage, Request
  <2>2. CASE frame' = [frame EXCEPT ![t].at = "remove text", ![t].cid = channelOf[m],
                                    ![t].mid = m]
    BY <1>a, <2>2 DEF Frames
  <2> QED BY <1>4, <2>1, <2>2 DEF DeleteMessage
<1>5. ASSUME NEW regex, ListAccounts(t, regex) PROVE FALSE
  <2>1. CASE UNCHANGED frame
    BY <1>5, <2>1 DEF ListAccounts, Request
  <2>2. ASSUME NEW us, frame' = [frame EXCEPT ![t].at = "list", ![t].todo = us] PROVE FALSE
    BY <1>a, <2>2 DEF Frames
  <2> QED BY <1>5, <2>1, <2>2 DEF ListAccounts
<1>6. ASSUME NEW other, CreateChannel(t, other) PROVE FALSE
  BY <1>a, <1>6 DEF CreateChannel, Loop, Frames
<1>7. ASSUME NEW c, SendMessage(t, c) PROVE FALSE
  BY <1>a, <1>7 DEF SendMessage, Frames
<1>8. CASE Accept(t)
  BY <1>8 DEF Accept
<1>9. CASE Disconnect(t)
  BY <1>a, <1>9 DEF Disconnect, Goto, Frames
<1>10. CASE LoginUser(t)
  <2>1. CASE frame[t].uid \notin users
    BY <1>10, <2>1 DEF LoginUser, At
  <2>2. CASE frame[t].uid \in users
    <3> DEFINE f == Loop([frame[t] EXCEPT !.at = "login channels"], "channels",
                         chansOf[frame[t].uid])
    <3>1. f.at = "login channels"
      BY <1>a DEF Loop, Frames
    <3>2. frame'[t] = f
      BY <1>a, <1>10, <2>2 DEF LoginUser
    <3> QED BY <3>1, <3>2
  <2> QED BY <2>1, <2>2
<1>11. CASE \/ RegisterUser(t) \/ LoginFinished(t) \/ ListFinished(t) \/ CreateFinished(t)
            \/ Unlist(t) \/ DisconnectFinished(t) \/ QuitThread(t) \/ Dispatch(t)
            \/ DeleteAccountFinished(t)
  <2>1. \E posted : Return(t, posted)
    BY <1>11
    DEF RegisterUser, LoginFinished, ListFinished, CreateFinished, Unlist, DisconnectFinished,
        QuitThread, Dispatch, DeleteAccountFinished, Done
  <2> QED BY <1>a, <2>1, Returned
<1>12. CASE \/ RegisterPassword(t) \/ LoginChannelReplayed(t) \/ DeleteChannelFinished(t)
  BY <1>a, <1>12
  DEF RegisterPassword, LoginChannelReplayed, DeleteChannelFinished, Goto, Frames
<1>22. CASE ListAccount(t)
  BY <1>a, <1>22 DEF ListAccount, At, Frames
<1>23. CASE DeleteFindMessage(t)
  <2>1. Advance(frame[t], "messages").at = frame[t].at /\ frame[t].at = "delete messages"
    BY <1>a, <1>23 DEF Advance, Frames, DeleteFindMessage, At
  <2>2. \/ frame'[t] = Advance(frame[t], "messages")
        \/ \E m : frame' = [frame EXCEPT ![t].at = "delete text", ![t].mid = m]
    BY <1>a, <1>23 DEF DeleteFindMessage
  <2>3. CASE frame'[t] = Advance(frame[t], "messages")
    BY <2>1, <2>3
  <2>4. ASSUME NEW m, frame' = [frame EXCEPT ![t].at = "delete text", ![t].mid = m] PROVE FALSE
    BY <1>a, <2>4 DEF Frames
  <2> QED BY <2>2, <2>3, <2>4
<1>24. CASE RemoveText(t)
  <2> DEFINE f == Loop([frame[t] EXCEPT !.at = "remove notify"], "members",
                       membersOf[frame[t].cid])
  <2>1. f.at = "remove notify"
    BY <1>a DEF Loop, Frames
  <2>2. frame'[t] = f
    BY <1>a, <1>24 DEF RemoveText
  <2> QED BY <2>1, <2>2
<1>13. CASE LoginChannel(t) \/ DeleteFromChannel(t)
  <2>1. frame[t].at \in {"login channels", "delete channels"}
    BY <1>13 DEF LoginChannel, DeleteFromChannel, At
  <2>2. \/ frame'[t] = Advance(frame[t], "channels")
        \/ \E c : frame'[t] = Replay(frame[t], c) \/ frame'[t] = Sweep(frame[t], c)
    BY <1>a, <1>13 DEF LoginChannel, DeleteFromChannel, Replay, Sweep
  <2>3. \A c : Replay(frame[t], c).at = "login messages" /\ Sweep(frame[t], c).at = "delete messages"
    BY <1>a DEF Replay, Sweep, Loop, Advance, Frames
  <2>4. Advance(frame[t], "channels").at = frame[t].at
    BY <1>a DEF Advance, Frames
  <2> QED BY <2>1, <2>2, <2>3, <2>4
<1>14. CASE LoginMessage(t)
  <2>1. Advance(frame[t], "messages").at = frame[t].at
    BY <1>a DEF Advance, Frames
  <2> QED BY <1>a, <1>14, <2>1 DEF LoginMessage, At
<1>15. CASE SendNotify(t) \/ RemoveNotify(t) \/ DeleteNotify(t)
  <2>1. frame[t].at \in {"send notify", "remove notify", "delete notify"}
    BY <1>15 DEF SendNotify, RemoveNotify, DeleteNotify, At
  <2>2. \/ frame'[t] = Advance(frame[t], "members")
        \/ Done(t) \/ Goto(t, "unlist") \/ Goto(t, "delete messages")
    BY <1>a, <1>15 DEF SendNotify, RemoveNotify, DeleteNotify, NotifyMember
  <2>3. Advance(frame[t], "members").at = frame[t].at
    BY <1>a DEF Advance, Frames
  <2>4. Done(t) => frame'[t].at \in {"idle", "sweep"}
    BY <1>a, Returned DEF Done
  <2>5. \A place : Goto(t, place) => frame'[t].at = place
    BY <1>a DEF Goto, Frames
  <2> QED BY <2>1, <2>2, <2>3, <2>4, <2>5
<1>16. CASE DeleteUser(t)
  <2>1. CASE frame[t].uid \notin users
    BY <1>a, <1>16, <2>1 DEF DeleteUser, Done, Return, Idle
  <2>2. CASE frame[t].uid \in users
    <3> DEFINE f == Loop([frame[t] EXCEPT !.at = "delete channels"], "channels",
                         chansOf[frame[t].uid])
    <3>1. f.at = "delete channels"
      BY <1>a DEF Loop, Frames
    <3>2. frame'[t] = f
      BY <1>a, <1>16, <2>2 DEF DeleteUser
    <3> QED BY <3>1, <3>2
  <2> QED BY <2>1, <2>2
<1>17. CASE DeleteListedMessage(t)
  <2> DEFINE f == Loop(Advance([frame[t] EXCEPT !.at = "delete notify"], "messages"), "members",
                       membersOf[frame[t].cid])
  <2>1. f.at = "delete notify"
    BY <1>a DEF Loop, Advance, Frames
  <2>2. frame'[t] = f
    BY <1>a, <1>17 DEF DeleteListedMessage
  <2> QED BY <2>1, <2>2
<1>18. CASE CreateMember(t)
  <2> DEFINE u == membersOf[frame[t].cid].cells[frame[t].pos["members"]]
             f == [frame[t] EXCEPT !.at = "create announce", !.uid = u]
             h == Advance(frame[t], "members")
  <2>1. f.at = "create announce" /\ h.at = frame[t].at /\ frame[t].at = "create members"
    BY <1>a, <1>18 DEF Advance, Frames, CreateMember, At
  <2>2. frame'[t] = f \/ frame'[t] = h
    BY <1>a, <1>18 DEF CreateMember, Pushed
  <2> HIDE DEF f, h
  <2> QED BY <2>1, <2>2
<1>19. CASE CreateAnnounce(t)
  <2> DEFINE f == Advance([frame[t] EXCEPT !.at = "create members"], "members")
  <2>1. f.at = "create members"
    BY <1>a DEF Advance, Frames
  <2>2. frame'[t] = f
    BY <1>a, <1>19 DEF CreateAnnounce
  <2> QED BY <2>1, <2>2
<1>20. CASE AppendMessage(t)
  <2> DEFINE f == Loop([frame[t] EXCEPT !.at = "send notify"], "members", membersOf[frame[t].cid])
  <2>1. f.at = "send notify"
    BY <1>a DEF Loop, Frames
  <2>2. frame'[t] = f
    BY <1>20 DEF AppendMessage, Pushed
  <2> QED BY <2>1, <2>2
<1> HIDE DEF Begun
<1>21. CASE Ask(t)
  BY <1>1, <1>2, <1>3, <1>4, <1>5, <1>6, <1>7, <1>8, <1>9, <1>21 DEF Ask, Begun
<1>25. CASE Continue(t)
  BY <1>10, <1>11, <1>12, <1>13, <1>14, <1>15, <1>16, <1>17, <1>18, <1>19, <1>20, <1>22, <1>23,
     <1>24, <1>25 DEF Continue, Begun
<1> QED BY <1>21, <1>25

\* At first nobody is logged in.
LEMMA OnceInit == Init => OnceInv
<1> SUFFICES ASSUME Init PROVE OnceInv
  OBVIOUS
<1>1. \A t \in Conn : out[t] = <<>> /\ frame[t].at = "idle"
  BY DEF Init, Idle
<1>2. \A t \in Conn : 1..Len(out[t]) = {}
  BY <1>1
<1> QED BY <1>1, <1>2 DEF OnceInv, Undeleted, LoginOnce

\* Every step, while no account is deleted.
LEMMA OnceNext ==
    ASSUME TypeInv, Deleting = {}, OnceInv, [Next]_vars
    PROVE  OnceInv'
<1>1. ASSUME NEW t \in Conn, Ask(t) \/ Continue(t) PROVE OnceInv'
  <2>1. NoneTold(t)
    <3>1. ~DeleteAccountFinished(t)
      BY DEF DeleteAccountFinished, At, Deleting
    <3> QED BY <1>1, <3>1, AskTells, ContinueTells
  <2>2. Undeleted' /\ \A s \in Conn \ {t} : out'[s] = out[s]
    <3>1. CASE UNCHANGED out
      BY <3>1 DEF OnceInv, Undeleted
    <3>2. ASSUME NEW packet, Write(t, packet), packet.kind = "delete account" => packet.ids = {}
          PROVE  Undeleted' /\ \A s \in Conn \ {t} : out'[s] = out[s]
      <4>1. /\ \A s \in Conn \ {t} : out'[s] = out[s]
            /\ Len(out[t]) \in Nat /\ Len(out'[t]) = Len(out[t]) + 1
            /\ \A i \in 1..Len(out[t]) : out'[t][i] = out[t][i]
            /\ out'[t][Len(out[t]) + 1] = packet
        BY <3>2, AppendParts
      <4>2. ASSUME NEW i \in 1..Len(out'[t]), out'[t][i].kind = "delete account"
            PROVE  out'[t][i].ids = {}
        <5>1. i \in 1..Len(out[t]) \/ i = Len(out[t]) + 1
          BY <4>1
        <5>2. CASE i \in 1..Len(out[t])
          BY <4>1, <4>2, <5>2 DEF OnceInv, Undeleted
        <5>3. CASE i = Len(out[t]) + 1
          BY <3>2, <4>1, <4>2, <5>3
        <5> QED BY <5>1, <5>2, <5>3
      <4>3. ASSUME NEW s \in Conn, NEW i \in 1..Len(out'[s]), out'[s][i].kind = "delete account"
            PROVE  out'[s][i].ids = {}
        <5>1. CASE s = t
          BY <4>2, <4>3, <5>1
        <5>2. CASE s # t
          BY <4>1, <4>3, <5>2 DEF OnceInv, Undeleted
        <5> QED BY <5>1, <5>2
      <4> QED BY <4>1, <4>3 DEF Undeleted
    <3> QED BY <2>1, <3>1, <3>2 DEF NoneTold
  <2>3. ASSUME NEW s \in Conn, frame'[s].at = "login user" PROVE ~Welcomed(s)'
    <3>1. CASE s # t
      <4>1. frame[s].at = "login user"
        BY <1>1, <2>3, <3>1, OtherThreads DEF Others, Still
      <4> QED BY <2>2, <3>1, <4>1 DEF OnceInv, LoginOnce, Welcomed
    <3>2. CASE s = t
      <4>1. UNCHANGED out /\ (frame[t].at = "login user" \/ ~LoggedIn(t))
        BY <1>1, <2>3, <3>2, LoginBegins
      <4>2. ~Welcomed(t)
        <5>1. CASE frame[t].at = "login user"
          BY <5>1 DEF OnceInv, LoginOnce
        <5>2. CASE ~LoggedIn(t)
          <6> SUFFICES ASSUME NEW i \in 1..Len(out[t]), Welcome(out[t][i]) PROVE LoggedIn(t)
            BY <5>2 DEF Welcomed
          <6>1. Len(out[t]) \in Nat
            BY DEF TypeInv, WiresOK
          <6>2. \A j \in i..Len(out[t]) : j \in 1..Len(out[t])
            BY <6>1
          <6> QED BY <6>2 DEF OnceInv, Undeleted, LoggedIn, Welcome
        <5> QED BY <4>1, <5>1, <5>2
      <4> QED BY <3>2, <4>1, <4>2 DEF Welcomed
    <3> QED BY <3>1, <3>2
  <2> QED BY <2>2, <2>3 DEF OnceInv, LoginOnce
<1>2. CASE UNCHANGED vars
  BY <1>2 DEF vars, threads, OnceInv, Undeleted, LoginOnce, Welcomed
<1> QED BY <1>1, <1>2 DEF Next, Rest

\* A step that is not the making of a message: who works on a message goes on with it, or
\* begins with one of its own, and what is made known was on its way before.
Steady(t) ==
    /\ UNCHANGED <<senderOf, channelOf>> /\ messages' \subseteq messages
    /\ frame'[t].at \in Acting =>
          \/ frame[t].at \in Acting /\ frame'[t].mid = frame[t].mid /\ auth'[t] = auth[t]
          \/ senderOf[frame'[t].mid] = auth'[t]
    /\ frame'[t].at \in Sending => frame[t].at \in Sending /\ frame'[t].mid = frame[t].mid

\* Steps about accounts, lists and connections are of that kind.
LEMMA PlainSteady ==
    ASSUME TypeInv, NEW t \in Conn, Plain(t)
    PROVE  Steady(t)
<1>1. UNCHANGED texts
  BY DEF Plain
<1>2. CASE UNCHANGED <<frame, auth>>
  BY <1>1, <1>2 DEF Steady, texts
<1>3. CASE frame'[t].at \notin Busy
  BY <1>1, <1>3 DEF Steady, texts, Acting, Holding, Sending, Busy
<1> QED BY <1>2, <1>3 DEF Plain

\* So is one that leaves the handler where it works on no message.
LEMMA IdlySteady ==
    ASSUME NEW t \in Conn, UNCHANGED texts, frame'[t].at \notin Acting
    PROVE  Steady(t)
BY DEF Steady, texts, Acting, Sending, Holding

\* Every step but the making of a message.
LEMMA SteadySteps ==
    ASSUME TypeInv, NEW t \in Conn, Ask(t) \/ Continue(t), \A c \in Cid : ~SendMessage(t, c)
    PROVE  Steady(t)
<1>a. frame \in [Conn -> Frames] /\ frame[t] \in Frames
  BY DEF TypeInv, FramesOK
<1> USE DEF Acting, Holding, Sending
<1>1. CASE \/ \E n \in Name, p \in Password : Register(t, n, p) \/ Login(t, n, p) \/ DeleteAccount(t, n, p)
           \/ \E regex \in (SUBSET Name) \cup {Nil} : ListAccounts(t, regex)
           \/ Accept(t) \/ Disconnect(t) \/ DisconnectFinished(t) \/ QuitThread(t)
           \/ RegisterPassword(t) \/ RegisterUser(t) \/ ListAccount(t) \/ ListFinished(t)
           \/ DeleteUser(t)
  BY <1>1, PlainStep, PlainSteady
<1>2. ASSUME NEW m \in Mid, DeleteMessage(t, m) PROVE Steady(t)
  <2>1. UNCHANGED texts /\ UNCHANGED auth /\ senderOf[m] = auth[t] /\ frame[t].at = "idle"
    BY <1>2 DEF DeleteMessage, Request, tables
  <2>2. CASE UNCHANGED frame
    BY <2>1, <2>2, IdlySteady
  <2>3. CASE frame' = [frame EXCEPT ![t].at = "remove text", ![t].cid = channelOf[m],
                                    ![t].mid = m]
    <3>1. frame'[t].at = "remove text" /\ frame'[t].mid = m
      BY <1>a, <2>3 DEF Frames
    <3> QED BY <2>1, <3>1 DEF Steady, texts
  <2> QED BY <1>2, <2>2, <2>3 DEF DeleteMessage
<1>3. ASSUME NEW other \in Announced, CreateChannel(t, other) PROVE Steady(t)
  <2>1. PICK c, v : frame' = [frame EXCEPT ![t] =
                 Loop([@ EXCEPT !.at = "create members", !.cid = c], "members", v)]
    BY <1>3 DEF CreateChannel
  <2> DEFINE f == Loop([frame[t] EXCEPT !.at = "create members", !.cid = c], "members", v)
  <2>2. f.at = "create members"
    BY <1>a DEF Loop, Frames
  <2>3. frame'[t] = f
    BY <1>a, <2>1
  <2> HIDE DEF f
  <2> QED BY <1>3, <2>2, <2>3, IdlySteady DEF CreateChannel
<1>4. CASE LoginUser(t)
  <2> DEFINE f == Loop([frame[t] EXCEPT !.at = "login channels"], "channels", chansOf[frame[t].uid])
  <2>1. f.at = "login channels"
    BY <1>a DEF Loop, Frames
  <2>2. frame'[t] = f \/ UNCHANGED frame
    BY <1>a, <1>4 DEF LoginUser
  <2> HIDE DEF f
  <2> QED BY <1>4, <2>1, <2>2, IdlySteady DEF LoginUser, At, tables
<1>5. CASE LoginChannel(t) \/ DeleteFromChannel(t)
  <2>1. frame[t].at \in {"login channels", "delete channels"} /\ UNCHANGED texts
    BY <1>5 DEF LoginChannel, DeleteFromChannel, At, tables
  <2>2. \/ frame'[t] = Advance(frame[t], "channels")
        \/ \E c : frame'[t] = Replay(frame[t], c) \/ frame'[t] = Sweep(frame[t], c)
    BY <1>a, <1>5 DEF LoginChannel, DeleteFromChannel, Replay, Sweep
  <2>3. \A c : Replay(frame[t], c).at = "login messages" /\ Sweep(frame[t], c).at = "delete messages"
    BY <1>a DEF Replay, Sweep, Loop, Advance, Frames
  <2>4. Advance(frame[t], "channels").at = frame[t].at
    BY <1>a DEF Advance, Frames
  <2> QED BY <2>1, <2>2, <2>3, <2>4, IdlySteady
<1>6. CASE LoginMessage(t)
  <2>1. Advance(frame[t], "messages").at = frame[t].at
    BY <1>a DEF Advance, Frames
  <2> QED BY <1>a, <1>6, <2>1, IdlySteady DEF LoginMessage, At, tables
<1>7. CASE LoginChannelReplayed(t) \/ DeleteChannelFinished(t)
  <2>1. Goto(t, "login channels") \/ Goto(t, "delete channels")
    BY <1>7 DEF LoginChannelReplayed, DeleteChannelFinished
  <2>2. frame'[t].at \in {"login channels", "delete channels"}
    <3>1. \A place : Goto(t, place) => frame'[t].at = place
      BY <1>a DEF Goto, Frames
    <3> QED BY <2>1, <3>1
  <2>3. UNCHANGED texts
    BY <1>7 DEF LoginChannelReplayed, DeleteChannelFinished, tables
  <2> QED BY <2>2, <2>3, IdlySteady
<1>8. CASE \/ LoginFinished(t) \/ CreateFinished(t) \/ Dispatch(t) \/ DeleteAccountFinished(t)
  <2>1. \E posted : Return(t, posted)
    BY <1>8 DEF LoginFinished, CreateFinished, Dispatch, DeleteAccountFinished, Done
  <2>2. frame'[t].at \in {"idle", "sweep"}
    BY <1>a, <2>1, Returned
  <2>3. UNCHANGED texts
    BY <1>8 DEF LoginFinished, CreateFinished, Dispatch, DeleteAccountFinished, tables
  <2> QED BY <2>2, <2>3, IdlySteady
<1>9. CASE DeleteFindMessage(t)
  <2>1. Advance(frame[t], "messages").at = frame[t].at /\ frame[t].at = "delete messages"
        /\ UNCHANGED texts
    BY <1>a, <1>9 DEF Advance, Frames, DeleteFindMessage, At, tables
  <2>2. \/ frame'[t] = Advance(frame[t], "messages")
        \/ \E m : frame' = [frame EXCEPT ![t].at = "delete text", ![t].mid = m]
    BY <1>a, <1>9 DEF DeleteFindMessage
  <2>3. ASSUME NEW m, frame' = [frame EXCEPT ![t].at = "delete text", ![t].mid = m]
        PROVE  frame'[t].at = "delete text"
    BY <1>a, <2>3 DEF Frames
  <2> QED BY <2>1, <2>2, <2>3, IdlySteady
<1>10. CASE DeleteListedMessage(t)
  <2> DEFINE f == Loop(Advance([frame[t] EXCEPT !.at = "delete notify"], "messages"), "members",
                       membersOf[frame[t].cid])
  <2>1. f.at = "delete notify"
    BY <1>a DEF Loop, Advance, Frames
  <2>2. frame'[t] = f /\ UNCHANGED texts
    BY <1>a, <1>10 DEF DeleteListedMessage
  <2> HIDE DEF f
  <2> QED BY <2>1, <2>2, IdlySteady
<1>11. CASE DeleteNotify(t)
  <2>1. Advance(frame[t], "members").at = frame[t].at /\ frame[t].at = "delete notify"
        /\ UNCHANGED texts
    BY <1>a, <1>11 DEF Advance, Frames, DeleteNotify, At, tables
  <2>2. frame'[t] = Advance(frame[t], "members") \/ Goto(t, "delete messages")
    BY <1>a, <1>11 DEF DeleteNotify, NotifyMember
  <2>3. Goto(t, "delete messages") => frame'[t].at = "delete messages"
    BY <1>a DEF Goto, Frames
  <2> QED BY <2>1, <2>2, <2>3, IdlySteady
<1>12. CASE CreateMember(t)
  <2> DEFINE u == membersOf[frame[t].cid].cells[frame[t].pos["members"]]
             f == [frame[t] EXCEPT !.at = "create announce", !.uid = u]
             h == Advance(frame[t], "members")
  <2>1. f.at = "create announce" /\ h.at = frame[t].at /\ frame[t].at = "create members"
        /\ UNCHANGED texts
    BY <1>a, <1>12 DEF Advance, Frames, CreateMember, At
  <2>2. frame'[t] = f \/ frame'[t] = h
    BY <1>a, <1>12 DEF CreateMember, Pushed
  <2> HIDE DEF f, h
  <2> QED BY <2>1, <2>2, IdlySteady
<1>13. CASE CreateAnnounce(t)
  <2> DEFINE f == Advance([frame[t] EXCEPT !.at = "create members"], "members")
  <2>1. f.at = "create members"
    BY <1>a DEF Advance, Frames
  <2>2. frame'[t] = f /\ UNCHANGED texts
    BY <1>a, <1>13 DEF CreateAnnounce, tables
  <2> HIDE DEF f
  <2> QED BY <2>1, <2>2, IdlySteady
<1>14. CASE AppendMessage(t)
  <2> DEFINE f == Loop([frame[t] EXCEPT !.at = "send notify"], "members", membersOf[frame[t].cid])
  <2>1. f.at = "send notify" /\ f.mid = frame[t].mid
    BY <1>a DEF Loop, Frames
  <2>2. frame'[t] = f /\ UNCHANGED <<texts, auth>> /\ frame[t].at = "append"
    BY <1>14 DEF AppendMessage, Pushed, At
  <2> HIDE DEF f
  <2> QED BY <2>1, <2>2 DEF Steady, texts
<1>15. CASE SendNotify(t) \/ RemoveNotify(t)
  <2>1. /\ frame[t].at \in {"send notify", "remove notify"}
        /\ Advance(frame[t], "members").at = frame[t].at
        /\ Advance(frame[t], "members").mid = frame[t].mid
        /\ UNCHANGED <<texts, auth>>
    BY <1>a, <1>15 DEF Advance, Frames, SendNotify, RemoveNotify, At, tables
  <2>2. frame'[t] = Advance(frame[t], "members") \/ Done(t)
        \/ (Goto(t, "unlist") /\ frame[t].at = "remove notify")
    BY <1>a, <1>15 DEF SendNotify, RemoveNotify, NotifyMember, At
  <2>3. Done(t) => frame'[t].at \in {"idle", "sweep"}
    BY <1>a DEF Done, Return, Idle
  <2>4. Goto(t, "unlist") => frame'[t].at = "unlist" /\ frame'[t].mid = frame[t].mid
    BY <1>a DEF Goto, Frames
  <2> QED BY <2>1, <2>2, <2>3, <2>4 DEF Steady, texts
<1>16. CASE RemoveText(t)
  <2> DEFINE f == Loop([frame[t] EXCEPT !.at = "remove notify"], "members",
                       membersOf[frame[t].cid])
  <2>1. f.at = "remove notify" /\ f.mid = frame[t].mid
    BY <1>a DEF Loop, Frames
  <2>2. frame'[t] = f /\ frame[t].at = "remove text" /\ UNCHANGED <<senderOf, channelOf, auth>>
        /\ messages' \subseteq messages
    BY <1>a, <1>16 DEF RemoveText, At, RemoveMessage
  <2> HIDE DEF f
  <2> QED BY <2>1, <2>2 DEF Steady
<1>17. CASE Unlist(t)
  BY <1>a, <1>17, IdlySteady DEF Unlist, Done, Return, Idle
<1>18. CASE Ask(t)
  BY <1>1, <1>2, <1>3, <1>18 DEF Ask
<1>19. CASE Continue(t)
  BY <1>1, <1>4, <1>5, <1>6, <1>7, <1>8, <1>9, <1>10, <1>11, <1>12, <1>13, <1>14, <1>15, <1>16,
     <1>17, <1>19 DEF Continue
<1> QED BY <1>18, <1>19

\* What is posted by a signal.
LEMMA EmitsPosted ==
    ASSUME TypeInv, NEW t \in Conn, NEW u, NEW packet \in Packets, Emits(t, u, packet),
           NEW s \in Conn, NEW k
    PROVE  Posted(s, k)' \subseteq Posted(s, k) \cup (IF s # t /\ auth[s] = u THEN Adds(packet, k)
                                                      ELSE {})
<1>1. queue[s] \in Seq(Packets)
  BY DEF TypeInv, WiresOK
<1>2. queue'[s] = IF s # t /\ auth[s] = u THEN Append(queue[s], packet) ELSE queue[s]
  BY DEF Emits, Emit
<1>3. Ids(Append(queue[s], packet), k) = Ids(queue[s], k) \cup Adds(packet, k)
  BY <1>1, IdsAppend DEF Adds
<1> QED BY <1>2, <1>3, Named

\* A message that is gone stays so.
LEMMA FinalStays ==
    ASSUME NEW t \in Conn, Steady(t), Others(t), NEW m, Final(m)
    PROVE  Final(m)'
<1>1. ASSUME NEW s \in Conn, frame'[s].at \in Sending PROVE frame'[s].mid # m
  <2>1. frame[s].at \in Sending /\ frame'[s].mid = frame[s].mid
    BY <1>1 DEF Steady, Others, Still
  <2> QED BY <2>1 DEF Final
<1> QED BY <1>1 DEF Final, Steady

\* One step that is not the making of a message.
LEMMA GhostKept ==
    ASSUME TypeInv, GhostInv, NEW t \in Conn, Steady(t), Others(t),
           \A s \in Conn \ {t} : auth'[s] = auth[s],
           \A s \in Conn : \A m \in Posted(s, "message")' :
               (m \in Posted(s, "message") \/ Foreign(s, m)) /\ auth'[s] \in {auth[s], Nil},
           \A s \in Conn : \A m \in Reached(s, "deleted")' :
               m \in Reached(s, "deleted") \/ Final(m),
           \A s \in Conn : Orderly(s)'
    PROVE  GhostInv'
<1>1. OwnWork'
  <2> SUFFICES ASSUME NEW s \in Conn, frame'[s].at \in Acting
               PROVE  senderOf'[frame'[s].mid] = auth'[s]
    BY DEF OwnWork
  <2>1. CASE s # t
    <3>1. frame[s].at \in Acting /\ frame'[s].mid = frame[s].mid
      BY <2>1 DEF Others, Still
    <3> QED BY <2>1, <3>1 DEF Steady, GhostInv, OwnWork
  <2>2. CASE s = t
    BY <2>2 DEF Steady, GhostInv, OwnWork
  <2> QED BY <2>1, <2>2
<1>2. Signed'
  BY DEF Steady, GhostInv, Signed
<1>3. AllForeign'
  <2> SUFFICES ASSUME NEW s \in Conn, NEW m \in Posted(s, "message")'
               PROVE  Foreign(s, m)'
    BY DEF AllForeign
  <2>1. Foreign(s, m) /\ auth'[s] \in {auth[s], Nil}
    BY DEF GhostInv, AllForeign
  <2>2. senderOf[m] # Nil
    BY <2>1, NilAssumption DEF Foreign, GhostInv, Signed
  <2> QED BY <2>1, <2>2 DEF Foreign, Steady
<1>4. AllFinal'
  BY FinalStays DEF GhostInv, AllFinal
<1> QED BY <1>1, <1>2, <1>3, <1>4 DEF GhostInv

\* A message is made: nobody knew of it.
LEMMA SendMessageGhost ==
    ASSUME TypeInv, Carried, GhostInv, NEW t \in Conn, NEW c \in Cid, SendMessage(t, c), Others(t)
    PROVE  GhostInv'
<1>0. PICK x \in FreeMids :
          AddMessage(x, auth[t], c) /\
          frame' = [frame EXCEPT ![t].at = "append", ![t].cid = c, ![t].mid = x]
  BY DEF SendMessage, NextSnowflake
<1>1. /\ x \in Mid /\ channelOf[x] = Nil /\ c # Nil /\ auth[t] \in Uid
      /\ senderOf' = [senderOf EXCEPT ![x] = auth[t]]
      /\ channelOf' = [channelOf EXCEPT ![x] = c]
      /\ messages' = messages \cup {x}
      /\ UNCHANGED <<auth, queue, out>>
      /\ frame'[t].at = "append" /\ frame'[t].mid = x
  <2>1. auth[t] \in Uid
    BY LoggedInUser DEF SendMessage, Request, TypeInv
  <2>2. frame'[t].at = "append" /\ frame'[t].mid = x
    BY <1>0 DEF TypeInv, FramesOK, Frames
  <2> QED BY <1>0, <2>1, <2>2, NilAssumption DEF SendMessage, AddMessage, FreeMids
<1>2. /\ senderOf'[x] = auth[t] /\ channelOf'[x] = c
      /\ \A m \in Mid \ {x} : senderOf'[m] = senderOf[m] /\ channelOf'[m] = channelOf[m]
  BY <1>1 DEF TypeInv, TablesTypeOK
<1>3. ASSUME NEW s \in Conn \ {t}, frame'[s].at \in Acting
      PROVE  frame[s].at \in Acting /\ frame'[s].mid = frame[s].mid /\ frame[s].mid \in Mid \ {x}
  <2>1. frame[s].at \in Acting /\ frame'[s].mid = frame[s].mid
    BY <1>3 DEF Others, Still
  <2>2. frame[s].mid \in Mid /\ frame[s].cid \in Cid
    BY <2>1 DEF Acting, Holding, TypeInv, FramesOK, Whole, HasMid, HasCid
  <2>3. channelOf[frame[s].mid] = frame[s].cid
    BY <2>1 DEF Acting, Carried
  <2> QED BY <1>1, <2>1, <2>2, <2>3, NilAssumption
<1>4. OwnWork'
  <2> SUFFICES ASSUME NEW s \in Conn, frame'[s].at \in Acting
               PROVE  senderOf'[frame'[s].mid] = auth'[s]
    BY DEF OwnWork
  <2>1. CASE s # t
    BY <1>1, <1>2, <1>3, <2>1 DEF GhostInv, OwnWork
  <2>2. CASE s = t
    BY <1>1, <1>2, <2>2
  <2> QED BY <2>1, <2>2
<1>5. Signed'
  BY <1>1, <1>2 DEF GhostInv, Signed
<1>6. \A s \in Conn : \A k : Posted(s, k)' = Posted(s, k) /\ Reached(s, k)' = Reached(s, k)
  BY <1>1, ReachedSame DEF Posted
<1>7. AllForeign'
  <2> SUFFICES ASSUME NEW s \in Conn, NEW m \in Posted(s, "message")
               PROVE  Foreign(s, m)'
    BY <1>6 DEF AllForeign
  <2>1. Foreign(s, m) /\ m # x
    BY <1>1 DEF GhostInv, AllForeign, Foreign
  <2> QED BY <1>1, <1>2, <2>1 DEF Foreign
<1>8. AllFinal'
  <2> SUFFICES ASSUME NEW r \in Conn, NEW m \in Reached(r, "deleted")
               PROVE  Final(m)'
    BY <1>6 DEF AllFinal
  <2>1. Final(m) /\ m # x
    BY <1>1 DEF GhostInv, AllFinal, Final
  <2>2. ASSUME NEW s \in Conn, frame'[s].at \in Sending PROVE frame'[s].mid # m
    <3>1. CASE s = t
      BY <1>1, <2>1, <3>1
    <3>2. CASE s # t
      BY <2>1, <2>2, <3>2 DEF Others, Still, Final
    <3> QED BY <3>1, <3>2
  <2> QED BY <1>1, <1>2, <2>1, <2>2 DEF Final
<1>9. \A s \in Conn : Orderly(s)'
  BY <1>1, <1>6, Named DEF GhostInv, Orderly
<1> QED BY <1>4, <1>5, <1>7, <1>8, <1>9 DEF GhostInv

\* A step that tells nothing of interest.
LEMMA QuietGhost ==
    ASSUME TypeInv, GhostInv, NEW t \in Conn, Steady(t), Others(t), QuietWires(t)
    PROVE  GhostInv'
<1>1. \A s \in Conn \ {t} : auth'[s] = auth[s]
  BY DEF QuietWires
<1>2. ASSUME NEW s \in Conn
      PROVE  /\ Posted(s, "message")' \subseteq Posted(s, "message")
             /\ Reached(s, "deleted")' \subseteq Reached(s, "deleted")
             /\ auth'[s] \in {auth[s], Nil}
  <2>1. /\ auth'[s] \in {auth[s], Nil}
        /\ Ids(out'[s], "deleted") = Ids(out[s], "deleted")
        /\ Ids(queue'[s], "message") \subseteq Ids(queue[s], "message")
        /\ Ids(queue'[s], "deleted") \subseteq Ids(queue[s], "deleted")
    BY QuietFacts DEF Pushes
  <2> QED BY <2>1, Named DEF Reached
<1>3. \A s \in Conn : Orderly(s)'
  BY QuietOrder DEF GhostInv
<1> QED BY <1>1, <1>2, <1>3, GhostKept

\* An answer that names no message that is gone.
LEMMA SendsGhost ==
    ASSUME TypeInv, GhostInv, NEW t \in Conn, Steady(t), Others(t),
           NEW packet \in Packets, Sends(t, packet), packet.kind # "deleted",
           packet.kind = "message" => packet.ids \subseteq messages
    PROVE  GhostInv'
<1>1. \A s \in Conn : auth'[s] = auth[s]
  BY DEF Sends
<1>2. ASSUME NEW s \in Conn
      PROVE  /\ Posted(s, "message")' = Posted(s, "message")
             /\ Reached(s, "deleted")' = Reached(s, "deleted")
  <2>1. Adds(packet, "deleted") = {}
    BY DEF Adds
  <2>2. /\ Posted(s, "message")' = Posted(s, "message")
        /\ Posted(s, "deleted")' = Posted(s, "deleted")
        /\ Got(s, "deleted")' = Got(s, "deleted") \cup (IF s = t THEN Adds(packet, "deleted") ELSE {})
    BY SendsFacts
  <2> QED BY <2>1, <2>2 DEF Reached
<1>3. packet.kind = "message" => packet.ids \cap Got(t, "deleted") = {}
  BY DEF GhostInv, AllFinal, Final, Reached
<1>4. \A s \in Conn : Orderly(s)'
  BY <1>3, SendsOrder DEF Sends, GhostInv
<1> QED BY <1>1, <1>2, <1>4, GhostKept

\* A login that finds its user: nothing is posted yet to a connection without one.
LEMMA LoginUserGhost ==
    ASSUME TypeInv, PushInv, LoginOnce, GhostInv, NEW t \in Conn, LoginUser(t), ~UNCHANGED frame,
           Steady(t), Others(t)
    PROVE  GhostInv'
<1>0. PICK u, packet : /\ u \in users /\ packet = Packet("login", {u}) /\ Write(t, packet)
                       /\ auth' = [auth EXCEPT ![t] = u] /\ UNCHANGED queue
                       /\ frame[t].at = "login user"
  BY DEF LoginUser, At
<1>1. packet \in Packets /\ packet.kind = "login"
  <2>1. u \in Uid \cup Cid \cup Mid /\ "login" \in Kinds
    BY <1>0 DEF TypeInv, TablesTypeOK, Kinds
  <2> QED BY <1>0, <2>1, OneType DEF Packet
<1>w. Write(t, packet)
  BY <1>0
<1>2. \A s \in Conn \ {t} : auth'[s] = auth[s]
  BY <1>0 DEF TypeInv, WiresOK
<1>3. Posted(t, "message") = {}
  <2>1. ~Welcomed(t)
    BY <1>0 DEF LoginOnce
  <2>2. \A i \in 1..Len(queue[t]) : queue[t][i].kind # "message"
    BY <2>1 DEF PushInv, Welcoming, Pushes
  <2> QED BY <2>2, InIds, Named
<1>4. ASSUME NEW s \in Conn
      PROVE  /\ Posted(s, "message")' = Posted(s, "message")
             /\ Reached(s, "deleted")' = Reached(s, "deleted")
  <2>1. Adds(packet, "deleted") = {}
    BY <1>1 DEF Adds
  <2>2. Ids(out'[s], "deleted") = Ids(out[s], "deleted") \cup (IF s = t THEN Adds(packet, "deleted") ELSE {})
    BY <1>1, <1>w, WriteFacts
  <2>3. queue'[s] = queue[s]
    BY <1>0
  <2> QED BY <2>1, <2>2, <2>3, Named DEF Reached
<1>5. \A s \in Conn : Orderly(s)'
  BY <1>0, <1>1, SendsOrder DEF GhostInv
<1> QED BY <1>2, <1>3, <1>4, <1>5, GhostKept

\* A signal that tells of a channel.
LEMMA CreateAnnounceGhost ==
    ASSUME TypeInv, GhostInv, NEW t \in Conn, CreateAnnounce(t), Steady(t), Others(t)
    PROVE  GhostInv'
<1>0. PICK u, c, packet : /\ u = frame[t].uid /\ c = frame[t].cid
                          /\ packet = Packet("channel", {c}) /\ Emits(t, u, packet)
                          /\ frame[t].at = "create announce"
  BY DEF CreateAnnounce, Emits, At
<1>1. packet \in Packets /\ packet.kind = "channel"
  <2>1. c \in Uid \cup Cid \cup Mid /\ "channel" \in Kinds
    BY <1>0 DEF TypeInv, FramesOK, Whole, HasCid, Kinds
  <2> QED BY <1>0, <2>1, OneType DEF Packet
<1>e. Emits(t, u, packet)
  BY <1>0
<1>2. Adds(packet, "message") = {} /\ Adds(packet, "deleted") = {}
  BY <1>1 DEF Adds
<1>3. ASSUME NEW s \in Conn
      PROVE  /\ Posted(s, "message")' \subseteq Posted(s, "message")
             /\ Reached(s, "deleted")' = Reached(s, "deleted")
             /\ auth'[s] = auth[s]
  <2>1. Posted(s, "message")' \subseteq Posted(s, "message")
                    \cup (IF s # t /\ auth[s] = u THEN Adds(packet, "message") ELSE {})
    BY <1>1, <1>e, EmitsPosted
  <2>2. /\ Reached(s, "deleted")' = Reached(s, "deleted")
                    \cup (IF auth[s] = u THEN Adds(packet, "deleted") ELSE {})
        /\ auth'[s] = auth[s]
    BY <1>1, <1>e, EmitsFacts
  <2> QED BY <1>2, <2>1, <2>2
<1>4. \A s \in Conn : Orderly(s)'
  BY <1>1, <1>e, EmitsOrder DEF GhostInv
<1> QED BY <1>3, <1>4, GhostKept

\* A member is told of a message: the others with it, which is not one of theirs.
LEMMA SendNotifyGhost ==
    ASSUME TypeInv, Carried, OneEach, GhostInv, NEW t \in Conn, SendNotify(t),
           Steady(t), Others(t)
    PROVE  GhostInv'
<1>0. PICK m, packet : m = frame[t].mid /\ packet = Packet("message", {m})
  OBVIOUS
<1>1. /\ m \in Mid /\ frame[t].at = "send notify" /\ UNCHANGED <<link, auth>>
      /\ channelOf[m] # Nil /\ senderOf[m] = auth[t]
  <2>1. frame[t].at = "send notify"
    BY DEF SendNotify, At
  <2>2. m \in Mid /\ frame[t].cid \in Cid
    BY <1>0, <2>1 DEF TypeInv, FramesOK, Whole, HasMid, HasCid
  <2>3. channelOf[m] = frame[t].cid /\ senderOf[m] = auth[t]
    BY <1>0, <2>1 DEF Carried, GhostInv, OwnWork, Acting, Holding
  <2> QED BY <2>1, <2>2, <2>3, NilAssumption DEF SendNotify
<1>2. packet \in Packets /\ packet.kind = "message" /\ packet.ids = {m}
  <2>1. m \in Uid \cup Cid \cup Mid /\ "message" \in Kinds
    BY <1>1 DEF Kinds
  <2> QED BY <1>0, <2>1, OneType DEF Packet
<1>3. CASE QuietWires(t)
  BY <1>3, QuietGhost
<1>4. ASSUME NEW u \in Uid, Emits(t, u, packet) PROVE GhostInv'
  <2>1. Adds(packet, "message") = {m} /\ Adds(packet, "deleted") = {}
    BY <1>2 DEF Adds
  <2>2. ASSUME NEW s \in Conn, s # t, auth[s] = u PROVE Foreign(s, m)
    <3>1. auth[s] # Nil
      BY <2>2, NilAssumption
    <3> QED BY <1>1, <2>2, <3>1 DEF OneEach, Foreign
  <2>3. ASSUME NEW s \in Conn
        PROVE  /\ \A x \in Posted(s, "message")' : x \in Posted(s, "message") \/ Foreign(s, x)
               /\ Reached(s, "deleted")' = Reached(s, "deleted")
               /\ auth'[s] = auth[s]
    <3>1. Posted(s, "message")' \subseteq Posted(s, "message")
                      \cup (IF s # t /\ auth[s] = u THEN Adds(packet, "message") ELSE {})
      BY <1>2, <1>4, EmitsPosted
    <3>2. /\ Reached(s, "deleted")' = Reached(s, "deleted")
                      \cup (IF auth[s] = u THEN Adds(packet, "deleted") ELSE {})
          /\ auth'[s] = auth[s]
      BY <1>2, <1>4, EmitsFacts
    <3> QED BY <2>1, <2>2, <3>1, <3>2
  <2>4. \A s \in Conn : m \notin Reached(s, "deleted")
    BY <1>0, <1>1 DEF GhostInv, AllFinal, Final, Sending
  <2>5. \A s \in Conn : Orderly(s)'
    <3>1. ASSUME NEW s \in Conn PROVE packet.ids \cap Reached(s, "deleted") = {}
      BY <1>2, <2>4
    <3> QED BY <1>2, <1>4, <3>1, EmitsOrder DEF GhostInv
  <2> QED BY <2>3, <2>5, GhostKept
<1>5. CASE NotifyMember(t, packet)
  <2> DEFINE u == membersOf[frame[t].cid].cells[frame[t].pos["members"]]
  <2>1. (u \in users /\ Emits(t, u, packet)) \/ QuietWires(t)
    BY <1>1, <1>5, NotifyWires
  <2>2. u \in users => u \in Uid
    BY DEF TypeInv, TablesTypeOK
  <2> HIDE DEF u
  <2> QED BY <1>3, <1>4, <2>1, <2>2
<1>6. CASE UNCHANGED <<out, queue>>
  BY <1>1, <1>3, <1>6, NoWireQuiet
<1> QED BY <1>0, <1>5, <1>6 DEF SendNotify

\* A member is told that a message is gone: its sender is not telling of it any more, for that
\* would be this connection.
LEMMA RetractGhost ==
    ASSUME TypeInv, Carried, Gone, OneEach, GhostInv, NEW t \in Conn, Retracts(t),
           Steady(t), Others(t)
    PROVE  GhostInv'
<1>0. PICK u, m, packet : /\ u \in Uid /\ m = frame[t].mid /\ packet = Packet("deleted", {m})
                          /\ Emits(t, u, packet) /\ frame[t].at = "remove notify"
  BY DEF Retracts
<1>1. /\ m \in Mid /\ channelOf[m] # Nil /\ senderOf[m] = auth[t] /\ auth[t] # Nil
      /\ m \notin messages
  <2>1. m \in Mid /\ frame[t].cid \in Cid
    BY <1>0 DEF TypeInv, FramesOK, Whole, HasMid, HasCid
  <2>2. channelOf[m] = frame[t].cid /\ senderOf[m] = auth[t]
    BY <1>0 DEF Carried, GhostInv, OwnWork, Acting, Holding
  <2>3. m \notin messages
    BY <1>0 DEF Gone, Removing
  <2> QED BY <2>1, <2>2, <2>3, NilAssumption DEF GhostInv, Signed
<1>2. packet \in Packets /\ packet.kind = "deleted" /\ packet.ids = {m}
  <2>1. m \in Uid \cup Cid \cup Mid /\ "deleted" \in Kinds
    BY <1>1 DEF Kinds
  <2> QED BY <1>0, <2>1, OneType DEF Packet
<1>e. Emits(t, u, packet)
  BY <1>0
<1>3. Final(m)
  <2> SUFFICES ASSUME NEW s \in Conn, frame[s].at \in Sending, frame[s].mid = m PROVE FALSE
    BY <1>1 DEF Final
  <2>1. auth[s] = auth[t]
    BY <1>1 DEF GhostInv, OwnWork, Sending, Acting, Holding
  <2>2. s = t
    BY <1>1, <2>1 DEF OneEach
  <2> QED BY <1>0, <2>2 DEF Sending
<1>4. m \notin Posted(t, "message")
  BY <1>1 DEF GhostInv, AllForeign, Foreign
<1>5. Adds(packet, "message") = {} /\ Adds(packet, "deleted") = {m}
  BY <1>2 DEF Adds
<1>6. ASSUME NEW s \in Conn
      PROVE  /\ Posted(s, "message")' \subseteq Posted(s, "message")
             /\ \A x \in Reached(s, "deleted")' : x \in Reached(s, "deleted") \/ Final(x)
             /\ auth'[s] = auth[s]
  <2>1. Posted(s, "message")' \subseteq Posted(s, "message")
                    \cup (IF s # t /\ auth[s] = u THEN Adds(packet, "message") ELSE {})
    BY <1>2, <1>e, EmitsPosted
  <2>2. /\ Reached(s, "deleted")' = Reached(s, "deleted")
                    \cup (IF auth[s] = u THEN Adds(packet, "deleted") ELSE {})
        /\ auth'[s] = auth[s]
    BY <1>2, <1>e, EmitsFacts
  <2> QED BY <1>3, <1>5, <2>1, <2>2
<1>7. \A s \in Conn : Orderly(s)'
  BY <1>2, <1>4, <1>e, EmitsOrder DEF GhostInv
<1> QED BY <1>6, <1>7, GhostKept

\* A posted event is passed on.
LEMMA PassGhost ==
    ASSUME TypeInv, GhostInv, NEW t \in Conn, Passes(t), Steady(t), Others(t)
    PROVE  GhostInv'
<1>1. ASSUME NEW s \in Conn
      PROVE  /\ Posted(s, "message")' \subseteq Posted(s, "message")
             /\ Reached(s, "deleted")' = Reached(s, "deleted")
             /\ auth'[s] = auth[s]
  BY PassesFacts
<1>2. \A s \in Conn : Orderly(s)'
  BY PassesOrder DEF GhostInv
<1> QED BY <1>1, <1>2, GhostKept

\* Every step, while no account is deleted and has more than one connection.
LEMMA GhostNext ==
    ASSUME TypeInv, Deleting = {}, OneEach, ListInv, StoreInv, PrivInv, PushInv, OnceInv, GhostInv,
           [Next]_vars
    PROVE  GhostInv'
<1>a. Carried /\ Gone /\ LoginOnce
  BY DEF ListInv, SecretInv, StoreInv, OnceInv
<1>1. ASSUME NEW t \in Conn, Ask(t) \/ Continue(t) PROVE GhostInv'
  <2>1. Others(t)
    BY <1>1, OtherThreads
  <2>2. ASSUME NEW c \in Cid, SendMessage(t, c) PROVE GhostInv'
    BY <1>a, <2>1, <2>2, SendMessageGhost
  <2>3. CASE \A c \in Cid : ~SendMessage(t, c)
    <3>1. Steady(t)
      BY <1>1, <2>3, SteadySteps
    <3>2. CASE LoginUser(t) /\ ~UNCHANGED frame
      BY <1>a, <2>1, <3>1, <3>2, LoginUserGhost
    <3>3. CASE LoginChannel(t)
      <4>1. CASE UNCHANGED out
        BY <2>1, <3>1, <3>3, <4>1, NoWireQuiet, QuietGhost DEF LoginChannel
      <4>2. ASSUME NEW c \in channels, Write(t, Packet("channel", {c})) PROVE GhostInv'
        <5>1. PICK packet : packet = Packet("channel", {c})
          OBVIOUS
        <5>2. packet \in Packets /\ packet.kind = "channel"
          <6>1. c \in Uid \cup Cid \cup Mid /\ "channel" \in Kinds
            BY DEF TypeInv, TablesTypeOK, Kinds
          <6> QED BY <5>1, <6>1, OneType DEF Packet
        <5>3. Sends(t, packet)
          BY <3>3, <4>2, <5>1 DEF LoginChannel, Sends
        <5> QED BY <2>1, <3>1, <5>2, <5>3, SendsGhost
      <4> QED BY <3>3, <4>1, <4>2 DEF LoginChannel
    <3>4. CASE LoginMessage(t)
      <4>1. CASE UNCHANGED out
        BY <2>1, <3>1, <3>4, <4>1, NoWireQuiet, QuietGhost DEF LoginMessage
      <4>2. ASSUME NEW m \in messages, Write(t, Packet("message", {m})) PROVE GhostInv'
        <5>1. PICK packet : packet = Packet("message", {m})
          OBVIOUS
        <5>2. packet \in Packets /\ packet.kind = "message" /\ packet.ids = {m}
          <6>1. m \in Uid \cup Cid \cup Mid /\ "message" \in Kinds
            BY DEF TypeInv, TablesTypeOK, Kinds
          <6> QED BY <5>1, <6>1, OneType DEF Packet
        <5>3. Sends(t, packet)
          BY <3>4, <4>2, <5>1 DEF LoginMessage, Sends
        <5> QED BY <2>1, <3>1, <5>2, <5>3, SendsGhost
      <4> QED BY <3>4, <4>1, <4>2 DEF LoginMessage
    <3>5. CASE CreateAnnounce(t)
      BY <2>1, <3>1, <3>5, CreateAnnounceGhost
    <3>6. CASE SendNotify(t)
      BY <1>a, <2>1, <3>1, <3>6, SendNotifyGhost
    <3>7. CASE ~LoginChannel(t) /\ ~LoginMessage(t) /\ ~CreateAnnounce(t) /\ ~SendNotify(t)
               /\ (LoginUser(t) => UNCHANGED frame)
      <4>1. Silent(t)
        BY <1>1, <3>7, DiscreetSteps DEF Discreet
      <4> QED BY <1>a, <2>1, <3>1, <4>1, QuietGhost, PassGhost, RetractGhost DEF Silent
    <3> QED BY <3>2, <3>3, <3>4, <3>5, <3>6, <3>7
  <2> QED BY <2>2, <2>3
<1>2. CASE UNCHANGED vars
  <2>1. UNCHANGED <<messages, senderOf, channelOf, auth, frame, queue, out>>
    BY <1>2 DEF vars, tables, texts, threads
  <2>2. \A s \in Conn : \A k : Posted(s, k)' = Posted(s, k) /\ Reached(s, k)' = Reached(s, k)
    BY <2>1, ReachedSame DEF Posted
  <2>3. \A s \in Conn : Orderly(s)'
    BY <2>1, <2>2, Named DEF GhostInv, Orderly
  <2> QED BY <2>1, <2>2, <2>3
          DEF GhostInv, OwnWork, Signed, AllForeign, Foreign, AllFinal, Final
<1> QED BY <1>1, <1>2 DEF Next, Rest

\* At first there are no messages.
LEMMA GhostInit == Init => GhostInv
<1> SUFFICES ASSUME Init PROVE GhostInv
  OBVIOUS
<1>1. \A t \in Conn : frame[t].at = "idle" /\ out[t] = <<>> /\ queue[t] = <<>>
  BY DEF Init, Idle
<1>2. \A m \in Mid : channelOf[m] = Nil
  BY DEF Init, TablesInit
<1>3. \A t \in Conn : \A k : Got(t, k) = {} /\ Posted(t, k) = {}
  BY <1>1, IdsEmpty, Named
<1> QED BY <1>1, <1>2, <1>3, OrderEmpty
        DEF GhostInv, OwnWork, Acting, Holding, Signed, AllForeign, AllFinal, Reached, Orderly

\* While no account is deleted and none has a second connection, no connection is sent a
\* message after its deletion, however sending, deleting and logging in overlap: a message is
\* deleted by the thread that made it known, to the last member, before it takes the request
\* (on_send_text, on_delete_message), and a login replays only what is stored, before the
\* events of what was deleted meanwhile.
THEOREM NoneAfterDeletion == Spec /\ [](Deleting = {}) /\ []OneEach => []NoGhosts
<1>1. TypeInv /\ GhostInv => NoGhosts
  <2> SUFFICES ASSUME TypeInv, GhostInv, NEW t \in Conn, NEW j \in 1..Len(out[t]),
                      NEW i \in 1..(j - 1), NEW m \in out[t][j].ids, out[t][j].kind = "message",
                      out[t][i] = Packet("deleted", {m})
               PROVE  FALSE
    BY DEF NoGhosts
  <2>1. Len(out[t]) \in Nat
    BY DEF TypeInv, WiresOK
  <2>2. i \in 1..Len(out[t]) /\ i < j
    BY <2>1
  <2>3. out[t][i].kind = "deleted" /\ m \in out[t][i].ids
    BY DEF Packet
  <2> QED BY <2>2, <2>3 DEF GhostInv, Orderly, InOrder, Says
<1>2. /\ TypeInv /\ TypeInv' /\ Placed /\ DeleterInv /\ Deleting = {} /\ OneEach /\ AccountInv
      /\ RoomInv /\ ListInv /\ StoreInv /\ ShowInv /\ PrivInv /\ PushInv /\ OnceInv /\ GhostInv
      /\ [Next]_vars
      => /\ DeleterInv' /\ ListInv' /\ StoreInv' /\ ShowInv' /\ PrivInv' /\ PushInv'
         /\ OnceInv' /\ GhostInv'
  <2> SUFFICES ASSUME TypeInv, TypeInv', Placed, DeleterInv, Deleting = {}, OneEach, AccountInv,
                      RoomInv, ListInv, StoreInv, ShowInv, PrivInv, PushInv, OnceInv, GhostInv,
                      [Next]_vars
               PROVE  /\ DeleterInv' /\ ListInv' /\ StoreInv' /\ ShowInv' /\ PrivInv' /\ PushInv'
                      /\ OnceInv' /\ GhostInv'
    OBVIOUS
  <2>1. DeleterInv'
    BY DeleterNext DEF TypeInv, DeleterInv
  <2>2. ListInv'
    BY ListNext DEF TypeInv
  <2>3. ShowInv'
    BY ShowNext
  <2>4. StoreInv'
    BY StoreNext DEF DeleterInv, ShowInv
  <2>5. PrivInv'
    BY PrivNext
  <2>6. PushInv'
    BY PushNext
  <2>7. OnceInv'
    BY OnceNext
  <2>8. GhostInv'
    BY GhostNext
  <2> QED BY <2>1, <2>2, <2>3, <2>4, <2>5, <2>6, <2>7, <2>8
<1> QED BY <1>1, <1>2, DeleterInit, ListInit, StoreInit, ShowInit, PrivInit, PushInit, OnceInit,
           GhostInit, Roomed, Typed, PTL DEF Spec

-----------------------------------------------------------------------------
(* Sequences of packets that owe nothing                                    *)

\* Message m is told in w before place j.
Before(w, j, m) == \E i \in 1..(j - 1) : Says(w[i], m)

\* Whatever is told in w, what has to come before it by R does, unless it is in A.
Owed(w, R, A) ==
    \A j \in 1..Len(w) : \A r \in R : Says(w[j], r[2]) => r[1] \in A \/ Before(w, j, r[1])

\* Each packet that tells of messages names one.
Single(w) ==
    \A i \in 1..Len(w) : w[i].kind = "message" => \E m \in Mid : w[i] = Packet("message", {m})

\* Fewer pairs, or more that is known by now.
LEMMA OwedLess ==
    ASSUME NEW w, NEW R, NEW A, Owed(w, R, A), NEW Q, NEW B,
           \A r \in Q : r[2] \in Ids(w, "message") => r \in R /\ (r[1] \in A => r[1] \in B)
    PROVE  Owed(w, Q, B)
<1> SUFFICES ASSUME NEW j \in 1..Len(w), NEW r \in Q, Says(w[j], r[2])
             PROVE  r[1] \in B \/ Before(w, j, r[1])
  BY DEF Owed
<1>1. r[2] \in Ids(w, "message")
  BY InIds DEF Says
<1> QED BY <1>1 DEF Owed

\* One more packet ...
LEMMA OwedAppend ==
    ASSUME NEW w \in Seq(Packets), NEW packet \in Packets, NEW R, NEW A, Owed(w, R, A),
           packet.kind = "message" =>
               \A r \in R : r[2] \in packet.ids => r[1] \in A \/ r[1] \in Ids(w, "message")
    PROVE  Owed(Append(w, packet), R, A)
<1> DEFINE v == Append(w, packet)
<1>1. /\ Len(w) \in Nat /\ Len(v) = Len(w) + 1 /\ v[Len(w) + 1] = packet
      /\ \A i \in 1..Len(w) : v[i] = w[i]
  OBVIOUS
<1> HIDE DEF v
<1>2. PICK n \in Nat : n = Len(w)
  BY <1>1
<1>3. ASSUME NEW j \in 1..Len(v), NEW r \in R, Says(v[j], r[2])
      PROVE  r[1] \in A \/ Before(v, j, r[1])
  <2>1. CASE j \in 1..n
    <3>1. Says(w[j], r[2])
      BY <1>1, <1>2, <1>3, <2>1
    <3>2. CASE Before(w, j, r[1])
      <4>1. PICK i \in 1..(j - 1) : Says(w[i], r[1])
        BY <3>2 DEF Before
      <4>2. i \in 1..n
        BY ONLY <1>2, <2>1, <4>1
      <4>3. v[i] = w[i]
        BY <1>1, <1>2, <4>2
      <4> QED BY <4>1, <4>3 DEF Before
    <3> QED BY <1>2, <2>1, <3>1, <3>2 DEF Owed
  <2>2. CASE j = n + 1
    <3>1. packet.kind = "message" /\ r[2] \in packet.ids
      BY <1>1, <1>2, <1>3, <2>2 DEF Says
    <3>2. CASE r[1] \in Ids(w, "message")
      <4>1. PICK i \in 1..Len(w) : w[i].kind = "message" /\ r[1] \in w[i].ids
        BY <3>2, InIds
      <4>2. i \in 1..(j - 1)
        <5>1. i \in 1..n
          BY <1>2, <4>1
        <5> QED BY ONLY <1>2, <2>2, <5>1
      <4>3. v[i] = w[i]
        BY <1>1, <4>1
      <4> QED BY <4>1, <4>2, <4>3 DEF Before, Says
    <3> QED BY <3>1, <3>2
  <2>3. j \in 1..n \/ j = n + 1
    <3>1. j \in 1..(n + 1)
      BY <1>1, <1>2
    <3> QED BY ONLY <1>2, <3>1
  <2> QED BY <2>1, <2>2, <2>3
<1> QED BY <1>3 DEF Owed, v

\* ... or one less, which is known by then.
LEMMA OwedTail ==
    ASSUME NEW w \in Seq(Packets), w # <<>>, NEW R, NEW A, Owed(w, R, A)
    PROVE  /\ Owed(Tail(w), R, A \cup Adds(Head(w), "message"))
           /\ \A r \in R : Says(Head(w), r[2]) => r[1] \in A
<1> DEFINE v == Tail(w)
<1>1. /\ Len(w) \in Nat /\ Len(w) >= 1 /\ Len(v) = Len(w) - 1 /\ Head(w) = w[1]
      /\ \A i \in 1..Len(v) : v[i] = w[i + 1]
  OBVIOUS
<1> HIDE DEF v
<1>2. PICK n \in Nat : n = Len(v) /\ n + 1 = Len(w)
  BY <1>1
<1>3. ASSUME NEW j \in 1..Len(v), NEW r \in R, Says(v[j], r[2])
      PROVE  r[1] \in A \cup Adds(Head(w), "message") \/ Before(v, j, r[1])
  <2>1. PICK l : l = j + 1
    OBVIOUS
  <2>2. l \in 1..Len(w) /\ Says(w[l], r[2])
    BY <1>1, <1>2, <1>3, <2>1
  <2>3. CASE Before(w, l, r[1])
    <3>1. PICK i \in 1..(l - 1) : Says(w[i], r[1])
      BY <2>3 DEF Before
    <3>2. CASE i = 1
      BY <1>1, <3>1, <3>2 DEF Says, Adds
    <3>3. CASE i # 1
      <4>1. PICK k : k = i - 1
        OBVIOUS
      <4>2. k \in 1..(j - 1) /\ k \in 1..n /\ i = k + 1
        <5>1. j \in 1..n
          BY <1>2, <1>3
        <5> QED BY ONLY <1>2, <2>1, <3>1, <3>3, <4>1, <5>1
      <4>3. v[k] = w[i]
        BY <1>1, <1>2, <4>2
      <4> QED BY <3>1, <4>2, <4>3 DEF Before
    <3> QED BY <3>2, <3>3
  <2> QED BY <2>2, <2>3 DEF Owed
<1>4. ASSUME NEW r \in R, Says(Head(w), r[2]) PROVE r[1] \in A
  <2>1. 1 \in 1..Len(w) /\ Says(w[1], r[2])
    BY <1>1, <1>4
  <2>2. ~Before(w, 1, r[1])
    BY DEF Before
  <2> QED BY <2>1, <2>2 DEF Owed
<1> QED BY <1>3, <1>4 DEF Owed, v

\* Where no message is told nothing is owed.
LEMMA OwedNothing ==
    ASSUME NEW w, NEW R, NEW A, Ids(w, "message") = {}
    PROVE  Owed(w, R, A)
<1>1. ASSUME NEW i \in 1..Len(w), NEW m, Says(w[i], m) PROVE FALSE
  BY <1>1, InIds DEF Says
<1> QED BY <1>1 DEF Owed

\* One more packet, or one less, of one message each.
LEMMA SingleAppend ==
    ASSUME NEW w \in Seq(Packets), NEW packet \in Packets, Single(w),
           packet.kind = "message" => \E m \in Mid : packet = Packet("message", {m})
    PROVE  Single(Append(w, packet))
<1> DEFINE v == Append(w, packet)
<1>1. /\ Len(w) \in Nat /\ Len(v) = Len(w) + 1 /\ v[Len(w) + 1] = packet
      /\ \A i \in 1..Len(w) : v[i] = w[i]
  OBVIOUS
<1> HIDE DEF v
<1>2. ASSUME NEW i \in 1..Len(v), v[i].kind = "message"
      PROVE  \E m \in Mid : v[i] = Packet("message", {m})
  <2>1. (i \in 1..Len(w) /\ v[i] = w[i]) \/ v[i] = packet
    BY <1>1
  <2>2. CASE i \in 1..Len(w) /\ v[i] = w[i]
    <3>1. w[i].kind = "message"
      BY <1>2, <2>2
    <3>2. \E m \in Mid : w[i] = Packet("message", {m})
      BY <2>2, <3>1 DEF Single
    <3> QED BY <2>2, <3>2
  <2>3. CASE v[i] = packet
    BY <1>2, <2>3
  <2> QED BY <2>1, <2>2, <2>3
<1> QED BY <1>2 DEF Single, v

\* The same of the rest.
LEMMA SingleTail ==
    ASSUME NEW w \in Seq(Packets), w # <<>>, Single(w)
    PROVE  /\ Single(Tail(w))
           /\ Head(w).kind = "message" => \E m \in Mid : Head(w) = Packet("message", {m})
<1> DEFINE v == Tail(w)
<1>1. /\ Len(w) \in Nat /\ Len(w) >= 1 /\ Len(v) = Len(w) - 1 /\ Head(w) = w[1]
      /\ \A i \in 1..Len(v) : v[i] = w[i + 1]
  OBVIOUS
<1> HIDE DEF v
<1>2. ASSUME NEW i \in 1..Len(v), v[i].kind = "message"
      PROVE  \E m \in Mid : v[i] = Packet("message", {m})
  <2>1. i + 1 \in 1..Len(w) /\ v[i] = w[i + 1]
    BY <1>1
  <2>2. w[i + 1].kind = "message"
    BY <1>2, <2>1
  <2>3. \E m \in Mid : w[i + 1] = Packet("message", {m})
    BY <2>1, <2>2 DEF Single
  <2> QED BY <2>1, <2>3
<1>3. Head(w).kind = "message" => \E m \in Mid : Head(w) = Packet("message", {m})
  <2>1. 1 \in 1..Len(w) /\ Head(w) = w[1]
    BY <1>1
  <2>2. w[1].kind = "message" => \E m \in Mid : w[1] = Packet("message", {m})
    BY <2>1 DEF Single
  <2> QED BY <2>1, <2>2
<1> QED BY <1>2, <1>3 DEF Single, v

-----------------------------------------------------------------------------
(* What a step does to the turn in which messages are told                  *)

\* Message r[1] comes before r[2]: both are of one user, in one channel.
Priors ==
    {r \in Mid \X Mid : /\ r[1] \in messages /\ r[1] < r[2]
                        /\ senderOf[r[1]] = senderOf[r[2]] /\ channelOf[r[1]] = channelOf[r[2]]}

\* What t was sent, or its login is going to replay before the next event is handled.
Ready(t) == {m \in Mid : m \in Got(t, "message") \/ WillSee(t, channelOf[m]) \/ WillRead(t, m)}

\* A connection is sent nothing before its turn, nor will be by what is posted to it.
InTurn(t) ==
    /\ Single(out[t]) /\ Single(queue[t])
    /\ Owed(out[t], Priors, {})
    /\ On(t) => Owed(queue[t], Priors, Ready(t))

\* A step that leaves what comes before the messages t knows of as ready as it was.
Owes(t) ==
    \A r \in Priors' : r[2] \in Reached(t, "message") =>
        r \in Priors /\ (r[1] \in Ready(t) => r[1] \in Ready(t)')

\* What was sent and posted, and came in turn, does so after such a step.
LEMMA TurnKept ==
    ASSUME NEW s, InTurn(s), Owes(s)
    PROVE  /\ Single(out[s]) /\ Single(queue[s])
           /\ Owed(out[s], Priors', {})
           /\ On(s) => Owed(queue[s], Priors', Ready(s)')
<1>1. PICK R, Q, A, B, w, v : /\ R = Priors /\ Q = Priors' /\ A = Ready(s) /\ B = Ready(s)'
                              /\ w = out[s] /\ v = queue[s]
  OBVIOUS
<1>2. \A r \in Q : r[2] \in Ids(w, "message") \/ r[2] \in Ids(v, "message") =>
          r \in R /\ (r[1] \in A => r[1] \in B)
  BY <1>1, Named DEF Owes, Reached
<1>3. Single(w) /\ Single(v) /\ Owed(w, R, {}) /\ (On(s) => Owed(v, R, A))
  BY <1>1 DEF InTurn
<1>4. Owed(w, Q, {})
  BY <1>2, <1>3, OwedLess
<1>5. On(s) => Owed(v, Q, B)
  BY <1>2, <1>3, OwedLess
<1> QED BY <1>1, <1>3, <1>4, <1>5

\* Nothing of interest written or posted.
LEMMA QuietTurn ==
    ASSUME TypeInv, NEW t \in Conn, QuietWires(t), NEW s \in Conn, InTurn(s), Owes(s)
    PROVE  InTurn(s)'
<1>1. PICK Q, B, w, v : Q = Priors' /\ B = Ready(s)' /\ w = out[s] /\ v = queue[s]
  OBVIOUS
<1>2. /\ w \in Seq(Packets) /\ v \in Seq(Packets) /\ Single(w) /\ Single(v)
      /\ Owed(w, Q, {}) /\ (On(s) => Owed(v, Q, B))
  BY <1>1, TurnKept DEF TypeInv, WiresOK
<1>3. On(s)' => On(s)
  BY QuietFacts
<1>4. Single(out'[s]) /\ Owed(out'[s], Q, {})
  <2>1. CASE out'[s] = w
    BY <1>2, <2>1
  <2>2. ASSUME NEW packet \in Packets, Dull(packet), out'[s] = Append(w, packet)
        PROVE  Single(out'[s]) /\ Owed(out'[s], Q, {})
    <3>1. packet.kind # "message"
      BY <2>2 DEF Dull, Pushes
    <3> QED BY <1>2, <2>2, <3>1, OwedAppend, SingleAppend
  <2> QED BY <1>1, <2>1, <2>2 DEF QuietWires
<1>5. Single(queue'[s]) /\ (On(s)' => Owed(queue'[s], Q, B))
  <2>1. CASE queue'[s] = v
    BY <1>2, <1>3, <2>1
  <2>2. ASSUME NEW packet \in Packets, Dull(packet), queue'[s] = Append(v, packet)
        PROVE  Single(queue'[s]) /\ (On(s)' => Owed(queue'[s], Q, B))
    <3>1. packet.kind # "message"
      BY <2>2 DEF Dull, Pushes
    <3>2. Single(queue'[s])
      BY <1>2, <2>2, <3>1, SingleAppend
    <3>3. On(s) => Owed(queue'[s], Q, B)
      BY <1>2, <2>2, <3>1, OwedAppend
    <3> QED BY <1>3, <3>2, <3>3
  <2>3. CASE queue'[s] = <<>> /\ ~On(s)'
    BY <2>3 DEF Single
  <2>4. CASE v # <<>> /\ queue'[s] = Tail(v) /\ ~On(s)'
    BY <1>2, <2>4, SingleTail
  <2> QED BY <1>1, <2>1, <2>2, <2>3, <2>4 DEF QuietWires
<1> QED BY <1>1, <1>4, <1>5 DEF InTurn

\* A posted packet passed on, no login being replayed.
LEMMA PassesTurn ==
    ASSUME TypeInv, NEW t \in Conn, Passes(t), NEW s \in Conn, InTurn(s), Owes(s)
    PROVE  InTurn(s)'
<1>1. PICK Q, B, w, v : Q = Priors' /\ B = Ready(s)' /\ w = out[s] /\ v = queue[s]
  OBVIOUS
<1>2. /\ w \in Seq(Packets) /\ v \in Seq(Packets) /\ Single(w) /\ Single(v)
      /\ Owed(w, Q, {}) /\ (On(s) => Owed(v, Q, B))
  BY <1>1, TurnKept DEF TypeInv, WiresOK
<1>3. On(s)' <=> On(s)
  BY PassesFacts
<1>4. CASE s # t
  <2>1. out'[s] = w /\ queue'[s] = v
    BY <1>1, <1>4 DEF Passes, Write, TypeInv, WiresOK
  <2> QED BY <1>1, <1>2, <1>3, <2>1 DEF InTurn
<1>5. CASE s = t
  <2>1. PICK e, r : e = Head(v) /\ r = Tail(v)
    OBVIOUS
  <2>2. v # <<>> /\ On(t) /\ out'[t] = Append(w, e) /\ queue'[t] = r /\ e \in Packets
    <3>1. v # <<>> /\ On(t) /\ out'[t] = Append(w, e) /\ queue'[t] = r
      BY <1>1, <1>5, <2>1 DEF Passes, Write, TypeInv, WiresOK
    <3> QED BY <1>2, <2>1, <3>1
  <2>3. Single(r) /\ (e.kind = "message" => \E m \in Mid : e = Packet("message", {m}))
    BY <1>2, <2>1, <2>2, SingleTail
  <2>4. Single(out'[t])
    BY <1>2, <2>2, <2>3, SingleAppend
  <2>5. PICK R, A : R = Priors /\ A = Got(t, "message")
    OBVIOUS
  <2>6. Ready(t) \subseteq A
    BY <2>5 DEF Ready, WillSee, WillRead, Reads, Passes, Replaying
  <2>7. \A q \in Q : Says(e, q[2]) => q[1] \in Ids(w, "message")
    <3>1. Owed(v, R, Ready(t))
      BY <1>1, <1>5, <2>2, <2>5 DEF InTurn
    <3>2. \A q \in R : Says(e, q[2]) => q[1] \in Ready(t)
      <4>1. PICK C : C = Ready(t)
        OBVIOUS
      <4>2. \A q \in R : Says(e, q[2]) => q[1] \in C
        BY <1>2, <2>1, <2>2, <3>1, <4>1, OwedTail
      <4> QED BY <4>1, <4>2
    <3>3. \A q \in Q : Says(e, q[2]) => q \in R
      <4>1. ASSUME NEW q \in Q, Says(e, q[2]) PROVE q[2] \in Ids(v, "message")
        <5>1. Ids(v, "message") = Adds(e, "message") \cup Ids(r, "message")
          BY <1>2, <2>1, <2>2, IdsTail DEF Adds
        <5> QED BY <4>1, <5>1 DEF Says, Adds
      <4> QED BY <1>1, <1>5, <2>5, <4>1, Named DEF Owes, Reached
    <3>4. A = Ids(w, "message")
      BY <1>1, <1>5, <2>5, Named
    <3> QED BY <2>6, <3>2, <3>3, <3>4
  <2>8. Owed(out'[t], Q, {})
    <3>1. e.kind = "message" => \A q \in Q : q[2] \in e.ids => q[1] \in Ids(w, "message")
      BY <2>7 DEF Says
    <3> QED BY <1>2, <2>2, <3>1, OwedAppend
  <2>9. Owed(r, Q, B)
    <3>1. Owed(r, Q, B \cup Adds(e, "message"))
      BY <1>2, <1>5, <2>1, <2>2, OwedTail
    <3>2. \A q \in Q : q[1] \in Adds(e, "message") => q[1] \in B
      <4>1. Got(t, "message")' = Got(t, "message") \cup Adds(e, "message")
        <5>1. Ids(out'[t], "message") = Ids(w, "message") \cup Adds(e, "message")
          BY <1>2, <2>2, IdsAppend DEF Adds
        <5> QED BY <1>1, <1>5, <5>1, Named
      <4>2. \A q \in Q : q[1] \in Mid
        BY <1>1 DEF Priors
      <4> QED BY <1>1, <1>5, <4>1, <4>2 DEF Ready
    <3>3. PICK C : C = B \cup Adds(e, "message")
      OBVIOUS
    <3>4. Owed(r, Q, C)
      BY <3>1, <3>3
    <3>5. \A q \in Q : q[2] \in Ids(r, "message") => q \in Q /\ (q[1] \in C => q[1] \in B)
      BY <3>2, <3>3
    <3> QED BY <3>4, <3>5, OwedLess
  <2> QED BY <1>1, <1>5, <2>2, <2>3, <2>4, <2>8, <2>9 DEF InTurn
<1> QED BY <1>4, <1>5

\* An answer.
LEMMA SendsTurn ==
    ASSUME TypeInv, NEW t \in Conn, NEW packet \in Packets, Write(t, packet), UNCHANGED <<link, queue>>,
           packet.kind = "message" =>
               /\ \E m \in Mid : packet = Packet("message", {m})
               /\ \A r \in Priors' : r[2] \in packet.ids => r[1] \in Got(t, "message"),
           NEW s \in Conn, InTurn(s), Owes(s)
    PROVE  InTurn(s)'
<1>1. PICK Q, B, w, v : Q = Priors' /\ B = Ready(s)' /\ w = out[s] /\ v = queue[s]
  OBVIOUS
<1>2. /\ w \in Seq(Packets) /\ v \in Seq(Packets) /\ Single(w) /\ Single(v)
      /\ Owed(w, Q, {}) /\ (On(s) => Owed(v, Q, B))
  BY <1>1, TurnKept DEF TypeInv, WiresOK
<1>3. (On(s)' <=> On(s)) /\ queue'[s] = v
  BY <1>1 DEF On
<1>4. CASE s # t
  <2>1. out'[s] = w
    BY <1>1, <1>4 DEF Write, TypeInv, WiresOK
  <2> QED BY <1>1, <1>2, <1>3, <2>1 DEF InTurn
<1>5. CASE s = t
  <2>1. out'[s] = Append(w, packet)
    BY <1>1, <1>5 DEF Write, TypeInv, WiresOK
  <2>2. packet.kind = "message" => \A r \in Q : r[2] \in packet.ids => r[1] \in Ids(w, "message")
    BY <1>1, <1>5, Named
  <2>3. Owed(out'[s], Q, {})
    BY <1>2, <2>1, <2>2, OwedAppend
  <2>4. Single(out'[s])
    BY <1>2, <2>1, SingleAppend
  <2> QED BY <1>1, <1>2, <1>3, <2>3, <2>4 DEF InTurn
<1> QED BY <1>4, <1>5

\* A signal.
LEMMA EmitsTurn ==
    ASSUME TypeInv, NEW t \in Conn, NEW u, NEW packet \in Packets, Emits(t, u, packet),
           NEW s \in Conn, InTurn(s), Owes(s),
           packet.kind = "message" =>
               /\ \E m \in Mid : packet = Packet("message", {m})
               /\ auth[s] = u => \A r \in Priors' : r[2] \in packet.ids =>
                      \/ r[1] \in Got(s, "message")
                      \/ s # t /\ (On(s) => r[1] \in Posted(s, "message") \cup Ready(s)')
    PROVE  InTurn(s)'
<1>1. PICK Q, B, w, v : Q = Priors' /\ B = Ready(s)' /\ w = out[s] /\ v = queue[s]
  OBVIOUS
<1>2. /\ w \in Seq(Packets) /\ v \in Seq(Packets) /\ Single(w) /\ Single(v)
      /\ Owed(w, Q, {}) /\ (On(s) => Owed(v, Q, B))
  BY <1>1, TurnKept DEF TypeInv, WiresOK
<1>3. /\ out'[s] = IF s = t /\ auth[s] = u THEN Append(w, packet) ELSE w
      /\ queue'[s] = IF s # t /\ auth[s] = u THEN Append(v, packet) ELSE v
      /\ (On(s)' <=> On(s))
  BY <1>1 DEF Emits, Emit, TypeInv, WiresOK, On
<1>4. Single(Append(w, packet)) /\ Single(Append(v, packet))
  BY <1>2, SingleAppend
<1>5. Got(s, "message") = Ids(w, "message") /\ Posted(s, "message") = Ids(v, "message")
  BY <1>1, Named
<1>6. s = t /\ auth[s] = u => Owed(Append(w, packet), Q, {})
  BY <1>1, <1>2, <1>5, OwedAppend
<1>7. s # t /\ auth[s] = u /\ On(s) => Owed(Append(v, packet), Q, B)
  <2> SUFFICES ASSUME s # t, auth[s] = u, On(s) PROVE Owed(Append(v, packet), Q, B)
    OBVIOUS
  <2>1. \A r \in Q : r[1] \in Got(s, "message") => r[1] \in B
    <3>1. Got(s, "message") \subseteq Got(s, "message")'
      BY EmitsFacts
    <3>2. \A r \in Q : r[1] \in Mid
      BY <1>1 DEF Priors
    <3> QED BY <1>1, <3>1, <3>2 DEF Ready
  <2>2. packet.kind = "message" =>
            \A r \in Q : r[2] \in packet.ids => r[1] \in B \/ r[1] \in Ids(v, "message")
    BY <1>1, <1>5, <2>1
  <2> QED BY <1>2, <2>2, OwedAppend
<1>8. Single(out'[s]) /\ Single(queue'[s]) /\ Owed(out'[s], Q, {})
  BY <1>2, <1>3, <1>4, <1>6
<1>9. On(s)' => Owed(queue'[s], Q, B)
  BY <1>2, <1>3, <1>7
<1> QED BY <1>1, <1>8, <1>9 DEF InTurn

-----------------------------------------------------------------------------
(* The numbers of the messages                                              *)

\* erase(remove_if(...)) leaves what it keeps in order.
LEMMA EraseOrder ==
    ASSUME NEW S, NEW v \in Vectors(S), NEW x,
           NEW i \in 1..Erase(v, x).len, NEW j \in 1..Erase(v, x).len, i < j
    PROVE  \E k, l \in 1..v.len : /\ k < l
                                  /\ Erase(v, x).cells[i] = v.cells[k]
                                  /\ Erase(v, x).cells[j] = v.cells[l]
<1> DEFINE K == Kept(v, x)
           n == Cardinality(K)
           w == Erase(v, x)
           Upto(a) == {y \in K : y <= a}
<1>1. n \in 0..v.len /\ v.len \in Nat /\ v.len <= Len(v.cells) /\ Len(v.cells) \in Nat
  BY KeptCount DEF Vectors
<1>2. w.len = n
  BY DEF Erase
<1>3. ASSUME NEW a \in 1..n
      PROVE  \E k \in K : Rank(K, k) = a /\ w.cells[a] = v.cells[k]
  <2>1. \E k \in K : Rank(K, k) = a
    BY <1>3, RankOnto
  <2>2. a \in 1..Len(v.cells)
    BY <1>1
  <2>3. w.cells[a] = v.cells[CHOOSE k \in K : Rank(K, k) = a]
    BY <2>1, <2>2 DEF Erase
  <2> QED BY <2>1, <2>3
<1>4. PICK k \in K : Rank(K, k) = i /\ w.cells[i] = v.cells[k]
  BY <1>2, <1>3
<1>5. PICK l \in K : Rank(K, l) = j /\ w.cells[j] = v.cells[l]
  BY <1>2, <1>3
<1>6. K \subseteq 1..v.len /\ IsFiniteSet(K)
  <2>1. v.len \in Int
    BY <1>1
  <2>2. IsFiniteSet(1..v.len)
    BY <2>1, FS_Interval
  <2>3. K \subseteq 1..v.len
    BY DEF Kept
  <2> QED BY <2>2, <2>3, FS_Subset
<1>7. ASSUME l <= k PROVE FALSE
  <2>1. Upto(l) \subseteq Upto(k)
    BY <1>1, <1>6, <1>7
  <2>2. IsFiniteSet(Upto(k))
    BY <1>6, FS_Subset
  <2> HIDE DEF Upto
  <2>3. Cardinality(Upto(l)) <= Cardinality(Upto(k))
    BY <2>1, <2>2, FS_Subset
  <2>4. Rank(K, k) = Cardinality(Upto(k)) /\ Rank(K, l) = Cardinality(Upto(l))
    BY DEF Rank, Upto
  <2>5. j <= i
    BY <1>4, <1>5, <2>3, <2>4
  <2> QED BY <1>2, <2>5
<1>8. k < l
  BY <1>1, <1>6, <1>7
<1> QED BY <1>4, <1>5, <1>6, <1>8

\* push_back writes behind the elements.
LEMMA PushLast ==
    ASSUME NEW S, NEW v \in Vectors(S), NEW x
    PROVE  /\ Push(v, x).len = v.len + 1
           /\ Push(v, x).cells[v.len + 1] = x
<1>1. v.cells \in Seq(S) /\ v.len \in Nat /\ v.len <= Len(v.cells) /\ Len(v.cells) \in Nat
  BY DEF Vectors
<1>2. CASE v.len < Len(v.cells)
  BY <1>1, <1>2 DEF Push
<1>3. CASE v.len = Len(v.cells)
  <2>1. Append(v.cells, x)[Len(v.cells) + 1] = x
    BY <1>1
  <2> QED BY <1>1, <1>3, <2>1 DEF Push
<1> QED BY <1>1, <1>2, <1>3

\* Snowflakes are taken in order, with a message.
Ascending == \A m, n \in Mid : channelOf[m] # Nil /\ channelOf[n] = Nil => m < n

Dated == \A m \in Mid : senderOf[m] # Nil => channelOf[m] # Nil

\* What a handler makes known, over an open connection, is the newest message of its user.
Latest ==
    \A t \in Conn : frame[t].at \in Sending => \A m \in Mid : senderOf[m] = auth[t] => m <= frame[t].mid

Speaking == \A t \in Conn : frame[t].at \in Sending => On(t)

\* A channel lists what one user sent in the order in which it was made.
Sorted(v) ==
    \A i, j \in 1..v.len :
        i < j /\ senderOf[v.cells[i]] = senderOf[v.cells[j]] => v.cells[i] < v.cells[j]

AllSorted == \A c \in Cid : Sorted(logOf[c])

Numbered == Ascending /\ Dated /\ Latest /\ Speaking /\ AllSorted

\* The lists of messages change where one is added or taken out.
LEMMA LogSteps ==
    ASSUME TypeInv, Deleting = {}, NEW t \in Conn, Ask(t) \/ Continue(t),
           ~AppendMessage(t), ~Unlist(t)
    PROVE  UNCHANGED logOf
<1>1. CASE Modest(t)
  BY <1>1 DEF Modest
<1>2. CASE RegisterUser(t) \/ DeleteUser(t) \/ RemoveNotify(t)
  BY <1>2 DEF RegisterUser, DeleteUser, RemoveNotify, tables, rooms
<1>3. CASE RemoveText(t)
  BY <1>3 DEF RemoveText, rooms
<1>4. CASE \E c \in Cid : SendMessage(t, c)
  BY <1>4 DEF SendMessage, rooms
<1>5. ~(\/ DeleteFromChannel(t) \/ DeleteFindMessage(t) \/ DeleteListedMessage(t)
        \/ DeleteNotify(t) \/ DeleteChannelFinished(t) \/ DeleteAccountFinished(t))
  BY DEF DeleteFromChannel, DeleteFindMessage, DeleteListedMessage, DeleteNotify,
         DeleteChannelFinished, DeleteAccountFinished, At, Deleting
<1>6. \/ Modest(t) \/ RegisterUser(t) \/ DeleteUser(t) \/ RemoveText(t) \/ RemoveNotify(t)
      \/ \E c \in Cid : SendMessage(t, c)
  BY <1>5, ModestSteps DEF Ask, Continue
<1> QED BY <1>1, <1>2, <1>3, <1>4, <1>6

\* A connection comes to its end between two requests, by its own thread.
LEMMA LinkSteps ==
    ASSUME TypeInv, NEW t \in Conn, Ask(t) \/ Continue(t)
    PROVE  /\ \A s \in Conn \ {t} : On(s)' <=> On(s)
           /\ frame[t].at \in Sending /\ On(t) => On(t)'
<1>a. link \in [Conn -> Links]
  BY DEF TypeInv, WiresOK
<1>1. CASE Accept(t)
  BY <1>a, <1>1 DEF Accept, On
<1>2. CASE Disconnect(t)
  BY <1>a, <1>2 DEF Disconnect, Request, Sending, On
<1>3. CASE QuitThread(t)
  BY <1>a, <1>3 DEF QuitThread, Close, Sending, On
<1>4. CASE Dispatch(t)
  <2>1. frame[t].at \notin Sending
    BY <1>4 DEF Dispatch, Sending
  <2>2. UNCHANGED link \/ \E l : link' = [link EXCEPT ![t] = l]
    BY <1>4 DEF Dispatch, Close
  <2> QED BY <1>a, <2>1, <2>2 DEF On
<1>5. ASSUME Ask(t), ~Accept(t), ~Disconnect(t) PROVE UNCHANGED link
  BY <1>5 DEF Ask, Register, Login, DeleteAccount, ListAccounts, CreateChannel, SendMessage,
              DeleteMessage
<1>6. CASE RegisterPassword(t) \/ RegisterUser(t) \/ LoginUser(t) \/ LoginChannel(t)
           \/ LoginMessage(t) \/ LoginChannelReplayed(t) \/ LoginFinished(t)
           \/ ListAccount(t) \/ ListFinished(t)
  BY <1>6 DEF RegisterPassword, RegisterUser, LoginUser, LoginChannel, LoginMessage,
              LoginChannelReplayed, LoginFinished, ListAccount, ListFinished, On
<1>7. CASE DeleteUser(t) \/ DeleteFromChannel(t) \/ DeleteFindMessage(t)
           \/ DeleteListedMessage(t) \/ DeleteNotify(t) \/ DeleteChannelFinished(t)
           \/ DeleteAccountFinished(t)
  BY <1>7 DEF DeleteUser, DeleteFromChannel, DeleteFindMessage, DeleteListedMessage,
              DeleteNotify, DeleteChannelFinished, DeleteAccountFinished, On
<1>8. CASE CreateMember(t) \/ CreateAnnounce(t) \/ CreateFinished(t) \/ AppendMessage(t)
           \/ SendNotify(t) \/ RemoveText(t) \/ RemoveNotify(t) \/ Unlist(t)
           \/ DisconnectFinished(t)
  BY <1>8 DEF CreateMember, CreateAnnounce, CreateFinished, AppendMessage, SendNotify,
              RemoveText, RemoveNotify, Unlist, DisconnectFinished, On
<1>9. CASE UNCHANGED link
  BY <1>9 DEF On
<1> QED BY <1>1, <1>2, <1>3, <1>4, <1>5, <1>6, <1>7, <1>8, <1>9 DEF Continue

\* The list of a channel with one more message of the user, newer than its others.
LEMMA SortedPush ==
    ASSUME TypeInv, NEW v \in Vectors(Mid), NEW x \in Mid, Sorted(v),
           \A y \in Live(v) : senderOf[y] = senderOf[x] => y < x
    PROVE  Sorted(Push(v, x))
<1>1. v.len \in Nat
  BY DEF Vectors
<1>2. PICK w, n : w = Push(v, x) /\ n = v.len
  OBVIOUS
<1>3. n \in Nat /\ w.len = n + 1 /\ w.cells[n + 1] = x
  BY <1>1, <1>2, PushLast
<1>4. \A i \in 1..n : w.cells[i] = v.cells[i]
  BY <1>2, PushKeeps
<1>5. ASSUME NEW i \in 1..w.len, NEW j \in 1..w.len,
             i < j, senderOf[w.cells[i]] = senderOf[w.cells[j]]
      PROVE  w.cells[i] < w.cells[j]
  <2>1. i \in 1..n /\ (j \in 1..n \/ j = n + 1)
    <3>1. i \in 1..(n + 1) /\ j \in 1..(n + 1) /\ i < j
      BY <1>3, <1>5
    <3> QED BY ONLY <1>3, <3>1
  <2>2. CASE j \in 1..n
    BY <1>2, <1>4, <1>5, <2>1, <2>2 DEF Sorted
  <2>3. CASE j = n + 1
    <3>1. w.cells[i] = v.cells[i] /\ v.cells[i] \in Live(v)
      BY <1>2, <1>4, <2>1 DEF Live
    <3> QED BY <1>3, <1>5, <2>3, <3>1
  <2> QED BY <2>1, <2>2, <2>3
<1> QED BY <1>2, <1>5 DEF Sorted

\* The list of a channel with a message less.
LEMMA SortedErase ==
    ASSUME NEW v \in Vectors(Mid), NEW x, Sorted(v)
    PROVE  Sorted(Erase(v, x))
<1> SUFFICES ASSUME NEW i \in 1..Erase(v, x).len, NEW j \in 1..Erase(v, x).len, i < j,
                    senderOf[Erase(v, x).cells[i]] = senderOf[Erase(v, x).cells[j]]
             PROVE  Erase(v, x).cells[i] < Erase(v, x).cells[j]
  BY DEF Sorted
<1>1. PICK k, l \in 1..v.len : /\ k < l
                               /\ Erase(v, x).cells[i] = v.cells[k]
                               /\ Erase(v, x).cells[j] = v.cells[l]
  BY EraseOrder
<1> QED BY <1>1 DEF Sorted

\* A message is made: it is the newest of all.
LEMMA SendMessageNumbers ==
    ASSUME TypeInv, OneEach, ListInv, Numbered, NEW t \in Conn, NEW c \in Cid,
           SendMessage(t, c), Others(t)
    PROVE  Numbered'
<1>0. PICK x \in NextSnowflake :
          AddMessage(x, auth[t], c) /\
          frame' = [frame EXCEPT ![t].at = "append", ![t].cid = c, ![t].mid = x]
  BY DEF SendMessage
<1>1. /\ x \in Mid /\ channelOf[x] = Nil /\ c # Nil /\ auth[t] \in Uid /\ auth[t] # Nil
      /\ \A y \in Mid : channelOf[y] = Nil => x <= y
      /\ senderOf' = [senderOf EXCEPT ![x] = auth[t]]
      /\ channelOf' = [channelOf EXCEPT ![x] = c]
      /\ UNCHANGED <<auth, link, logOf>>
      /\ frame'[t].at = "append" /\ frame'[t].mid = x
  <2>1. auth[t] \in Uid
    BY LoggedInUser DEF SendMessage, Request, TypeInv
  <2>2. frame'[t].at = "append" /\ frame'[t].mid = x
    BY <1>0 DEF TypeInv, FramesOK, Frames
  <2> QED BY <1>0, <2>1, <2>2, NilAssumption
          DEF SendMessage, AddMessage, NextSnowflake, FreeMids, rooms
<1>2. /\ senderOf'[x] = auth[t] /\ channelOf'[x] = c
      /\ \A m \in Mid \ {x} : senderOf'[m] = senderOf[m] /\ channelOf'[m] = channelOf[m]
  BY <1>1 DEF TypeInv, TablesTypeOK
<1>3. \A m, n \in Mid : m <= n /\ m # n => m < n
  BY NilAssumption
<1>4. Ascending'
  <2> SUFFICES ASSUME NEW m \in Mid, NEW n \in Mid, channelOf'[m] # Nil, channelOf'[n] = Nil
               PROVE  m < n
    BY DEF Ascending
  <2>1. n # x /\ channelOf[n] = Nil
    BY <1>1, <1>2
  <2>2. CASE m = x
    BY <1>1, <1>3, <2>1, <2>2
  <2>3. CASE m # x
    BY <1>2, <2>1, <2>3 DEF Numbered, Ascending
  <2> QED BY <2>2, <2>3
<1>5. Dated'
  BY <1>1, <1>2 DEF Numbered, Dated
<1>6. Latest'
  <2> SUFFICES ASSUME NEW s \in Conn, frame'[s].at \in Sending,
                      NEW m \in Mid, senderOf'[m] = auth'[s]
               PROVE  m <= frame'[s].mid
    BY DEF Latest
  <2>1. CASE s = t
    <3>1. CASE m = x
      BY <1>1, <2>1, <3>1, NilAssumption
    <3>2. CASE m # x
      <4>1. channelOf[m] # Nil
        BY <1>1, <1>2, <2>1, <3>2 DEF Numbered, Dated
      <4>2. m < x
        BY <1>1, <4>1 DEF Numbered, Ascending
      <4> QED BY <1>1, <2>1, <4>2, NilAssumption
    <3> QED BY <3>1, <3>2
  <2>2. CASE s # t
    <3>1. frame[s].at \in Sending /\ frame'[s].mid = frame[s].mid
      BY <2>2 DEF Others, Still
    <3>2. m # x
      BY <1>1, <1>2, <2>2 DEF OneEach
    <3> QED BY <1>1, <1>2, <3>1, <3>2 DEF Numbered, Latest
  <2> QED BY <2>1, <2>2
<1>7. Speaking'
  <2> SUFFICES ASSUME NEW s \in Conn, frame'[s].at \in Sending PROVE On(s)'
    BY DEF Speaking
  <2>1. CASE s = t
    BY <1>1, <2>1 DEF SendMessage, Request, On
  <2>2. CASE s # t
    BY <1>1, <2>2 DEF Others, Still, Numbered, Speaking, On
  <2> QED BY <2>1, <2>2
<1>8. AllSorted'
  <2> SUFFICES ASSUME NEW d \in Cid, NEW i \in 1..logOf[d].len, NEW j \in 1..logOf[d].len,
                      i < j, senderOf'[logOf[d].cells[i]] = senderOf'[logOf[d].cells[j]]
               PROVE  logOf[d].cells[i] < logOf[d].cells[j]
    BY <1>1 DEF AllSorted, Sorted
  <2>1. \A y \in Live(logOf[d]) : y \in Mid \ {x}
    <3>1. logOf[d] \in Vectors(Mid)
      BY DEF TypeInv, TablesTypeOK
    <3>2. \A y \in Live(logOf[d]) : y \in Mid /\ y \in Cells(logOf[d])
      BY <3>1, LiveCells, LiveType
    <3> QED BY <1>1, <3>2 DEF ListInv, SecretInv, PublicMade, Public
  <2>2. logOf[d].cells[i] \in Live(logOf[d]) /\ logOf[d].cells[j] \in Live(logOf[d])
    BY DEF Live
  <2>3. senderOf[logOf[d].cells[i]] = senderOf[logOf[d].cells[j]]
    BY <1>2, <2>1, <2>2
  <2> QED BY <2>3 DEF Numbered, AllSorted, Sorted
<1> QED BY <1>4, <1>5, <1>6, <1>7, <1>8 DEF Numbered

\* Every step, while no account is deleted and has more than one connection.
LEMMA NumberedNext ==
    ASSUME TypeInv, Deleting = {}, OneEach, ListInv, GhostInv, Numbered, NEW t \in Conn,
           Ask(t) \/ Continue(t)
    PROVE  Numbered'
<1>a. Others(t)
  BY OtherThreads
<1>1. ASSUME NEW c \in Cid, SendMessage(t, c) PROVE Numbered'
  BY <1>1, <1>a, SendMessageNumbers
<1>2. CASE \A c \in Cid : ~SendMessage(t, c)
  <2>1. Steady(t)
    BY <1>2, SteadySteps
  <2>2. UNCHANGED <<senderOf, channelOf>>
    BY <2>1 DEF Steady
  <2>3. ASSUME NEW s \in Conn, frame'[s].at \in Sending
        PROVE  /\ frame[s].at \in Sending /\ frame'[s].mid = frame[s].mid
               /\ auth'[s] = auth[s] /\ On(s)'
    <3>1. CASE s = t
      <4>1. frame[t].at \in Sending /\ frame'[t].mid = frame[t].mid
        BY <2>1, <2>3, <3>1 DEF Steady
      <4>2. senderOf[frame[t].mid] = auth[t]
        BY <4>1 DEF GhostInv, OwnWork, Acting, Holding, Sending
      <4>3. auth'[t] = auth[t]
        BY <2>1, <2>3, <3>1, <4>1, <4>2 DEF Steady, Acting, Holding, Sending
      <4>4. On(t)'
        BY <4>1, LinkSteps DEF Numbered, Speaking
      <4> QED BY <3>1, <4>1, <4>3, <4>4
    <3>2. CASE s # t
      <4>1. frame[s].at \in Sending /\ frame'[s].mid = frame[s].mid
        BY <1>a, <2>3, <3>2 DEF Others, Still
      <4>2. auth'[s] = auth[s]
        BY <3>2, NoneFinished, AccountSteps DEF Grows
      <4>3. On(s)'
        BY <3>2, <4>1, LinkSteps DEF Numbered, Speaking
      <4> QED BY <4>1, <4>2, <4>3
    <3> QED BY <3>1, <3>2
  <2>4. Ascending' /\ Dated'
    BY <2>2 DEF Numbered, Ascending, Dated
  <2>5. Latest'
    BY <2>2, <2>3 DEF Numbered, Latest
  <2>6. Speaking'
    BY <2>3 DEF Speaking
  <2>7. AllSorted'
    <3> SUFFICES ASSUME NEW d \in Cid PROVE Sorted(logOf'[d])
      BY <2>2 DEF AllSorted, Sorted
    <3>1. Sorted(logOf[d]) /\ logOf[d] \in Vectors(Mid)
      BY DEF Numbered, AllSorted, TypeInv, TablesTypeOK
    <3>2. CASE AppendMessage(t)
      <4>1. PICK c, x : c = frame[t].cid /\ x = frame[t].mid
        OBVIOUS
      <4>2. c \in Cid /\ x \in Mid /\ Appends(t, x) /\ logOf' = [logOf EXCEPT ![c] = Push(@, x)]
        BY <3>2, <4>1 DEF AppendMessage, ChannelAddMessage, At, Appends, TypeInv, FramesOK,
                          Whole, HasCid, HasMid
      <4>3. CASE d = c
        <5>1. logOf'[d] = Push(logOf[d], x)
          BY <4>2, <4>3 DEF TypeInv, TablesTypeOK
        <5>2. ASSUME NEW y \in Live(logOf[d]), senderOf[y] = senderOf[x] PROVE y < x
          <6>1. y \in Mid /\ y \in Cells(logOf[d])
            BY <3>1, LiveCells, LiveType
          <6>2. y # x
            BY <4>2, <6>1 DEF ListInv, SecretInv, Secret, Public
          <6>3. senderOf[x] = auth[t] /\ frame[t].at \in Sending
            BY <4>1, <4>2 DEF GhostInv, OwnWork, Acting, Appends, Sending
          <6>4. y <= x
            BY <4>1, <5>2, <6>1, <6>3 DEF Numbered, Latest
          <6> QED BY <4>2, <6>1, <6>2, <6>4, NilAssumption
        <5> QED BY <3>1, <4>2, <5>1, <5>2, SortedPush
      <4>4. CASE d # c
        BY <3>1, <4>2, <4>4 DEF TypeInv, TablesTypeOK
      <4> QED BY <4>3, <4>4
    <3>3. CASE Unlist(t)
      <4>1. PICK c, x : logOf' = [logOf EXCEPT ![c] = Erase(@, x)]
        BY <3>3 DEF Unlist, ChannelRemoveMessage
      <4>2. logOf'[d] = logOf[d] \/ logOf'[d] = Erase(logOf[d], x)
        BY <4>1 DEF TypeInv, TablesTypeOK
      <4> QED BY <3>1, <4>2, SortedErase
    <3>4. CASE ~AppendMessage(t) /\ ~Unlist(t)
      BY <3>1, <3>4, LogSteps
    <3> QED BY <3>2, <3>3, <3>4
  <2> QED BY <2>4, <2>5, <2>6, <2>7 DEF Numbered
<1> QED BY <1>1, <1>2

-----------------------------------------------------------------------------
(* What a login has replayed                                                *)

\* A login has written the stored messages that its loop has passed.
ReadSoFar(t) ==
    Reads(t) =>
        /\ frame[t].end["messages"] <= logOf[frame[t].cid].len
        /\ \A i \in 1..frame[t].end["messages"] :
              /\ i < frame[t].pos["messages"]
              /\ logOf[frame[t].cid].cells[i] \in messages
              => logOf[frame[t].cid].cells[i] \in Got(t, "message")

\* The list under the loop of a login stays, or is longer.
LogsFixed ==
    \A s \in Conn \ disturbed' : Reads(s) =>
        /\ logOf'[frame[s].cid].len >= logOf[frame[s].cid].len
        /\ \A i \in 1..logOf[frame[s].cid].len :
              logOf'[frame[s].cid].cells[i] = logOf[frame[s].cid].cells[i]

\* So it is in every step, while no account is deleted.
LEMMA FixedSteps ==
    ASSUME TypeInv, Deleting = {}, NEW t \in Conn, Ask(t) \/ Continue(t)
    PROVE  LogsFixed
<1> SUFFICES ASSUME NEW s \in Conn \ disturbed', Reads(s)
             PROVE  /\ logOf'[frame[s].cid].len >= logOf[frame[s].cid].len
                    /\ \A i \in 1..logOf[frame[s].cid].len :
                          logOf'[frame[s].cid].cells[i] = logOf[frame[s].cid].cells[i]
  BY DEF LogsFixed
<1>1. PICK d, v : d = frame[s].cid /\ v = logOf[d]
  OBVIOUS
<1>2. d \in Cid /\ v \in Vectors(Mid) /\ v.len \in Nat
  <2>1. d \in Cid
    BY <1>1 DEF Reads, TypeInv, FramesOK, Whole, HasCid
  <2> QED BY <1>1, <2>1 DEF TypeInv, TablesTypeOK, Vectors
<1>3. CASE logOf'[d] = v
  BY <1>1, <1>2, <1>3
<1>4. CASE AppendMessage(t)
  <2>1. PICK c, x : c = frame[t].cid /\ x = frame[t].mid
    OBVIOUS
  <2>2. c \in Cid /\ x \in Mid /\ logOf' = [logOf EXCEPT ![c] = Push(@, x)]
    BY <1>4, <2>1 DEF AppendMessage, ChannelAddMessage, At, TypeInv, FramesOK,
                      Whole, HasCid, HasMid
  <2>3. CASE d = c
    <3>1. logOf'[d] = Push(v, x)
      BY <1>1, <2>2, <2>3 DEF TypeInv, TablesTypeOK
    <3>2. Push(v, x).len = v.len + 1
      BY <1>2, PushLast
    <3>3. \A i \in 1..v.len : Push(v, x).cells[i] = v.cells[i]
      BY <1>2, <2>2, PushKeeps
    <3> QED BY <1>1, <1>2, <3>1, <3>2, <3>3
  <2>4. CASE d # c
    BY <1>1, <1>2, <1>3, <2>2, <2>4 DEF TypeInv, TablesTypeOK
  <2> QED BY <2>3, <2>4
<1>5. CASE Unlist(t)
  <2>1. PICK c, x : c = frame[t].cid /\ x = frame[t].mid
    OBVIOUS
  <2>2. /\ frame[t].at = "unlist" /\ c \in Cid /\ logOf' = [logOf EXCEPT ![c] = Erase(@, x)]
        /\ Erased(t, "messages", c, logOf[c], x)
    BY <1>5, <2>1 DEF Unlist, ChannelRemoveMessage, At, TypeInv, FramesOK, Whole, HasCid
  <2>3. CASE d = c
    <3>1. s \in Walking("messages", c) \ {t}
      BY <1>1, <2>2, <2>3 DEF Walking, Reads
    <3>2. x \notin Live(v)
      BY <1>1, <2>2, <2>3, <3>1 DEF Erased
    <3>3. logOf'[d] = Erase(v, x)
      BY <1>1, <2>2, <2>3 DEF TypeInv, TablesTypeOK
    <3>4. Erase(v, x).cells = v.cells /\ Erase(v, x).len = v.len
      BY <1>2, <3>2, EraseSame
    <3> QED BY <1>1, <1>2, <3>3, <3>4
  <2>4. CASE d # c
    BY <1>1, <1>2, <1>3, <2>2, <2>4 DEF TypeInv, TablesTypeOK
  <2> QED BY <2>3, <2>4
<1>6. CASE ~AppendMessage(t) /\ ~Unlist(t)
  BY <1>1, <1>3, <1>6, LogSteps
<1> QED BY <1>4, <1>5, <1>6

\* A message in a list has been made.
LEMMA ListedMade ==
    ASSUME TypeInv, ListInv, NEW c \in Cid, NEW m \in Live(logOf[c])
    PROVE  m \in Mid /\ channelOf[m] = c /\ channelOf[m] # Nil
<1>1. logOf[c] \in Vectors(Mid)
  BY DEF TypeInv, TablesTypeOK
<1>2. m \in Mid /\ m \in Cells(logOf[c])
  BY <1>1, LiveCells, LiveType
<1> QED BY <1>2, NilAssumption DEF ListInv, SecretInv, Housed

\* What a login has replayed, after a step that lets it go on.
LEMMA ReadKept ==
    ASSUME TypeInv, TypeInv', ListInv, LogsFixed, NEW s \in Conn \ disturbed', ReadSoFar(s),
           \A m \in messages' \ messages : channelOf[m] = Nil,
           Got(s, "message") \subseteq Got(s, "message")',
           Reads(s)' => /\ Reads(s) /\ frame'[s].cid = frame[s].cid
                        /\ frame'[s].end["messages"] = frame[s].end["messages"]
                        /\ \A i \in 1..frame[s].end["messages"] :
                              i < frame'[s].pos["messages"] =>
                                  \/ i < frame[s].pos["messages"]
                                  \/ logOf[frame[s].cid].cells[i] \in messages =>
                                        logOf[frame[s].cid].cells[i] \in Got(s, "message")'
    PROVE  ReadSoFar(s)'
<1> SUFFICES ASSUME Reads(s)'
             PROVE  /\ frame'[s].end["messages"] <= logOf'[frame'[s].cid].len
                    /\ \A i \in 1..frame'[s].end["messages"] :
                          /\ i < frame'[s].pos["messages"]
                          /\ logOf'[frame'[s].cid].cells[i] \in messages'
                          => logOf'[frame'[s].cid].cells[i] \in Got(s, "message")'
  BY DEF ReadSoFar
<1>1. PICK c, e, p, n, w, v : /\ c = frame[s].cid /\ e = frame[s].end["messages"]
                              /\ p = frame[s].pos["messages"] /\ n = logOf[c].len
                              /\ v = logOf[c] /\ w = logOf'[c]
  OBVIOUS
<1>2. c \in Cid /\ e \in Nat /\ n \in Nat /\ e <= n
  <2>1. Reads(s)
    OBVIOUS
  <2>2. c \in Cid /\ e \in Nat
    <3>1. frame[s] \in Frames /\ Whole(frame[s])
      BY DEF TypeInv, FramesOK
    <3>2. e \in Nat
      BY <1>1, <3>1 DEF Frames, Level
    <3> QED BY <1>1, <2>1, <3>1, <3>2 DEF Reads, Whole, HasCid
  <2>3. n \in Nat
    BY <1>1, <2>2 DEF TypeInv, TablesTypeOK, Vectors
  <2> QED BY <1>1, <2>1, <2>2, <2>3 DEF ReadSoFar
<1>3. w.len >= n /\ \A i \in 1..n : w.cells[i] = v.cells[i]
  BY <1>1 DEF LogsFixed
<1>4. e <= w.len
  <2>1. w.len \in Int
    BY <1>1, <1>2 DEF TypeInv, TablesTypeOK, Vectors
  <2> QED BY <1>2, <1>3, <2>1
<1>5. ASSUME NEW i \in 1..e, i < frame'[s].pos["messages"], w.cells[i] \in messages'
      PROVE  w.cells[i] \in Got(s, "message")'
  <2>1. i \in 1..n
    BY <1>2
  <2>2. PICK m : m = v.cells[i] /\ m = w.cells[i]
    BY <1>3, <2>1
  <2>3. m \in Live(logOf[c])
    BY <1>1, <2>1, <2>2 DEF Live
  <2>4. m \in messages
    BY <1>2, <1>5, <2>2, <2>3, ListedMade
  <2>5. i < p => m \in Got(s, "message")
    BY <1>1, <2>2, <2>4 DEF ReadSoFar
  <2>6. i < p \/ m \in Got(s, "message")'
    BY <1>1, <1>5, <2>2, <2>4
  <2> QED BY <2>2, <2>5, <2>6
<1> QED BY <1>1, <1>4, <1>5

-----------------------------------------------------------------------------
(* What is ready for a connection stays so                                  *)

\* What comes before the messages s knows of did so before the step.
Ranked(s) ==
    \A r \in Priors' : r[2] \in Reached(s, "message") =>
        r \in Priors /\ channelOf'[r[1]] = channelOf[r[1]]

\* Where no message is made no pair is.
LEMMA SteadyRanked ==
    ASSUME NEW t \in Conn, Steady(t), NEW s \in Conn
    PROVE  Ranked(s)
<1>1. Priors' \subseteq Priors /\ UNCHANGED channelOf
  BY DEF Steady, Priors
<1> QED BY <1>1 DEF Ranked

\* A message that is made comes before none that is known.
LEMMA MadeRanked ==
    ASSUME TypeInv, PrivInv, Ascending, NEW t \in Conn, NEW c \in Cid, SendMessage(t, c),
           NEW s \in Conn \ disturbed
    PROVE  Ranked(s)
<1>1. PICK x \in Mid : /\ channelOf[x] = Nil
                       /\ messages' = messages \cup {x}
                       /\ \A m \in Mid \ {x} : /\ senderOf'[m] = senderOf[m]
                                               /\ channelOf'[m] = channelOf[m]
  <2>1. PICK x \in FreeMids : AddMessage(x, auth[t], c)
    BY DEF SendMessage, NextSnowflake
  <2> QED BY <2>1 DEF AddMessage, FreeMids, TypeInv, TablesTypeOK
<1>2. ASSUME NEW r \in Priors', r[2] \in Reached(s, "message")
      PROVE  r \in Priors /\ channelOf'[r[1]] = channelOf[r[1]]
  <2>1. PICK m, n : m = r[1] /\ n = r[2]
    OBVIOUS
  <2>2. /\ r \in Mid \X Mid /\ m \in Mid /\ n \in Mid /\ m \in messages' /\ m < n
        /\ senderOf'[m] = senderOf'[n] /\ channelOf'[m] = channelOf'[n]
    BY <1>2, <2>1 DEF Priors
  <2>3. channelOf[n] # Nil
    <3>1. channelOf[n] \in channels
      BY <1>2, <2>1 DEF PrivInv, OnlyMine, May, Tidings
    <3> QED BY <3>1, NilAssumption DEF TypeInv, TablesTypeOK
  <2>4. m # x /\ n # x
    <3>1. n < x
      BY <1>1, <2>2, <2>3 DEF Ascending
    <3>2. n \in Nat /\ m \in Nat /\ x \in Nat
      BY <2>2, NilAssumption
    <3> QED BY <2>2, <3>1, <3>2
  <2>5. m \in messages /\ senderOf[m] = senderOf[n] /\ channelOf[m] = channelOf[n]
    BY <1>1, <2>2, <2>4
  <2> QED BY <1>1, <2>1, <2>2, <2>4, <2>5 DEF Priors
<1> QED BY <1>2 DEF Ranked

\* A connection whose handler stays where it is.
LEMMA OwesStill ==
    ASSUME TypeInv, LogsHold, ChansHold, NEW s \in Conn \ disturbed', Still(s), Ranked(s),
           Got(s, "message") \subseteq Got(s, "message")'
    PROVE  Owes(s)
<1> SUFFICES ASSUME NEW r \in Priors', r[2] \in Reached(s, "message"), r[1] \in Ready(s)
             PROVE  r[1] \in Ready(s)'
  BY DEF Owes, Ranked
<1>1. PICK m, c : m = r[1] /\ c = channelOf[m] /\ channelOf'[m] = c /\ m \in Mid
  BY DEF Ranked, Ready
<1>2. CASE m \in Got(s, "message")
  BY <1>1, <1>2 DEF Ready
<1>3. CASE WillSee(s, channelOf[m])
  <2>1. WillSee(s, c) /\ frame[s].at \in Replaying
    BY <1>1, <1>3 DEF WillSee
  <2>2. WillSee(s, c)'
    BY <2>1, SeeStill DEF Still
  <2> QED BY <1>1, <2>2 DEF Ready
<1>4. CASE WillRead(s, m)
  <2>1. WillRead(s, m)'
    BY <1>1, <1>4, ReadStill DEF Still
  <2> QED BY <1>1, <2>1 DEF Ready
<1> QED BY <1>1, <1>2, <1>3, <1>4 DEF Ready

\* The connection of the step, if it leaves nothing out of a replay.
LEMMA OwesApart ==
    ASSUME TypeInv, NEW t \in Conn, Apart(t), t \notin disturbed', Ranked(t),
           Got(t, "message") \subseteq Got(t, "message")'
    PROVE  Owes(t)
<1> SUFFICES ASSUME NEW r \in Priors', r[2] \in Reached(t, "message"), r[1] \in Ready(t)
             PROVE  r[1] \in Ready(t)'
  BY DEF Owes, Ranked
<1>1. PICK m, c : m = r[1] /\ c = channelOf[m] /\ channelOf'[m] = c /\ m \in Mid
  BY DEF Ranked, Ready
<1>2. CASE m \in Got(t, "message")
  BY <1>1, <1>2 DEF Ready
<1>3. CASE WillSee(t, channelOf[m])
  <2>1. WillSee(t, c) /\ frame[t].at \in Replaying /\ More(t, "channels")
    BY <1>1, <1>3, NoMore DEF WillSee, Level
  <2>2. WillSee(t, c)'
    BY <2>1, SeeStill DEF Apart
  <2> QED BY <1>1, <2>2 DEF Ready
<1>4. CASE WillRead(t, m)
  <2>1. Reads(t) /\ More(t, "messages")
    BY <1>4, NoMore DEF WillRead, Level
  <2>2. UNCHANGED frame
    BY <2>1 DEF Apart
  <2>3. WillRead(t, m)'
    BY <1>1, <1>4, <2>2, ReadStill DEF Apart
  <2> QED BY <1>1, <2>3 DEF Ready
<1> QED BY <1>1, <1>2, <1>3, <1>4 DEF Ready

\* The replay of a channel goes on by its own steps.
LEMMA ReadsStep ==
    ASSUME NEW t \in Conn, TypeInv, Ask(t) \/ Continue(t), Reads(t), Reads(t)', ~LoginMessage(t)
    PROVE  UNCHANGED frame
<1>1. CASE Ask(t)
  BY <1>1 DEF Ask, Register, Login, DeleteAccount, ListAccounts, CreateChannel, SendMessage,
              DeleteMessage, Accept, Disconnect, Request, Reads
<1>2. CASE RegisterPassword(t) \/ RegisterUser(t) \/ LoginUser(t) \/ LoginChannel(t)
           \/ LoginFinished(t) \/ ListAccount(t) \/ ListFinished(t)
  BY <1>2 DEF RegisterPassword, RegisterUser, LoginUser, LoginChannel, LoginFinished,
              ListAccount, ListFinished, At, Reads
<1>3. CASE DeleteUser(t) \/ DeleteFromChannel(t) \/ DeleteFindMessage(t)
           \/ DeleteListedMessage(t) \/ DeleteNotify(t) \/ DeleteChannelFinished(t)
           \/ DeleteAccountFinished(t)
  BY <1>3 DEF DeleteUser, DeleteFromChannel, DeleteFindMessage, DeleteListedMessage,
              DeleteNotify, DeleteChannelFinished, DeleteAccountFinished, At, Reads
<1>4. CASE CreateMember(t) \/ CreateAnnounce(t) \/ CreateFinished(t) \/ RemoveText(t)
           \/ RemoveNotify(t) \/ Unlist(t) \/ AppendMessage(t) \/ SendNotify(t)
  BY <1>4 DEF CreateMember, CreateAnnounce, CreateFinished, RemoveText, RemoveNotify, Unlist,
              AppendMessage, SendNotify, At, Reads
<1>5. CASE DisconnectFinished(t) \/ QuitThread(t) \/ Dispatch(t)
  BY <1>5 DEF DisconnectFinished, QuitThread, Dispatch, At, Reads
<1>6. ~LoginChannelReplayed(t)
  BY DEF LoginChannelReplayed, Goto, Reads, TypeInv, FramesOK, Frames
<1> QED BY <1>1, <1>2, <1>3, <1>4, <1>5, <1>6 DEF Continue

-----------------------------------------------------------------------------
(* Messages in turn                                                         *)

TurnInv == Numbered /\ \A t \in Conn \ disturbed : InTurn(t) /\ ReadSoFar(t)

\* What joins the table is made then.
LEMMA NewMade ==
    ASSUME TypeInv, NEW t \in Conn, Ask(t) \/ Continue(t)
    PROVE  \A m \in messages' \ messages : channelOf[m] = Nil
<1>1. CASE \E c \in Cid : SendMessage(t, c)
  BY <1>1 DEF SendMessage, AddMessage, NextSnowflake, FreeMids
<1>2. CASE \A c \in Cid : ~SendMessage(t, c)
  BY <1>2, SteadySteps DEF Steady
<1> QED BY <1>1, <1>2

\* Every step leaves the loops of logins what they have still to read.
LEMMA HoldSteps ==
    ASSUME TypeInv, Deleting = {}, ListInv, ShowInv, PrivInv, NEW t \in Conn,
           Ask(t) \/ Continue(t)
    PROVE  LogsHold /\ ChansHold
<1>1. CASE UNCHANGED <<logOf, chansOf>>
  BY <1>1 DEF LogsHold, ChansHold
<1>2. CASE LoginUser(t) \/ LoginChannel(t) \/ LoginMessage(t) \/ SendNotify(t)
  BY <1>1, <1>2 DEF LoginUser, LoginChannel, LoginMessage, SendNotify, tables, rooms
<1>3. CASE \E c \in Cid : SendMessage(t, c)
  BY <1>1, <1>3 DEF SendMessage, rooms
<1>4. CASE AppendMessage(t)
  BY <1>4, AppendedLogs DEF AppendMessage, ChansHold
<1>5. CASE /\ ~LoginUser(t) /\ ~LoginChannel(t) /\ ~LoginMessage(t) /\ ~SendNotify(t)
           /\ ~AppendMessage(t) /\ \A c \in Cid : ~SendMessage(t, c)
  BY <1>5, ApartSteps DEF Apart
<1> QED BY <1>2, <1>3, <1>4, <1>5

\* Every step puts a message before none that is known.
LEMMA RankedSteps ==
    ASSUME TypeInv, PrivInv, Numbered, NEW t \in Conn, Ask(t) \/ Continue(t),
           NEW s \in Conn \ disturbed
    PROVE  Ranked(s)
<1>1. CASE \E c \in Cid : SendMessage(t, c)
  BY <1>1, MadeRanked DEF Numbered
<1>2. CASE \A c \in Cid : ~SendMessage(t, c)
  BY <1>2, SteadySteps, SteadyRanked
<1> QED BY <1>1, <1>2

\* A connection over which no login is replayed.
LEMMA OwesIdle ==
    ASSUME NEW t \in Conn, frame[t].at \notin Replaying, Ranked(t),
           Got(t, "message") \subseteq Got(t, "message")'
    PROVE  Owes(t)
<1>1. Ready(t) \subseteq Ready(t)'
  BY DEF Ready, WillSee, WillRead, Reads, Replaying
<1> QED BY <1>1 DEF Owes, Ranked

\* One step of t: what it tells in turn, and what it owes to its own connection.
LEMMA TurnKeeps ==
    ASSUME TypeInv, TypeInv', Deleting = {}, OneEach, ListInv, ShowInv, PrivInv, GhostInv,
           TurnInv, NEW t \in Conn, Ask(t) \/ Continue(t),
           \A s \in Conn : Got(s, "message") \subseteq Got(s, "message")',
           \A s \in Conn \ disturbed' : InTurn(s) /\ Owes(s) => InTurn(s)',
           t \notin disturbed' => Owes(t) /\ ReadSoFar(t)'
    PROVE  TurnInv'
<1>1. Numbered'
  BY NumberedNext DEF TurnInv
<1>2. Others(t)
  BY OtherThreads
<1>3. LogsHold /\ ChansHold /\ LogsFixed
  BY HoldSteps, FixedSteps
<1>4. \A m \in messages' \ messages : channelOf[m] = Nil
  BY NewMade
<1> SUFFICES ASSUME NEW s \in Conn \ disturbed' PROVE InTurn(s)' /\ ReadSoFar(s)'
  BY <1>1 DEF TurnInv
<1>5. s \notin disturbed
  BY <1>2 DEF Others
<1>6. InTurn(s) /\ ReadSoFar(s)
  BY <1>5 DEF TurnInv
<1>7. CASE s = t
  BY <1>6, <1>7
<1>8. CASE s # t
  <2>1. Still(s)
    BY <1>2, <1>8 DEF Others
  <2>2. Ranked(s)
    BY <1>5, RankedSteps DEF TurnInv
  <2>3. Owes(s)
    BY <1>3, <2>1, <2>2, OwesStill
  <2>4. Reads(s)' => /\ Reads(s) /\ frame'[s].cid = frame[s].cid
                     /\ frame'[s].end = frame[s].end /\ frame'[s].pos = frame[s].pos
    BY <2>1 DEF Still, Reads
  <2>5. ReadSoFar(s)'
    BY <1>3, <1>4, <1>6, <2>4, ReadKept
  <2> QED BY <1>6, <2>3, <2>5
<1> QED BY <1>7, <1>8

\* What a step tells that tells nothing of interest, passes a posted packet on or makes a
\* deletion known.
LEMMA SilentTurn ==
    ASSUME TypeInv, NEW t \in Conn, Silent(t), NEW s \in Conn
    PROVE  /\ Got(s, "message") \subseteq Got(s, "message")'
           /\ InTurn(s) /\ Owes(s) => InTurn(s)'
<1>1. CASE QuietWires(t)
  <2>1. Ids(out'[s], "message") = Ids(out[s], "message")
    BY <1>1, QuietFacts DEF Pushes
  <2> QED BY <1>1, <2>1, Named, QuietTurn
<1>2. CASE Passes(t)
  BY <1>2, PassesFacts, PassesTurn
<1>3. CASE Retracts(t)
  <2>1. PICK u, packet : /\ packet = Packet("deleted", {frame[t].mid})
                         /\ Emits(t, u, packet)
    BY <1>3 DEF Retracts
  <2>2. packet \in Packets /\ packet.kind = "deleted"
    <3>1. frame[t].mid \in Uid \cup Cid \cup Mid /\ "deleted" \in Kinds
      BY <1>3 DEF Retracts, TypeInv, FramesOK, Whole, HasMid, Kinds
    <3> QED BY <2>1, <3>1, OneType DEF Packet
  <2>e. Emits(t, u, packet)
    BY <2>1
  <2>3. Got(s, "message") \subseteq Got(s, "message")'
    BY <2>2, <2>e, EmitsFacts
  <2>4. InTurn(s) /\ Owes(s) => InTurn(s)'
    BY <2>2, <2>e, EmitsTurn
  <2> QED BY <2>3, <2>4
<1> QED BY <1>1, <1>2, <1>3 DEF Silent

\* A step that leaves nothing out of a replay and tells of no message.
LEMMA ApartTurn ==
    ASSUME TypeInv, TypeInv', Deleting = {}, OneEach, ListInv, ShowInv, PrivInv, GhostInv,
           TurnInv, NEW t \in Conn, Ask(t) \/ Continue(t),
           LoginUser(t) => UNCHANGED frame,
           ~LoginChannel(t), ~LoginMessage(t), ~SendNotify(t), ~AppendMessage(t),
           \A c \in Cid : ~SendMessage(t, c)
    PROVE  TurnInv'
<1>1. Apart(t)
  BY ApartSteps
<1>2. /\ \A s \in Conn : Got(s, "message") \subseteq Got(s, "message")'
      /\ \A s \in Conn \ disturbed' : InTurn(s) /\ Owes(s) => InTurn(s)'
      /\ Reads(t)' => Reads(t)
  <2>1. CASE CreateAnnounce(t)
    <3>1. PICK u, packet : /\ packet = Packet("channel", {frame[t].cid})
                           /\ Emits(t, u, packet) /\ frame[t].at = "create announce"
      BY <2>1 DEF CreateAnnounce, Emits, At
    <3>2. packet \in Packets /\ packet.kind = "channel"
      <4>1. frame[t].cid \in Uid \cup Cid \cup Mid /\ "channel" \in Kinds
        BY <3>1 DEF TypeInv, FramesOK, Whole, HasCid, Kinds
      <4> QED BY <3>1, <4>1, OneType DEF Packet
    <3>e. Emits(t, u, packet)
      BY <3>1
    <3>3. ASSUME NEW s \in Conn
          PROVE  /\ Got(s, "message") \subseteq Got(s, "message")'
                 /\ InTurn(s) /\ Owes(s) => InTurn(s)'
      <4>1. Got(s, "message") \subseteq Got(s, "message")'
        BY <3>2, <3>e, EmitsFacts
      <4>2. InTurn(s) /\ Owes(s) => InTurn(s)'
        BY <3>2, <3>e, EmitsTurn
      <4> QED BY <4>1, <4>2
    <3>4. ~Reads(t)'
      <4>1. PICK f : f = [frame[t] EXCEPT !.at = "create members"]
        OBVIOUS
      <4>2. f \in Frames /\ f.at = "create members"
        <5>1. frame[t] \in Frames /\ "create members" \in Places
          BY DEF TypeInv, FramesOK, Places
        <5>2. f \in Frames
          BY <4>1, <5>1, MoveType
        <5> QED BY <4>1, <5>1, <5>2 DEF Frames
      <4>3. frame'[t] = Advance(f, "members")
        BY <2>1, <4>1 DEF CreateAnnounce, TypeInv, FramesOK
      <4>4. frame'[t].at = f.at
        BY <4>2, <4>3, AdvanceFacts DEF Level
      <4> QED BY <4>2, <4>4 DEF Reads
    <3> QED BY <3>3, <3>4
  <2>2. CASE ~CreateAnnounce(t)
    <3>1. Discreet(t)
      BY <2>2, DiscreetSteps
    <3> QED BY <3>1, SilentTurn DEF Discreet
  <2> QED BY <2>1, <2>2
<1>3. ASSUME t \notin disturbed' PROVE Owes(t) /\ ReadSoFar(t)'
  <2>1. t \notin disturbed
    BY <1>3, OtherThreads DEF Others
  <2>2. Ranked(t)
    BY <2>1, RankedSteps DEF TurnInv
  <2>3. Owes(t)
    BY <1>1, <1>2, <1>3, <2>2, OwesApart
  <2>4. Reads(t)' => Reads(t) /\ UNCHANGED frame
    BY <1>2, ReadsStep
  <2>5. ReadSoFar(t) /\ LogsFixed /\ \A m \in messages' \ messages : channelOf[m] = Nil
    BY <2>1, FixedSteps, NewMade DEF TurnInv
  <2>6. ReadSoFar(t)'
    BY <1>2, <1>3, <2>4, <2>5, ReadKept
  <2> QED BY <2>3, <2>6
<1> QED BY <1>2, <1>3, TurnKeeps

\* A message is made, or joins the list of its channel: nobody is told yet.
LEMMA UntoldTurn ==
    ASSUME TypeInv, TypeInv', Deleting = {}, OneEach, ListInv, ShowInv, PrivInv, GhostInv,
           TurnInv, NEW t \in Conn, Ask(t) \/ Continue(t),
           AppendMessage(t) \/ \E c \in Cid : SendMessage(t, c)
    PROVE  TurnInv'
<1>1. QuietWires(t)
  BY NoWireQuiet DEF AppendMessage, SendMessage
<1>2. \A s \in Conn : /\ Got(s, "message") \subseteq Got(s, "message")'
                      /\ InTurn(s) /\ Owes(s) => InTurn(s)'
  BY <1>1, SilentTurn DEF Silent
<1>3. frame[t].at \notin Replaying /\ ~Reads(t)'
  <2>1. CASE AppendMessage(t)
    <3>1. PICK v : Pushed(t, Loop([frame[t] EXCEPT !.at = "send notify"], "members", v),
                          "messages", frame[t].cid, logOf[frame[t].cid])
      BY <2>1 DEF AppendMessage
    <3>2. frame'[t] = Loop([frame[t] EXCEPT !.at = "send notify"], "members", v)
      BY <3>1, PushedSame
    <3>3. Loop([frame[t] EXCEPT !.at = "send notify"], "members", v).at = "send notify"
      BY DEF Loop, TypeInv, FramesOK, Frames
    <3> QED BY <2>1, <3>2, <3>3 DEF AppendMessage, At, Replaying, Reads
  <2>2. ASSUME NEW c \in Cid, SendMessage(t, c) PROVE frame[t].at \notin Replaying /\ ~Reads(t)'
    <3>1. \E x : frame' = [frame EXCEPT ![t].at = "append", ![t].cid = c, ![t].mid = x]
      BY <2>2 DEF SendMessage
    <3>2. frame'[t].at = "append"
      BY <3>1 DEF TypeInv, FramesOK, Frames
    <3> QED BY <2>2, <3>2 DEF SendMessage, Request, Replaying, Reads
  <2> QED BY <2>1, <2>2
<1>4. ASSUME t \notin disturbed' PROVE Owes(t) /\ ReadSoFar(t)'
  <2>1. t \notin disturbed
    BY <1>4, OtherThreads DEF Others
  <2>2. Ranked(t)
    BY <2>1, RankedSteps DEF TurnInv
  <2> QED BY <1>2, <1>3, <2>2, OwesIdle DEF ReadSoFar
<1> QED BY <1>2, <1>4, TurnKeeps

-----------------------------------------------------------------------------
(* The steps that tell of messages                                          *)

\* A login that finds its user.
LEMMA LoginUserTurn ==
    ASSUME TypeInv, TypeInv', Deleting = {}, OneEach, ListInv, ShowInv, PrivInv, GhostInv,
           TurnInv, NEW t \in Conn, Ask(t) \/ Continue(t), LoginUser(t), ~UNCHANGED frame
    PROVE  TurnInv'
<1>1. PICK packet : packet \in Packets /\ packet.kind = "login" /\ Write(t, packet)
  <2>1. PICK u, packet : /\ u \in users /\ packet = Packet("login", {u})
                         /\ Write(t, packet)
    BY DEF LoginUser
  <2>2. u \in Uid \cup Cid \cup Mid /\ "login" \in Kinds
    BY <2>1 DEF TypeInv, TablesTypeOK, Kinds
  <2>3. packet \in Packets /\ packet.kind = "login"
    BY <2>1, <2>2, OneType DEF Packet
  <2> QED BY <2>1, <2>3
<1>2. frame[t].at \notin Replaying /\ ~Reads(t)' /\ UNCHANGED <<link, queue>>
  <2>1. PICK f : /\ f = Loop([frame[t] EXCEPT !.at = "login channels"], "channels",
                             chansOf[frame[t].uid])
                 /\ frame'[t] = f
    BY DEF LoginUser, TypeInv, FramesOK
  <2>2. f.at = "login channels"
    BY <2>1 DEF Loop, TypeInv, FramesOK, Frames
  <2> QED BY <2>1, <2>2 DEF LoginUser, At, Replaying, Reads
<1>3. \A s \in Conn : Got(s, "message") \subseteq Got(s, "message")'
  <2> TAKE s \in Conn
  <2>1. Ids(out[s], "message") \subseteq Ids(out'[s], "message")
    BY <1>1, WriteFacts
  <2> QED BY <2>1, Named
<1>4. \A s \in Conn : InTurn(s) /\ Owes(s) => InTurn(s)'
  BY <1>1, <1>2, SendsTurn
<1>5. ASSUME t \notin disturbed' PROVE Owes(t) /\ ReadSoFar(t)'
  <2>1. t \notin disturbed
    BY <1>5, OtherThreads DEF Others
  <2>2. Ranked(t)
    BY <2>1, RankedSteps DEF TurnInv
  <2> QED BY <1>2, <1>3, <2>2, OwesIdle DEF ReadSoFar
<1> QED BY <1>3, <1>4, <1>5, TurnKeeps

\* A message of a channel that is sent to nobody by its sender any more, being older than
\* another one that is known, is in the list of the channel.
LEMMA PriorListed ==
    ASSUME NewOrListed, GhostInv, Latest, NEW r \in Priors
    PROVE  r[1] \in Live(logOf[channelOf[r[1]]])
<1>1. /\ r[1] \in messages /\ r[1] \in Mid /\ r[2] \in Mid /\ r[1] < r[2]
      /\ senderOf[r[1]] = senderOf[r[2]]
  BY DEF Priors
<1>2. ASSUME NEW s \in Conn, Appends(s, r[1]) PROVE FALSE
  <2>1. frame[s].at = "append" /\ frame[s].mid = r[1]
    BY <1>2 DEF Appends
  <2>2. senderOf[r[1]] = auth[s]
    BY <2>1 DEF GhostInv, OwnWork, Acting
  <2>3. r[2] <= r[1]
    BY <1>1, <2>1, <2>2 DEF Latest, Sending
  <2>4. PICK m, n : m = r[1] /\ n = r[2] /\ m < n /\ n <= m /\ m \in Nat /\ n \in Nat
    BY <1>1, <2>3, NilAssumption
  <2> QED BY ONLY <2>4
<1> QED BY <1>1, <1>2 DEF NewOrListed

\* A login turns to its next channel: what comes before a known message is still to be read.
LEMMA LoginChannelTurn ==
    ASSUME TypeInv, TypeInv', Deleting = {}, OneEach, ListInv, ShowInv, PrivInv, NewOrListed,
           GhostInv, TurnInv, NEW t \in Conn, Ask(t) \/ Continue(t), LoginChannel(t)
    PROVE  TurnInv'
<1>1. PICK u, p, e, v : /\ u = frame[t].uid /\ v = chansOf[u]
                        /\ p = frame[t].pos["channels"] /\ e = frame[t].end["channels"]
  OBVIOUS
<1>2. /\ frame[t].at = "login channels" /\ p <= e /\ p \in Nat /\ e \in Nat /\ u \in Uid
      /\ p >= 1 /\ e <= v.len /\ v.len \in Nat
      /\ UNCHANGED <<messages, channels, channelOf, chansOf, logOf, link, auth, queue>>
  <2>1. frame[t].at = "login channels" /\ p <= e
    BY <1>1 DEF LoginChannel, At, More
  <2>2. u \in Uid /\ p \in Nat /\ e \in Nat
    BY <1>1, <2>1 DEF TypeInv, FramesOK, Frames, Level, Whole, HasUid
  <2>3. p >= 1 /\ e <= v.len
    BY <1>1, <2>1 DEF ShowInv, AllFollowing, Replaying, Following
  <2>4. v.len \in Nat
    BY <1>1, <2>2 DEF TypeInv, TablesTypeOK, Vectors
  <2> QED BY <2>1, <2>2, <2>3, <2>4 DEF LoginChannel, tables, rooms, texts
<1>3. PICK c \in Cell(t, "channels", chansOf, u) :
        \/ c \notin channels /\ frame'[t] = Advance(frame[t], "channels") /\ UNCHANGED out
        \/ c \in channels /\ frame'[t] = Replay(frame[t], c) /\ Write(t, Packet("channel", {c}))
  BY <1>1 DEF LoginChannel, Replay, TypeInv, FramesOK
<1>4. \A s \in Conn : /\ Got(s, "message") \subseteq Got(s, "message")'
                      /\ InTurn(s) /\ Owes(s) => InTurn(s)'
  <2>1. CASE UNCHANGED out
    <3>1. QuietWires(t)
      BY <1>2, <2>1, NoWireQuiet
    <3> QED BY <3>1, SilentTurn DEF Silent
  <2>2. CASE c \in channels /\ Write(t, Packet("channel", {c}))
    <3>1. PICK packet : packet = Packet("channel", {c}) /\ Write(t, packet)
      BY <2>2
    <3>2. packet \in Packets /\ packet.kind = "channel"
      <4>1. c \in Uid \cup Cid \cup Mid /\ "channel" \in Kinds
        BY <2>2 DEF TypeInv, TablesTypeOK, Kinds
      <4> QED BY <3>1, <4>1, OneType DEF Packet
    <3> TAKE s \in Conn
    <3>3. Ids(out[s], "message") \subseteq Ids(out'[s], "message")
      BY <3>1, <3>2, WriteFacts
    <3>4. InTurn(s) /\ Owes(s) => InTurn(s)'
      BY <1>2, <3>1, <3>2, SendsTurn
    <3> QED BY <3>3, <3>4, Named
  <2> QED BY <1>3, <2>1, <2>2
<1>5. ASSUME t \notin disturbed
      PROVE  c = v.cells[p] /\ c \in channels /\ c \in Cid
  <2>1. frame[t].loose = {}
    BY <1>5 DEF ShowInv, LooseInv
  <2>2. c = v.cells[p]
    BY <1>1, <1>3, <2>1 DEF Cell
  <2>3. p \in 1..v.len
    <3>1. PICK n \in Nat : n = v.len
      BY <1>2
    <3>2. p \in Nat /\ e \in Nat /\ p >= 1 /\ p <= e /\ e <= n
      BY <1>2, <3>1
    <3>3. p \in 1..n
      BY ONLY <3>1, <3>2
    <3> QED BY <3>1, <3>3
  <2>4. c \in channels
    BY <1>1, <1>2, <2>2, <2>3 DEF ShowInv, ChansWhole, Live
  <2> QED BY <2>2, <2>4 DEF TypeInv, TablesTypeOK
<1> DEFINE g == Replay(frame[t], c)
<1>6. /\ g.at = "login messages" /\ g.cid = c /\ g.uid = u
      /\ g.pos["channels"] = p + 1 /\ g.end["channels"] = e
      /\ g.pos["messages"] = 1 /\ g.end["messages"] = logOf[c].len
  <2>1. frame[t] \in Frames
    BY DEF TypeInv, FramesOK
  <2>2. /\ g.at = "login messages" /\ g.cid = c /\ g.uid = frame[t].uid
        /\ g.end["channels"] = frame[t].end["channels"]
    BY <2>1, ReplayFacts
  <2>3. g.pos["channels"] = frame[t].pos["channels"] + 1
    BY <2>1, ReplayFacts
  <2>4. g.pos["messages"] = 1
    BY <2>1, ReplayFacts
  <2>5. g.end["messages"] = logOf[c].len
    BY <2>1, ReplayEnd
  <2> HIDE DEF g
  <2> QED BY <1>1, <2>2, <2>3, <2>4, <2>5
<1>7. c \in channels => frame'[t] = g
  BY <1>3
<1> HIDE DEF g
<1>8. ASSUME t \notin disturbed, NEW r \in Priors, WillSee(t, channelOf[r[1]])
      PROVE  r[1] \in Ready(t)'
  <2>1. PICK m, d : m = r[1] /\ d = channelOf[m] /\ channelOf'[m] = d /\ m \in Mid
    BY <1>2 DEF Priors
  <2>2. PICK i \in p..e : v.cells[i] = d
    BY <1>1, <1>8, <2>1 DEF WillSee
  <2>3. frame'[t] = g /\ c = v.cells[p]
    BY <1>5, <1>7, <1>8
  <2>4. CASE i = p
    <3>1. m \in Live(logOf[c])
      BY <1>8, <2>1, <2>2, <2>3, <2>4, PriorListed DEF TurnInv, Numbered
    <3>2. PICK j \in 1..logOf[c].len : logOf[c].cells[j] = m
      BY <3>1 DEF Live
    <3>3. WillRead(t, m)'
      BY <1>2, <1>6, <2>1, <2>2, <2>3, <2>4, <3>2 DEF WillRead, Reads
    <3> QED BY <2>1, <3>3 DEF Ready
  <2>5. CASE i # p
    <3>1. i \in (p + 1)..e
      <4>1. p \in Nat /\ e \in Nat /\ i \in p..e /\ i # p
        BY <1>2, <2>2, <2>5
      <4> QED BY ONLY <4>1
    <3>2. WillSee(t, d)'
      BY <1>1, <1>2, <1>6, <2>2, <2>3, <3>1 DEF WillSee, Replaying
    <3> QED BY <2>1, <3>2 DEF Ready
  <2> QED BY <2>4, <2>5
<1>9. ASSUME t \notin disturbed' PROVE Owes(t) /\ ReadSoFar(t)'
  <2>1. t \notin disturbed
    BY <1>9, OtherThreads DEF Others
  <2>2. Ranked(t)
    BY <2>1, RankedSteps DEF TurnInv
  <2>3. ASSUME NEW r \in Priors, r[1] \in Ready(t) PROVE r[1] \in Ready(t)'
    <3>1. ~WillRead(t, r[1])
      BY <1>2 DEF WillRead, Reads
    <3>2. r[1] \in Got(t, "message") => r[1] \in Got(t, "message")'
      BY <1>4
    <3> QED BY <1>8, <2>1, <2>3, <3>1, <3>2 DEF Ready
  <2>4. Owes(t)
    BY <2>2, <2>3 DEF Owes, Ranked
  <2>5. ReadSoFar(t)'
    <3>1. /\ frame'[t].cid = c /\ frame'[t].pos["messages"] = 1
          /\ frame'[t].end["messages"] = logOf[c].len /\ logOf'[c] = logOf[c]
      BY <1>2, <1>5, <1>6, <1>7, <2>1
    <3>2. PICK n : n = logOf[c].len
      OBVIOUS
    <3>3. n \in Nat
      BY <1>5, <2>1, <3>2 DEF TypeInv, TablesTypeOK, Vectors
    <3>4. n <= n /\ \A i \in 1..n : ~(i < 1)
      BY ONLY <3>3
    <3> QED BY <3>1, <3>2, <3>4 DEF ReadSoFar
  <2> QED BY <2>4, <2>5
<1> QED BY <1>4, <1>9, TurnKeeps

\* A login writes the message its loop is at: it has written, or seen deleted, what its user
\* comes after.
LEMMA LoginMessageTurn ==
    ASSUME TypeInv, TypeInv', Deleting = {}, OneEach, ListInv, ShowInv, PrivInv, NewOrListed,
           GhostInv, TurnInv, NEW t \in Conn, Ask(t) \/ Continue(t), LoginMessage(t)
    PROVE  TurnInv'
<1>1. PICK c, p, e, w : /\ c = frame[t].cid /\ w = logOf[c].cells
                        /\ p = frame[t].pos["messages"] /\ e = frame[t].end["messages"]
  OBVIOUS
<1>2. /\ frame[t].at = "login messages" /\ p \in Nat /\ e \in Nat /\ c \in Cid /\ p >= 1 /\ p <= e
      /\ logOf[c].len \in Nat
      /\ UNCHANGED <<texts, chansOf, logOf, link, auth, queue, disturbed>>
  <2>1. frame[t].at = "login messages" /\ p <= e
    BY <1>1 DEF LoginMessage, At, More
  <2>2. p \in Nat /\ e \in Nat /\ c \in Cid
    <3>1. frame[t] \in Frames /\ Whole(frame[t])
      BY DEF TypeInv, FramesOK
    <3>2. p \in Nat /\ e \in Nat
      BY <1>1, <3>1 DEF Frames, Level
    <3> QED BY <1>1, <2>1, <3>1, <3>2 DEF Whole, HasCid
  <2>3. p >= 1
    BY <1>1, <2>1 DEF ListInv, Reading, Reads
  <2>4. logOf[c].len \in Nat
    BY <2>2 DEF TypeInv, TablesTypeOK, Vectors
  <2> QED BY <2>1, <2>2, <2>3, <2>4 DEF LoginMessage, tables, rooms
<1>3. PICK x \in Cell(t, "messages", logOf, c) :
        \/ x \in messages /\ Write(t, Packet("message", {x}))
        \/ x \notin messages /\ UNCHANGED out
  BY <1>1 DEF LoginMessage
<1>4. ASSUME t \notin disturbed
      PROVE  /\ x = w[p] /\ p \in 1..logOf[c].len /\ e <= logOf[c].len
             /\ \A i \in 1..e : i < p /\ w[i] \in messages => w[i] \in Got(t, "message")
  <2>1. x = w[p]
    BY <1>1, <1>3, <1>4 DEF ShowInv, LooseInv, Cell
  <2>2. /\ e <= logOf[c].len
        /\ \A i \in 1..e : i < p /\ w[i] \in messages => w[i] \in Got(t, "message")
    BY <1>1, <1>2, <1>4 DEF TurnInv, ReadSoFar, Reads
  <2>3. p \in 1..logOf[c].len
    <3>1. PICK n \in Nat : n = logOf[c].len
      BY <1>2
    <3>2. p \in Nat /\ e \in Nat /\ p >= 1 /\ p <= e /\ e <= n
      BY <1>2, <2>2, <3>1
    <3>3. p \in 1..n
      BY ONLY <3>1, <3>2
    <3> QED BY <3>1, <3>3
  <2> QED BY <2>1, <2>2, <2>3
<1> DEFINE packet == Packet("message", {x})
           h == Advance(frame[t], "messages")
<1>5. x \in messages =>
        /\ x \in Mid /\ packet \in Packets /\ Adds(packet, "message") = {x}
        /\ packet.kind = "message" /\ packet.ids = {x} /\ Write(t, packet)
  <2> SUFFICES ASSUME x \in messages
               PROVE  /\ x \in Mid /\ packet \in Packets /\ Adds(packet, "message") = {x}
                      /\ packet.kind = "message" /\ packet.ids = {x} /\ Write(t, packet)
    OBVIOUS
  <2>1. x \in Mid /\ "message" \in Kinds
    BY DEF TypeInv, TablesTypeOK, Kinds
  <2> QED BY <1>3, <2>1, OneType DEF Packet, Adds
<1>p. packet = Packet("message", {x})
  OBVIOUS
<1> HIDE DEF packet
<1>6. /\ h.at = frame[t].at /\ h.cid = c /\ h.uid = frame[t].uid /\ h.end = frame[t].end
      /\ h.pos["messages"] = p + 1 /\ h.pos["channels"] = frame[t].pos["channels"]
  <2>1. frame[t] \in Frames /\ "messages" \in Level /\ "channels" \in Level \ {"messages"}
    BY DEF TypeInv, FramesOK, Level
  <2> QED BY <1>1, <2>1, AdvanceFacts
<1>7. frame'[t] = h
  BY DEF LoginMessage, TypeInv, FramesOK
<1> HIDE DEF h
<1>8. \A s \in Conn : /\ Got(s, "message") \subseteq Got(s, "message")'
                      /\ x \in messages /\ s = t => x \in Got(s, "message")'
  <2>1. CASE UNCHANGED out /\ x \notin messages
    BY <2>1 DEF Got
  <2>2. CASE x \in messages
    <3> TAKE s \in Conn
    <3>1. Ids(out'[s], "message") = Ids(out[s], "message")
                                    \cup (IF s = t THEN Adds(packet, "message") ELSE {})
      BY <1>5, <2>2, WriteFacts
    <3> QED BY <1>5, <2>2, <3>1, Named
  <2> QED BY <1>3, <2>1, <2>2
\* What comes before x was passed by the loop, or is gone.
<1>9. ASSUME t \notin disturbed, NEW r \in Priors, r[2] = x PROVE r[1] \in Got(t, "message")
  <2>1. PICK m : m = r[1] /\ m \in messages /\ m \in Mid /\ x \in Mid /\ m < x
                 /\ senderOf[m] = senderOf[x] /\ channelOf[m] = channelOf[x]
    BY <1>9 DEF Priors
  <2>2. channelOf[x] = c
    <3>1. x \in Live(logOf[c])
      BY <1>1, <1>4, <1>9 DEF Live
    <3> QED BY <1>2, <3>1, ListedMade
  <2>3. PICK k \in 1..logOf[c].len : w[k] = m
    BY <1>1, <1>9, <2>1, <2>2, PriorListed DEF TurnInv, Numbered, Live
  <2>4. ~(k > p)
    <3>1. Sorted(logOf[c])
      BY <1>2 DEF TurnInv, Numbered, AllSorted
    <3>2. PICK n \in Nat : n = logOf[c].len
      BY <1>2
    <3>3. k \in 1..n /\ p \in 1..n /\ w[k] = m /\ w[p] = x
      BY <1>4, <1>9, <2>3, <3>2
    <3>4. p < k /\ senderOf[w[p]] = senderOf[w[k]] => w[p] < w[k]
      BY <1>1, <3>1, <3>2, <3>3 DEF Sorted
    <3>5. m \in Nat /\ x \in Nat
      BY <2>1, NilAssumption
    <3>6. p < k => x < m
      BY <2>1, <3>3, <3>4
    <3>7. m < x
      BY <2>1
    <3> QED BY ONLY <3>3, <3>5, <3>6, <3>7
  <2>5. k # p
    BY <1>4, <1>9, <2>1, <2>3, NilAssumption
  <2>6. k \in 1..e /\ k < p
    <3>1. PICK n \in Nat : n = logOf[c].len
      BY <1>2
    <3>2. k \in 1..n /\ p \in 1..n /\ ~(k > p) /\ k # p /\ e \in Nat /\ p <= e
      BY <1>2, <1>4, <1>9, <2>3, <2>4, <2>5, <3>1
    <3> QED BY ONLY <3>1, <3>2
  <2> QED BY <1>4, <1>9, <2>1, <2>3, <2>6
<1>10. ASSUME NEW s \in Conn \ disturbed', InTurn(s), Owes(s) PROVE InTurn(s)'
  <2>1. CASE UNCHANGED out
    <3>1. QuietWires(t)
      BY <1>2, <2>1, NoWireQuiet
    <3> QED BY <1>10, <3>1, SilentTurn DEF Silent
  <2>2. CASE x \in messages /\ s = t
    <3>1. \A r \in Priors' : r[2] \in packet.ids => r[1] \in Got(t, "message")
      BY <1>2, <1>5, <1>9, <1>10, <2>2 DEF Priors, texts
    <3>2. \E m \in Mid : packet = Packet("message", {m})
      BY <1>p, <1>5, <2>2
    <3> QED BY <1>2, <1>5, <1>10, <2>2, <3>1, <3>2, SendsTurn
  <2>3. CASE x \in messages /\ s # t
    <3>1. out'[s] = out[s] /\ queue'[s] = queue[s] /\ (On(s)' <=> On(s))
      BY <1>2, <1>5, <2>3 DEF Write, TypeInv, WiresOK, On
    <3> QED BY <1>10, <3>1, TurnKept DEF InTurn
  <2> QED BY <1>3, <2>1, <2>2, <2>3
<1>11. ASSUME t \notin disturbed, NEW m \in messages, WillRead(t, m)
       PROVE  m \in Ready(t)'
  <2>1. PICK i \in p..e : w[i] = m
    BY <1>1, <1>11 DEF WillRead
  <2>2. c = channelOf[m] /\ m \in Mid
    BY <1>1, <1>11 DEF WillRead, TypeInv, TablesTypeOK
  <2>3. CASE i = p
    <3>1. x = m
      BY <1>4, <1>11, <2>1, <2>3
    <3> QED BY <1>8, <1>11, <2>2, <3>1 DEF Ready
  <2>4. CASE i # p
    <3>1. i \in (p + 1)..e
      <4>1. p \in Nat /\ e \in Nat /\ i \in p..e /\ i # p
        BY <1>2, <2>1, <2>4
      <4> QED BY ONLY <4>1
    <3>2. WillRead(t, m)'
      BY <1>1, <1>2, <1>6, <1>7, <2>1, <2>2, <3>1 DEF WillRead, Reads, texts
    <3> QED BY <2>2, <3>2 DEF Ready
  <2> QED BY <2>3, <2>4
<1>12. ASSUME t \notin disturbed' PROVE Owes(t) /\ ReadSoFar(t)'
  <2>1. t \notin disturbed
    BY <1>12, OtherThreads DEF Others
  <2>2. ASSUME NEW r \in Priors, r[1] \in Ready(t) PROVE r[1] \in Ready(t)'
    <3>1. r[1] \in messages /\ r[1] \in Mid
      BY DEF Priors
    <3>2. ASSUME WillSee(t, channelOf[r[1]]) PROVE WillSee(t, channelOf[r[1]])'
      <4>1. PICK d : d = channelOf[r[1]] /\ channelOf'[r[1]] = d
        BY <1>2 DEF texts
      <4>2. WillSee(t, d)'
        BY <1>2, <1>6, <1>7, <3>2, <4>1, SeeStill DEF ChansHold, Replaying
      <4> QED BY <4>1, <4>2
    <3>3. r[1] \in Got(t, "message") => r[1] \in Got(t, "message")'
      BY <1>8
    <3> QED BY <1>11, <2>1, <2>2, <3>1, <3>2, <3>3 DEF Ready
  <2>3. Owes(t)
    BY <1>2, <2>2 DEF Owes, Priors, texts
  <2>4. Reads(t) /\ frame'[t].cid = frame[t].cid
        /\ frame'[t].end["messages"] = frame[t].end["messages"]
    BY <1>1, <1>2, <1>6, <1>7 DEF Reads
  <2>5. ASSUME NEW i \in 1..e, i < p + 1 PROVE i < p \/ (w[i] \in messages => w[i] \in Got(t, "message")')
    <3>1. i < p \/ i = p
      <4>1. p \in Nat /\ e \in Nat /\ i \in 1..e /\ i < p + 1
        BY <1>2, <2>5
      <4> QED BY ONLY <4>1
    <3> QED BY <1>4, <1>8, <2>1, <3>1
  <2>6. ReadSoFar(t) /\ LogsFixed /\ \A m \in messages' \ messages : channelOf[m] = Nil
    BY <2>1, FixedSteps, NewMade DEF TurnInv
  <2>7. \A i \in 1..frame[t].end["messages"] : i < frame'[t].pos["messages"] =>
            \/ i < frame[t].pos["messages"]
            \/ logOf[frame[t].cid].cells[i] \in messages =>
                  logOf[frame[t].cid].cells[i] \in Got(t, "message")'
    BY <1>1, <1>6, <1>7, <2>5
  <2>8. ReadSoFar(t)'
    BY <1>8, <1>12, <2>4, <2>6, <2>7, ReadKept
  <2> QED BY <2>3, <2>8
<1> QED BY <1>8, <1>10, <1>12, TurnKeeps

\* A member is told of a message: what its sender sent to the channel before has been told
\* to it, or a login over the connection is going to replay it before it handles this.
LEMMA SendNotifyTurn ==
    ASSUME TypeInv, TypeInv', Deleting = {}, OneEach, ListInv, ShowInv, PrivInv, AllComing,
           GhostInv, TurnInv, NEW t \in Conn, Ask(t) \/ Continue(t), SendNotify(t)
    PROVE  TurnInv'
<1>1. PICK c, x, p, v, u : /\ c = frame[t].cid /\ x = frame[t].mid /\ v = membersOf[c]
                           /\ p = frame[t].pos["members"] /\ u = v.cells[p]
  OBVIOUS
<1>2. /\ frame[t].at = "send notify" /\ c \in Cid /\ x \in Mid /\ channelOf[x] = c
      /\ senderOf[x] = auth[t] /\ auth[t] \in Uid /\ On(t)
      /\ UNCHANGED <<texts, membersOf, chansOf, logOf, link, auth, disturbed>>
      /\ \A s \in Conn \ {t} : frame'[s] = frame[s]
  <2>1. frame[t].at = "send notify"
    BY DEF SendNotify, At
  <2>2. c \in Cid /\ x \in Mid
    BY <1>1, <2>1 DEF TypeInv, FramesOK, Whole, HasCid, HasMid
  <2>3. channelOf[x] = c
    BY <1>1, <2>1 DEF ListInv, SecretInv, Carried, Holding
  <2>4. senderOf[x] = auth[t] /\ senderOf[x] \in Uid
    BY <1>1, <2>1, <2>2, <2>3, NilAssumption DEF GhostInv, OwnWork, Acting, Holding, Signed
  <2>5. On(t)
    BY <2>1 DEF TurnInv, Numbered, Speaking, Sending
  <2>6. UNCHANGED <<texts, membersOf, chansOf, logOf, link, auth, disturbed>>
    BY DEF SendNotify, tables, rooms
  <2>7. \A s \in Conn \ {t} : frame'[s] = frame[s]
    BY DEF SendNotify, NotifyMember, Done, Return, TypeInv, FramesOK
  <2> QED BY <2>1, <2>2, <2>3, <2>4, <2>5, <2>6, <2>7
<1> DEFINE packet == Packet("message", {x})
<1>3. packet \in Packets /\ packet.kind = "message" /\ packet.ids = {x}
  <2>1. x \in Uid \cup Cid \cup Mid /\ "message" \in Kinds
    BY <1>2 DEF Kinds
  <2> QED BY <2>1, OneType DEF Packet
<1>4. packet = Packet("message", {x})
  OBVIOUS
<1>5. \/ Done(t) /\ UNCHANGED <<out, queue>>
      \/ NotifyMember(t, packet)
  BY <1>1 DEF SendNotify
<1> HIDE DEF packet
<1>6. \/ QuietWires(t)
      \/ Emits(t, u, packet) /\ u \in Live(membersOf[c])
  <2>1. CASE Done(t) /\ UNCHANGED <<out, queue>>
    <3>1. UNCHANGED <<link, auth, queue, out>>
      BY <1>2, <2>1
    <3> QED BY <3>1, NoWireQuiet
  <2>2. CASE NotifyMember(t, packet)
    <3>1. QuietWires(t) \/ Emits(t, u, packet)
      BY <1>1, <1>2, <2>2, NotifyWires
    <3>2. u \in Live(membersOf[c])
      <4>1. Talks(t) /\ More(t, "members")
        BY <1>2, <2>2 DEF PrivInv, Talking, NotifyMember
      <4>2. PICK e, n : e = frame[t].end["members"] /\ n = v.len
        OBVIOUS
      <4>3. p >= 1 /\ p <= e /\ e <= n
        BY <1>1, <4>1, <4>2 DEF Talks, More
      <4>4. p \in Nat /\ e \in Nat
        BY <1>1, <4>2 DEF TypeInv, FramesOK, Frames, Level
      <4>5. n \in Nat
        BY <1>1, <1>2, <4>2 DEF TypeInv, TablesTypeOK, Vectors
      <4>6. p \in 1..n
        BY ONLY <4>3, <4>4, <4>5
      <4> QED BY <1>1, <4>2, <4>6 DEF Live
    <3> QED BY <3>1, <3>2
  <2> QED BY <1>5, <2>1, <2>2
\* What the user of t sent to the channel before was told to s, or will be.
<1>7. ASSUME Emits(t, u, packet), u \in Live(membersOf[c]), NEW s \in Conn \ disturbed,
             auth[s] = u, NEW r \in Priors, r[2] = x, On(s)
      PROVE  \/ r[1] \in Got(s, "message")
             \/ s # t /\ r[1] \in Posted(s, "message") \cup Ready(s)'
  <2>1. PICK m : /\ m = r[1] /\ m \in messages /\ m \in Mid /\ m < x
                 /\ senderOf[m] = auth[t] /\ channelOf[m] = c
    BY <1>2, <1>7 DEF Priors
  <2>2. Served(s)
    <3>1. u \in Uid
      BY <1>1, <1>2, <1>7, LiveType DEF TypeInv, TablesTypeOK
    <3> QED BY <1>7, <3>1, NilAssumption DEF Served
  <2>3. Coming(s, m)
    BY <1>7, <2>1, <2>2 DEF AllComing
  <2>4. CASE m \in Reached(s, "message")
    <3>1. CASE s = t
      <4>1. m \notin Posted(t, "message")
        BY <2>1 DEF GhostInv, AllForeign, Foreign
      <4> QED BY <2>1, <2>4, <3>1, <4>1 DEF Reached
    <3> QED BY <2>1, <2>4, <3>1 DEF Reached
  <2>5. ASSUME NEW q \in Conn, WillTell(q, m, auth[s]) PROVE FALSE
    <3>1. frame[q].mid = m /\ frame[q].at \in Acting
      BY <2>5 DEF WillTell, Acting, Holding
    <3>2. auth[q] = auth[t]
      BY <2>1, <3>1 DEF GhostInv, OwnWork
    <3>3. q = t
      BY <1>2, <3>2, NilAssumption DEF OneEach
    <3>4. m = x /\ m < x /\ m \in Nat
      BY <1>1, <2>1, <3>1, <3>3, NilAssumption
    <3> QED BY ONLY <3>4
  <2>6. CASE WillSee(s, channelOf[m]) \/ WillRead(s, m)
    <3>1. s # t
      BY <1>2, <2>6 DEF WillSee, WillRead, Reads, Replaying
    <3>2. WillSee(s, channelOf[m])' \/ WillRead(s, m)'
      BY <1>2, <2>6, <3>1 DEF WillSee, WillRead, Reads, texts
    <3> QED BY <2>1, <3>1, <3>2 DEF Ready
  <2> QED BY <2>3, <2>4, <2>5, <2>6 DEF Coming
<1>8. ASSUME NEW s \in Conn \ disturbed', InTurn(s), Owes(s) PROVE InTurn(s)'
  <2>1. CASE QuietWires(t)
    BY <1>8, <2>1, SilentTurn DEF Silent
  <2>2. CASE Emits(t, u, packet) /\ u \in Live(membersOf[c])
    <3>1. \E m \in Mid : packet = Packet("message", {m})
      BY <1>2, <1>4
    <3>2. ASSUME auth[s] = u, NEW r \in Priors', r[2] \in packet.ids
          PROVE  \/ r[1] \in Got(s, "message")
                 \/ s # t /\ (On(s) => r[1] \in Posted(s, "message") \cup Ready(s)')
      <4>1. r \in Priors /\ r[2] = x /\ s \notin disturbed
        BY <1>2, <1>3, <3>2 DEF Priors, texts
      <4> QED BY <1>2, <1>7, <2>2, <3>2, <4>1
    <3>3. Emits(t, u, packet)
      BY <2>2
    <3> QED BY <1>3, <1>8, <3>1, <3>2, <3>3, EmitsTurn
  <2> QED BY <1>6, <2>1, <2>2
<1>9. \A s \in Conn : Got(s, "message") \subseteq Got(s, "message")'
  <2>1. CASE QuietWires(t)
    BY <2>1, SilentTurn DEF Silent
  <2>2. CASE Emits(t, u, packet)
    BY <1>3, <2>2, EmitsFacts
  <2> QED BY <1>6, <2>1, <2>2
<1>10. frame[t].at \notin Replaying /\ ~Reads(t)'
  <2>1. CASE Done(t)
    <3>1. frame'[t].at \in {"idle", "sweep"}
      BY <2>1, Returned DEF Done, TypeInv, FramesOK
    <3> QED BY <1>2, <3>1 DEF Reads, Replaying
  <2>2. CASE NotifyMember(t, packet)
    <3>1. PICK f : f = Advance(frame[t], "members") /\ frame'[t] = f
      BY <2>2 DEF NotifyMember, TypeInv, FramesOK
    <3>2. f.at = frame[t].at
      <4>1. frame[t] \in Frames /\ "members" \in Level
        BY DEF TypeInv, FramesOK, Level
      <4> QED BY <3>1, <4>1, AdvanceFacts
    <3> QED BY <1>2, <3>1, <3>2 DEF Reads, Replaying
  <2> QED BY <1>5, <2>1, <2>2
<1>11. ASSUME t \notin disturbed' PROVE Owes(t) /\ ReadSoFar(t)'
  <2>1. t \notin disturbed
    BY <1>11, OtherThreads DEF Others
  <2>2. Ranked(t)
    BY <2>1, RankedSteps DEF TurnInv
  <2> QED BY <1>9, <1>10, <2>2, OwesIdle DEF ReadSoFar
<1> QED BY <1>8, <1>9, <1>11, TurnKeeps

\* Every step, while no account is deleted and has more than one connection.
LEMMA TurnNext ==
    ASSUME TypeInv, TypeInv', Deleting = {}, OneEach, ListInv, ShowInv, PrivInv, NewOrListed,
           AllComing, GhostInv, TurnInv, [Next]_vars
    PROVE  TurnInv'
<1>1. ASSUME NEW t \in Conn, Ask(t) \/ Continue(t) PROVE TurnInv'
  <2>1. CASE LoginUser(t) /\ ~UNCHANGED frame
    BY <1>1, <2>1, LoginUserTurn
  <2>2. CASE LoginChannel(t)
    BY <1>1, <2>2, LoginChannelTurn
  <2>3. CASE LoginMessage(t)
    BY <1>1, <2>3, LoginMessageTurn
  <2>4. CASE SendNotify(t)
    BY <1>1, <2>4, SendNotifyTurn
  <2>5. CASE AppendMessage(t) \/ \E c \in Cid : SendMessage(t, c)
    BY <1>1, <2>5, UntoldTurn
  <2>6. CASE /\ LoginUser(t) => UNCHANGED frame
             /\ ~LoginChannel(t) /\ ~LoginMessage(t) /\ ~SendNotify(t) /\ ~AppendMessage(t)
             /\ \A c \in Cid : ~SendMessage(t, c)
    BY <1>1, <2>6, ApartTurn
  <2> QED BY <2>1, <2>2, <2>3, <2>4, <2>5, <2>6
<1>2. CASE UNCHANGED vars
  <2>1. UNCHANGED <<logOf, chansOf, texts, link, auth, frame, queue, out, disturbed>>
    BY <1>2 DEF vars, tables, rooms, threads
  <2>2. Numbered'
    BY <2>1 DEF TurnInv, Numbered, Ascending, Dated, Latest, Speaking, On, AllSorted, Sorted, texts
  <2>3. ASSUME NEW s \in Conn \ disturbed PROVE InTurn(s)' /\ ReadSoFar(s)'
    <3>1. Priors' = Priors
      BY <2>1 DEF Priors, texts
    <3>2. Got(s, "message")' = Got(s, "message") /\ (On(s)' <=> On(s))
      BY <2>1 DEF Got, On
    <3>3. Ready(s)' = Ready(s)
      BY <2>1, <3>2 DEF Ready, WillSee, WillRead, Reads, texts
    <3>4. InTurn(s) /\ ReadSoFar(s)
      BY DEF TurnInv
    <3>5. InTurn(s)'
      BY <2>1, <3>1, <3>2, <3>3, <3>4 DEF InTurn
    <3>6. ReadSoFar(s)'
      BY <2>1, <3>2, <3>4 DEF ReadSoFar, Reads, texts
    <3> QED BY <3>5, <3>6
  <2> QED BY <2>1, <2>2, <2>3 DEF TurnInv
<1> QED BY <1>1, <1>2 DEF Next, Rest

\* At first there are no messages.
LEMMA TurnInit == Init => TurnInv
<1> SUFFICES ASSUME Init PROVE TurnInv
  OBVIOUS
<1>1. /\ channelOf = [m \in Mid |-> Nil] /\ senderOf = [m \in Mid |-> Nil]
      /\ \A c \in Cid : logOf[c] = VectorOf(<<>>)
      /\ \A t \in Conn : out[t] = <<>> /\ queue[t] = <<>> /\ frame[t].at \notin Sending /\ ~Reads(t)
  BY DEF Init, TablesInit, Idle, Sending, Reads
<1>2. Numbered
  <2>1. AllSorted
    BY <1>1 DEF AllSorted, Sorted, VectorOf
  <2> QED BY <1>1, <2>1 DEF Numbered, Ascending, Dated, Latest, Speaking
<1>3. ASSUME NEW t \in Conn PROVE InTurn(t) /\ ReadSoFar(t)
  <2>1. \A R, A : Owed(<<>>, R, A)
    BY IdsEmpty, OwedNothing
  <2>2. Single(<<>>)
    BY DEF Single
  <2> QED BY <1>1, <2>1, <2>2 DEF InTurn, ReadSoFar
<1> QED BY <1>2, <1>3 DEF TurnInv

\* What the packets of a connection in turn say.
LEMMA TurnShown == TypeInv /\ TurnInv => SenderOrder
<1> SUFFICES ASSUME TypeInv, TurnInv, NEW t \in Conn \ disturbed, NEW j \in 1..Len(out[t]),
                    NEW n \in out[t][j].ids, out[t][j].kind = "message", NEW m \in messages,
                    m < n, senderOf[m] = senderOf[n], channelOf[m] = channelOf[n]
             PROVE  \E i \in 1..(j - 1) : out[t][i] = Packet("message", {m})
  BY DEF SenderOrder
<1>1. Single(out[t]) /\ Owed(out[t], Priors, {})
  BY DEF TurnInv, InTurn
<1>2. PICK l \in Nat : l = Len(out[t])
  BY DEF TypeInv, WiresOK
<1>3. n \in Mid
  <2>1. PICK k \in Mid : out[t][j] = Packet("message", {k})
    BY <1>1 DEF Single
  <2> QED BY <2>1 DEF Packet
<1>4. <<m, n>> \in Priors
  <2>1. m \in Mid
    BY DEF TypeInv, TablesTypeOK
  <2> QED BY <1>3, <2>1 DEF Priors
<1>5. Says(out[t][j], n)
  BY DEF Says
<1>6. Before(out[t], j, m)
  <2>1. \A r \in Priors : Says(out[t][j], r[2]) => Before(out[t], j, r[1])
    BY <1>1 DEF Owed
  <2> QED BY <1>4, <1>5, <2>1
<1>7. PICK i \in 1..(j - 1) : Says(out[t][i], m)
  BY <1>6 DEF Before
<1>8. i \in 1..Len(out[t])
  <2>1. j \in 1..l /\ i \in 1..(j - 1)
    BY <1>2
  <2>2. i \in 1..l
    BY ONLY <1>2, <2>1
  <2> QED BY <1>2, <2>2
<1>9. PICK k \in Mid : out[t][i] = Packet("message", {k})
  BY <1>1, <1>7, <1>8 DEF Single, Says
<1> QED BY <1>7, <1>9 DEF Says, Packet

\* While no account is deleted and none has a second connection, and no message is sent into a
\* channel still being created: what an undisturbed connection of a member is sent of
\* another's messages in a channel comes in the order in which they were sent, however the
\* sending, the deleting and the member's login overlap (on_send_text, on_login, the event
\* queues).  A login replays the list of the channel, which is in that order, before the
\* events posted meanwhile.
THEOREM InSendersOrder ==
    Spec /\ [](Deleting = {}) /\ []OneEach /\ []NoneEarly => []SenderOrder
<1>1. /\ TypeInv /\ TypeInv' /\ Placed /\ DeleterInv /\ Deleting = {} /\ OneEach /\ NoneEarly
      /\ AccountInv /\ RoomInv /\ ListInv /\ StoreInv /\ ShowInv /\ PrivInv /\ PushInv
      /\ NewOrListed /\ AllComing /\ OnceInv /\ GhostInv /\ TurnInv /\ [Next]_vars
      => /\ DeleterInv' /\ ListInv' /\ StoreInv' /\ ShowInv' /\ PrivInv' /\ PushInv'
         /\ NewOrListed' /\ AllComing' /\ OnceInv' /\ GhostInv' /\ TurnInv'
  <2> SUFFICES ASSUME TypeInv, TypeInv', Placed, DeleterInv, Deleting = {}, OneEach, NoneEarly,
                      AccountInv, RoomInv, ListInv, StoreInv, ShowInv, PrivInv, PushInv,
                      NewOrListed, AllComing, OnceInv, GhostInv, TurnInv, [Next]_vars
               PROVE  /\ DeleterInv' /\ ListInv' /\ StoreInv' /\ ShowInv' /\ PrivInv' /\ PushInv'
                      /\ NewOrListed' /\ AllComing' /\ OnceInv' /\ GhostInv' /\ TurnInv'
    OBVIOUS
  <2>1. DeleterInv'
    BY DeleterNext DEF TypeInv, DeleterInv
  <2>2. ListInv'
    BY ListNext DEF TypeInv
  <2>3. ShowInv'
    BY ShowNext
  <2>4. StoreInv'
    BY StoreNext DEF DeleterInv, ShowInv
  <2>5. PrivInv' /\ PushInv'
    BY PrivNext, PushNext
  <2>6. NewOrListed'
    BY NewNext
  <2>7. AllComing'
    BY ComingNext
  <2>8. OnceInv' /\ GhostInv'
    BY OnceNext, GhostNext
  <2>9. TurnInv'
    BY TurnNext
  <2> QED BY <2>1, <2>2, <2>3, <2>4, <2>5, <2>6, <2>7, <2>8, <2>9
<1> QED BY <1>1, TurnShown, DeleterInit, ListInit, StoreInit, ShowInit, PrivInit, PushInit,
           ComingInit, OnceInit, GhostInit, TurnInit, Roomed, Typed, PTL DEF Spec

=============================================================================
