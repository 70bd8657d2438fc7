------------------------------ MODULE PushProofs ------------------------------
(***************************************************************************)
(* What a connection is sent, for any number of connections, whatever the     *)
(* threads post to one another: nothing of channels and messages before a      *)
(* login over it, nothing new but of the channels of the account logged in     *)
(* over it, and in the end every channel of its user and every message of an   *)
(* established one.  Connections whose loop had its vector changed by another  *)
(* thread are excepted from all but the first.                                *)
(***************************************************************************)
EXTENDS RoomProofs

-----------------------------------------------------------------------------
(* The invariant                                                            *)

Welcome(packet) == packet.kind = "login" /\ packet.ids # {}

Welcomed(t) == \E i \in 1..Len(out[t]) : Welcome(out[t][i])

\* A handler that is connected to a user, replays a login or has an event of a channel posted
\* to it has answered a login with success.
Welcoming ==
    \A t \in Conn :
        (\/ auth[t] # Nil
         \/ frame[t].at \in Replaying
         \/ \E i \in 1..Len(queue[t]) : queue[t][i].kind \in Pushes) => Welcomed(t)

PushInv == PushesFollowLogin /\ Welcoming

-----------------------------------------------------------------------------
(* What a packet or an event does                                           *)

\* An answer of t, a push only if t was welcomed.
LEMMA Written ==
    ASSUME TypeInv, PushesFollowLogin, NEW t \in Conn, NEW packet \in Packets,
           Write(t, packet), packet.kind \in Pushes => Welcomed(t)
    PROVE  /\ PushesFollowLogin'
           /\ \A s \in Conn : Welcomed(s) => Welcomed(s)'
           /\ Welcome(packet) => Welcomed(t)'
<1>1. out \in [Conn -> Seq(Packets)] /\ out[t] \in Seq(Packets) /\ Len(out[t]) \in Nat
  BY DEF TypeInv, WiresOK
<1>2. /\ \A s \in Conn \ {t} : out'[s] = out[s]
      /\ Len(out'[t]) = Len(out[t]) + 1
      /\ \A i \in 1..Len(out[t]) : out'[t][i] = out[t][i]
      /\ out'[t][Len(out[t]) + 1] = packet
  BY <1>1 DEF Write
<1>3. \A s \in Conn : Welcomed(s) => Welcomed(s)'
  BY <1>1, <1>2 DEF Welcomed
<1>4. Welcome(packet) => Welcomed(t)'
  BY <1>1, <1>2, SMTT(30) DEF Welcomed
<1>5. ASSUME NEW s \in Conn, NEW i \in 1..Len(out'[s]), out'[s][i].kind \in Pushes
      PROVE  \E j \in 1..(i - 1) : Welcome(out'[s][j])
  <2>1. CASE s = t /\ i = Len(out[t]) + 1
    BY <1>1, <1>2, <1>5, <2>1 DEF Welcomed
  <2>2. CASE ~(s = t /\ i = Len(out[t]) + 1)
    <3>1. i \in 1..Len(out[s]) /\ out'[s][i] = out[s][i] /\ Len(out[s]) \in Nat
      BY <1>1, <1>2, <2>2 DEF TypeInv, WiresOK
    <3>2. PICK j \in 1..(i - 1) : Welcome(out[s][j])
      BY <1>5, <3>1 DEF PushesFollowLogin, Pushes, Welcome
    <3>3. j \in 1..Len(out[s]) /\ (s = t => j \in 1..Len(out[t]))
      BY <3>1, <3>2
    <3>4. out'[s][j] = out[s][j]
      BY <1>2, <3>3
    <3> QED BY <3>2, <3>4
  <2> QED BY <2>1, <2>2
<1>6. PushesFollowLogin'
  BY <1>5 DEF PushesFollowLogin, Pushes, Welcome
<1> QED BY <1>3, <1>4, <1>6

\* A step that tells nobody of a channel and begins no session.
LEMMA Untold ==
    ASSUME TypeInv, PushInv, NEW t \in Conn, UNCHANGED <<auth, queue>>,
           \/ UNCHANGED out
           \/ \E packet \in Packets : Write(t, packet) /\ packet.kind \notin Pushes,
           \A s \in Conn : frame'[s].at \in Replaying => frame[s].at \in Replaying
    PROVE  PushInv'
<1>1. PushesFollowLogin' /\ \A s \in Conn : Welcomed(s) => Welcomed(s)'
  <2>1. CASE UNCHANGED out
    BY <2>1 DEF PushInv, PushesFollowLogin, Welcomed
  <2>2. ASSUME NEW packet \in Packets, Write(t, packet), packet.kind \notin Pushes
        PROVE  PushesFollowLogin' /\ \A s \in Conn : Welcomed(s) => Welcomed(s)'
    BY <2>2, Written DEF PushInv
  <2> QED BY <2>1, <2>2
<1>2. Welcoming'
  BY <1>1 DEF PushInv, Welcoming
<1> QED BY <1>1, <1>2 DEF PushInv

\* A packet of a channel goes to a handler that replays a login or is connected to a user.
LEMMA Told ==
    ASSUME TypeInv, PushInv, NEW t \in Conn, Welcomed(t), UNCHANGED <<auth, queue>>,
           UNCHANGED out \/ \E packet \in Packets : Write(t, packet),
           \A s \in Conn : frame'[s].at \in Replaying => frame[s].at \in Replaying
    PROVE  PushInv'
<1>1. PushesFollowLogin' /\ \A s \in Conn : Welcomed(s) => Welcomed(s)'
  <2>1. CASE UNCHANGED out
    BY <2>1 DEF PushInv, PushesFollowLogin, Welcomed
  <2>2. ASSUME NEW packet \in Packets, Write(t, packet)
        PROVE  PushesFollowLogin' /\ \A s \in Conn : Welcomed(s) => Welcomed(s)'
    BY <2>2, Written DEF PushInv
  <2> QED BY <2>1, <2>2
<1>2. Welcoming'
  BY <1>1 DEF PushInv, Welcoming
<1> QED BY <1>1, <1>2 DEF PushInv

\* An event posted to the handlers connected to a user.
LEMMA Emitted ==
    ASSUME TypeInv, PushInv, NEW t \in Conn, NEW u \in Uid, NEW packet \in Packets,
           Emit(t, u, packet), UNCHANGED auth,
           \A s \in Conn : frame'[s].at \in Replaying => frame[s].at \in Replaying
    PROVE  PushInv'
<1>1. u # Nil
  BY NilAssumption
<1>2. queue \in [Conn -> Seq(Packets)] /\ out \in [Conn -> Seq(Packets)]
  BY DEF TypeInv, WiresOK
<1>3. PushesFollowLogin' /\ \A s \in Conn : Welcomed(s) => Welcomed(s)'
  <2>1. CASE auth[t] = u
    <3>1. Write(t, packet) /\ Welcomed(t)
      BY <1>1, <2>1 DEF Emit, Write, PushInv, Welcoming
    <3> QED BY <3>1, Written DEF PushInv
  <2>2. CASE auth[t] # u
    <3>1. out' = out
      BY <1>2, <2>2 DEF Emit
    <3> QED BY <3>1 DEF PushInv, PushesFollowLogin, Welcomed
  <2> QED BY <2>1, <2>2
<1>4. ASSUME NEW s \in Conn,
             \E i \in 1..Len(queue'[s]) : queue'[s][i].kind \in Pushes
      PROVE  Welcomed(s)
  <2>1. CASE auth[s] = u
    BY <1>1, <2>1 DEF PushInv, Welcoming
  <2>2. CASE auth[s] # u
    <3>1. queue'[s] = queue[s]
      BY <2>2 DEF Emit
    <3> QED BY <1>4, <3>1 DEF PushInv, Welcoming
  <2> QED BY <2>1, <2>2
<1>5. Welcoming'
  BY <1>3, <1>4 DEF PushInv, Welcoming
<1> QED BY <1>3, <1>5 DEF PushInv

\* The next turn of a loop that notifies the members of a channel.
LEMMA MemberNotified ==
    ASSUME TypeInv, PushInv, NEW t \in Conn, NEW packet \in Packets,
           NotifyMember(t, packet), UNCHANGED auth
    PROVE  PushInv'
<1> DEFINE u == membersOf[frame[t].cid].cells[frame[t].pos["members"]]
<1>1. \A s \in Conn : frame'[s].at = frame[s].at
  BY AdvanceType DEF TypeInv, FramesOK, NotifyMember, Level
<1>2. CASE u \in users
  <2>1. u \in Uid
    BY <1>2 DEF TypeInv, TablesTypeOK
  <2>2. Emit(t, u, packet)
    BY <1>2 DEF NotifyMember
  <2> HIDE DEF u
  <2> QED BY <1>1, <2>1, <2>2, Emitted
<1>3. CASE u \notin users
  BY <1>1, <1>3, Untold DEF NotifyMember
<1> QED BY <1>2, <1>3

\* Events leave the queue of a thread, or one that is no packet joins them; a session may end.
LEMMA QueueShrinks ==
    ASSUME TypeInv, PushInv, UNCHANGED out,
           \A s \in Conn : auth'[s] = auth[s] \/ auth'[s] = Nil,
           \A s \in Conn : \A i \in 1..Len(queue'[s]) :
               queue'[s][i].kind \in Pushes =>
                   \E j \in 1..Len(queue[s]) : queue[s][j].kind \in Pushes,
           \A s \in Conn : frame'[s].at \in Replaying => frame[s].at \in Replaying
    PROVE  PushInv'
<1>1. PushesFollowLogin'
  BY DEF PushInv, PushesFollowLogin
<1>2. ASSUME NEW s \in Conn,
             \/ auth'[s] # Nil
             \/ frame'[s].at \in Replaying
             \/ \E i \in 1..Len(queue'[s]) : queue'[s][i].kind \in Pushes
      PROVE  Welcomed(s)
  BY <1>2 DEF PushInv, Welcoming
<1>3. Welcoming'
  BY <1>2 DEF Welcoming, Welcomed
<1> QED BY <1>1, <1>3 DEF PushInv

-----------------------------------------------------------------------------
(* The steps                                                                *)

LEMMA RegisterPushes ==
    ASSUME TypeInv, PushInv, NEW t \in Conn, NEW n \in Name, NEW p \in Password, Register(t, n, p)
    PROVE  PushInv'
<1>1. \A s \in Conn : frame'[s].at \in Replaying => frame[s].at \in Replaying
  <2>1. frame \in [Conn -> Frames]
    BY DEF TypeInv, FramesOK
  <2>2. ASSUME UNCHANGED frame
        PROVE  \A s \in Conn : frame'[s].at \in Replaying => frame[s].at \in Replaying
    BY <2>1, <2>2 DEF Frames, Replaying
  <2>3. ASSUME NEW u, frame' = [frame EXCEPT ![t].at = "add password", ![t].uid = u,
                                         ![t].password = p]
        PROVE  \A s \in Conn : frame'[s].at \in Replaying => frame[s].at \in Replaying
    BY <2>1, <2>3 DEF Frames, Replaying
  <2> QED BY <2>2, <2>3 DEF Register
<1>2. UNCHANGED <<auth, queue>>
  BY DEF Register
<1>3. UNCHANGED out \/ \E packet \in Packets : Write(t, packet) /\ packet.kind \notin Pushes
  BY ErrorType DEF Register, Pushes, Kinds
<1> QED BY <1>1, <1>2, <1>3, Untold

LEMMA RegisterPasswordPushes ==
    ASSUME TypeInv, PushInv, NEW t \in Conn, RegisterPassword(t)
    PROVE  PushInv'
<1>1. \A s \in Conn : frame'[s].at \in Replaying => frame[s].at \in Replaying
  <2>1. frame \in [Conn -> Frames]
    BY DEF TypeInv, FramesOK
  <2>2. \A s \in Conn \ {t} : frame'[s].at = frame[s].at
    BY <2>1 DEF RegisterPassword, Frames, Goto
  <2>3. frame'[t].at \in Replaying => frame[t].at \in Replaying
    BY <2>1 DEF RegisterPassword, Frames, Replaying, Goto
  <2> QED BY <2>2, <2>3
<1>2. UNCHANGED <<auth, queue>>
  BY DEF RegisterPassword
<1>3. UNCHANGED out \/ \E packet \in Packets : Write(t, packet) /\ packet.kind \notin Pushes
  BY ErrorType DEF RegisterPassword, Pushes
<1> QED BY <1>1, <1>2, <1>3, Untold

LEMMA RegisterUserPushes ==
    ASSUME TypeInv, PushInv, NEW t \in Conn, RegisterUser(t)
    PROVE  PushInv'
<1>1. \A s \in Conn : frame'[s].at \in Replaying => frame[s].at \in Replaying
  <2>1. frame \in [Conn -> Frames]
    BY DEF TypeInv, FramesOK
  <2>2. \A s \in Conn \ {t} : frame'[s].at = frame[s].at
    BY <2>1 DEF RegisterUser, Frames, Done, Return, Idle
  <2>3. frame'[t].at \in Replaying => frame[t].at \in Replaying
    BY <2>1 DEF RegisterUser, Frames, Replaying, Done, Return, Idle
  <2> QED BY <2>2, <2>3
<1>2. UNCHANGED <<auth, queue>>
  BY DEF RegisterUser
<1>3. UNCHANGED out \/ \E packet \in Packets : Write(t, packet) /\ packet.kind \notin Pushes
  <2>1. frame[t].uid \in Uid
    BY DEF TypeInv, FramesOK, Whole, HasUid, RegisterUser, At
  <2>2. Packet("register", {frame[t].uid}) \in Packets
        /\ Packet("register", {frame[t].uid}).kind = "register"
    <3>1. "register" \in Kinds /\ frame[t].uid \in Uid \cup Cid \cup Mid
      BY <2>1 DEF Kinds
    <3> QED BY <3>1, OneType
  <2> QED BY <2>2 DEF RegisterUser, Pushes
<1> QED BY <1>1, <1>2, <1>3, Untold

LEMMA LoginPushes ==
    ASSUME TypeInv, PushInv, NEW t \in Conn, NEW n \in Name, NEW p \in Password, Login(t, n, p)
    PROVE  PushInv'
<1>1. \A s \in Conn : frame'[s].at \in Replaying => frame[s].at \in Replaying
  <2>1. frame \in [Conn -> Frames]
    BY DEF TypeInv, FramesOK
  <2>2. \A s \in Conn \ {t} : frame'[s].at = frame[s].at
    BY <2>1 DEF Login, Frames
  <2>3. frame'[t].at \in Replaying => frame[t].at \in Replaying
    BY <2>1, ZenonT(60) DEF Login, Frames, Replaying
  <2> QED BY <2>2, <2>3
<1>2. UNCHANGED <<auth, queue>>
  BY DEF Login
<1>3. UNCHANGED out \/ \E packet \in Packets : Write(t, packet) /\ packet.kind \notin Pushes
  BY ErrorType DEF Login, Pushes, Kinds
<1> QED BY <1>1, <1>2, <1>3, Untold

LEMMA LoginChannelReplayedPushes ==
    ASSUME TypeInv, PushInv, NEW t \in Conn, LoginChannelReplayed(t)
    PROVE  PushInv'
<1>1. \A s \in Conn : frame'[s].at \in Replaying => frame[s].at \in Replaying
  <2>1. frame \in [Conn -> Frames]
    BY DEF TypeInv, FramesOK
  <2>2. \A s \in Conn \ {t} : frame'[s].at = frame[s].at
    BY <2>1 DEF LoginChannelReplayed, Frames, Goto, At
  <2>3. frame'[t].at \in Replaying => frame[t].at \in Replaying
    BY <2>1 DEF LoginChannelReplayed, Frames, Replaying, Goto, At
  <2> QED BY <2>2, <2>3
<1>2. UNCHANGED <<auth, queue>>
  BY DEF LoginChannelReplayed
<1>3. UNCHANGED out \/ \E packet \in Packets : Write(t, packet) /\ packet.kind \notin Pushes
  BY ErrorType DEF LoginChannelReplayed, Pushes
<1> QED BY <1>1, <1>2, <1>3, Untold

LEMMA LoginFinishedPushes ==
    ASSUME TypeInv, PushInv, NEW t \in Conn, LoginFinished(t)
    PROVE  PushInv'
<1>1. \A s \in Conn : frame'[s].at \in Replaying => frame[s].at \in Replaying
  <2>1. frame \in [Conn -> Frames]
    BY DEF TypeInv, FramesOK
  <2>2. \A s \in Conn \ {t} : frame'[s].at = frame[s].at
    BY <2>1 DEF LoginFinished, Frames, Done, Return, Idle
  <2>3. frame'[t].at \in Replaying => frame[t].at \in Replaying
    BY <2>1 DEF LoginFinished, Frames, Replaying, Done, Return, Idle
  <2> QED BY <2>2, <2>3
<1>2. UNCHANGED <<auth, queue>>
  BY DEF LoginFinished
<1>3. UNCHANGED out \/ \E packet \in Packets : Write(t, packet) /\ packet.kind \notin Pushes
  BY ErrorType DEF LoginFinished, Pushes
<1> QED BY <1>1, <1>2, <1>3, Untold

LEMMA ListAccountsPushes ==
    ASSUME TypeInv, PushInv, NEW t \in Conn, NEW regex \in (SUBSET Name) \cup {Nil}, ListAccounts(t, regex)
    PROVE  PushInv'
<1>1. \A s \in Conn : frame'[s].at \in Replaying => frame[s].at \in Replaying
  <2>1. frame \in [Conn -> Frames]
    BY DEF TypeInv, FramesOK
  <2>2. \A s \in Conn \ {t} : frame'[s].at = frame[s].at
    BY <2>1 DEF ListAccounts, Frames
  <2>3. frame'[t].at \in Replaying => frame[t].at \in Replaying
    BY <2>1 DEF ListAccounts, Frames, Replaying
  <2> QED BY <2>2, <2>3
<1>2. UNCHANGED <<auth, queue>>
  BY DEF ListAccounts
<1>3. UNCHANGED out \/ \E packet \in Packets : Write(t, packet) /\ packet.kind \notin Pushes
  BY ErrorType DEF ListAccounts, Pushes, Kinds
<1> QED BY <1>1, <1>2, <1>3, Untold

LEMMA ListAccountPushes ==
    ASSUME TypeInv, PushInv, NEW t \in Conn, ListAccount(t)
    PROVE  PushInv'
<1>1. \A s \in Conn : frame'[s].at \in Replaying => frame[s].at \in Replaying
  <2>1. frame \in [Conn -> Frames]
    BY DEF TypeInv, FramesOK
  <2>2. \A s \in Conn \ {t} : frame'[s].at = frame[s].at
    BY <2>1 DEF ListAccount, Frames
  <2>3. frame'[t].at \in Replaying => frame[t].at \in Replaying
    BY <2>1 DEF ListAccount, Frames, Replaying
  <2> QED BY <2>2, <2>3
<1>2. UNCHANGED <<auth, queue>>
  BY DEF ListAccount
<1>3. UNCHANGED out \/ \E packet \in Packets : Write(t, packet) /\ packet.kind \notin Pushes
  BY ErrorType DEF ListAccount, Pushes
<1> QED BY <1>1, <1>2, <1>3, Untold

LEMMA ListFinishedPushes ==
    ASSUME TypeInv, PushInv, NEW t \in Conn, ListFinished(t)
    PROVE  PushInv'
<1>1. \A s \in Conn : frame'[s].at \in Replaying => frame[s].at \in Replaying
  <2>1. frame \in [Conn -> Frames]
    BY DEF TypeInv, FramesOK
  <2>2. \A s \in Conn \ {t} : frame'[s].at = frame[s].at
    BY <2>1 DEF ListFinished, Frames, Done, Return, Idle
  <2>3. frame'[t].at \in Replaying => frame[t].at \in Replaying
    BY <2>1 DEF ListFinished, Frames, Replaying, Done, Return, Idle
  <2> QED BY <2>2, <2>3
<1>2. UNCHANGED <<auth, queue>>
  BY DEF ListFinished
<1>3. UNCHANGED out \/ \E packet \in Packets : Write(t, packet) /\ packet.kind \notin Pushes
  <2>1. frame[t].found \in SUBSET (Uid \cup Cid \cup Mid)
    BY DEF TypeInv, FramesOK, Frames
  <2>2. Packet("accounts", frame[t].found) \in Packets
        /\ Packet("accounts", frame[t].found).kind = "accounts"
    BY <2>1, PacketType, ZenonT(60) DEF Kinds
  <2> QED BY <2>2 DEF ListFinished, Pushes
<1> QED BY <1>1, <1>2, <1>3, Untold

LEMMA DeleteAccountPushes ==
    ASSUME TypeInv, PushInv, NEW t \in Conn, NEW n \in Name, NEW p \in Password, DeleteAccount(t, n, p)
    PROVE  PushInv'
<1>1. \A s \in Conn : frame'[s].at \in Replaying => frame[s].at \in Replaying
  <2>1. frame \in [Conn -> Frames]
    BY DEF TypeInv, FramesOK
  <2>2. \A s \in Conn \ {t} : frame'[s].at = frame[s].at
    BY <2>1 DEF DeleteAccount, Frames
  <2>3. frame'[t].at \in Replaying => frame[t].at \in Replaying
    BY <2>1, ZenonT(60) DEF DeleteAccount, Frames, Replaying
  <2> QED BY <2>2, <2>3
<1>2. UNCHANGED <<auth, queue>>
  BY DEF DeleteAccount
<1>3. UNCHANGED out \/ \E packet \in Packets : Write(t, packet) /\ packet.kind \notin Pushes
  BY ErrorType DEF DeleteAccount, Pushes, Kinds
<1> QED BY <1>1, <1>2, <1>3, Untold

LEMMA DeleteUserPushes ==
    ASSUME TypeInv, PushInv, NEW t \in Conn, DeleteUser(t)
    PROVE  PushInv'
<1>1. \A s \in Conn : frame'[s].at \in Replaying => frame[s].at \in Replaying
  <2>1. frame \in [Conn -> Frames]
    BY DEF TypeInv, FramesOK
  <2>2. ASSUME Done(t)
        PROVE  \A s \in Conn : frame'[s].at \in Replaying => frame[s].at \in Replaying
    BY <2>1, <2>2 DEF Frames, Replaying, Done, Return, Idle
  <2>3. ASSUME frame' = [frame EXCEPT ![t] =
              Loop([@ EXCEPT !.at = "delete channels"], "channels", chansOf[frame[t].uid])]
        PROVE  \A s \in Conn : frame'[s].at \in Replaying => frame[s].at \in Replaying
    BY <2>1, <2>3 DEF Frames, Replaying, Loop
  <2> QED BY <2>2, <2>3 DEF DeleteUser
<1>2. UNCHANGED <<auth, queue>>
  BY DEF DeleteUser
<1>3. UNCHANGED out \/ \E packet \in Packets : Write(t, packet) /\ packet.kind \notin Pushes
  BY ErrorType DEF DeleteUser, Pushes, Kinds
<1> QED BY <1>1, <1>2, <1>3, Untold

LEMMA DeleteFromChannelPushes ==
    ASSUME TypeInv, PushInv, NEW t \in Conn, DeleteFromChannel(t)
    PROVE  PushInv'
<1>1. \A s \in Conn : frame'[s].at \in Replaying => frame[s].at \in Replaying
  <2>1. frame \in [Conn -> Frames]
    BY DEF TypeInv, FramesOK
  <2>2. ASSUME frame' = [frame EXCEPT ![t] = Advance(@, "channels")]
        PROVE  \A s \in Conn : frame'[s].at = frame[s].at
    BY <2>1, <2>2 DEF Frames, Advance
  <2>3. ASSUME NEW c, frame' = [frame EXCEPT ![t] =
                   Loop(Advance([@ EXCEPT !.at = "delete messages", !.cid = c], "channels"),
                        "messages", logOf[c])]
        PROVE  \A s \in Conn : frame'[s].at \in Replaying => frame[s].at \in Replaying
    <3> DEFINE g == [frame[t] EXCEPT !.at = "delete messages", !.cid = c]
               h == Advance(g, "channels")
    <3>1. g.at = "delete messages" /\ "at" \in DOMAIN g
      BY <2>1 DEF Frames
    <3> HIDE DEF g
    <3>2. h.at = "delete messages" /\ "at" \in DOMAIN h
      BY <3>1 DEF Advance
    <3> HIDE DEF h
    <3>3. Loop(h, "messages", logOf[c]).at = "delete messages"
      BY <3>2 DEF Loop
    <3>4. frame' = [frame EXCEPT ![t] = Loop(h, "messages", logOf[c])]
      BY <2>3 DEF g, h
    <3>5. frame'[t].at = "delete messages"
      BY <2>1, <3>3, <3>4
    <3> QED BY <2>1, <3>4, <3>5 DEF Replaying
  <2> QED BY <2>2, <2>3 DEF DeleteFromChannel
<1>2. UNCHANGED <<auth, queue>>
  BY DEF DeleteFromChannel
<1>3. UNCHANGED out \/ \E packet \in Packets : Write(t, packet) /\ packet.kind \notin Pushes
  BY ErrorType DEF DeleteFromChannel, Pushes
<1> QED BY <1>1, <1>2, <1>3, Untold

LEMMA DeleteFindMessagePushes ==
    ASSUME TypeInv, PushInv, NEW t \in Conn, DeleteFindMessage(t)
    PROVE  PushInv'
<1>1. \A s \in Conn : frame'[s].at \in Replaying => frame[s].at \in Replaying
  <2>1. frame \in [Conn -> Frames]
    BY DEF TypeInv, FramesOK
  <2>2. \A s \in Conn \ {t} : frame'[s].at = frame[s].at
    BY <2>1 DEF DeleteFindMessage, Frames, Advance
  <2>3. frame'[t].at \in Replaying => frame[t].at \in Replaying
    BY <2>1, ZenonT(60) DEF DeleteFindMessage, Frames, Replaying, Advance
  <2> QED BY <2>2, <2>3
<1>2. UNCHANGED <<auth, queue>>
  BY DEF DeleteFindMessage
<1>3. UNCHANGED out \/ \E packet \in Packets : Write(t, packet) /\ packet.kind \notin Pushes
  BY ErrorType DEF DeleteFindMessage, Pushes
<1> QED BY <1>1, <1>2, <1>3, Untold

LEMMA DeleteListedMessagePushes ==
    ASSUME TypeInv, PushInv, NEW t \in Conn, DeleteListedMessage(t)
    PROVE  PushInv'
<1>1. \A s \in Conn : frame'[s].at \in Replaying => frame[s].at \in Replaying
  <2>1. frame \in [Conn -> Frames]
    BY DEF TypeInv, FramesOK
  <2>2. \A s \in Conn \ {t} : frame'[s].at = frame[s].at
    BY <2>1 DEF DeleteListedMessage, Frames, Loop, Advance
  <2>3. frame'[t].at \in Replaying => frame[t].at \in Replaying
    BY <2>1, ZenonT(60) DEF DeleteListedMessage, Frames, Replaying, Loop, Advance
  <2> QED BY <2>2, <2>3
<1>2. UNCHANGED <<auth, queue>>
  BY DEF DeleteListedMessage
<1>3. UNCHANGED out \/ \E packet \in Packets : Write(t, packet) /\ packet.kind \notin Pushes
  BY ErrorType DEF DeleteListedMessage, Pushes
<1> QED BY <1>1, <1>2, <1>3, Untold

LEMMA DeleteChannelFinishedPushes ==
    ASSUME TypeInv, PushInv, NEW t \in Conn, DeleteChannelFinished(t)
    PROVE  PushInv'
<1>1. \A s \in Conn : frame'[s].at \in Replaying => frame[s].at \in Replaying
  <2>1. frame \in [Conn -> Frames]
    BY DEF TypeInv, FramesOK
  <2>2. \A s \in Conn \ {t} : frame'[s].at = frame[s].at
    BY <2>1 DEF DeleteChannelFinished, Frames, Goto
  <2>3. frame'[t].at \in Replaying => frame[t].at \in Replaying
    BY <2>1 DEF DeleteChannelFinished, Frames, Replaying, Goto
  <2> QED BY <2>2, <2>3
<1>2. UNCHANGED <<auth, queue>>
  BY DEF DeleteChannelFinished
<1>3. UNCHANGED out \/ \E packet \in Packets : Write(t, packet) /\ packet.kind \notin Pushes
  BY ErrorType DEF DeleteChannelFinished, Pushes
<1> QED BY <1>1, <1>2, <1>3, Untold

LEMMA DeleteAccountFinishedPushes ==
    ASSUME TypeInv, PushInv, NEW t \in Conn, DeleteAccountFinished(t)
    PROVE  PushInv'
<1>1. \A s \in Conn : frame'[s].at \in Replaying => frame[s].at \in Replaying
  <2>1. frame \in [Conn -> Frames]
    BY DEF TypeInv, FramesOK
  <2>2. \A s \in Conn \ {t} : frame'[s].at = frame[s].at
    BY <2>1 DEF DeleteAccountFinished, Frames, Done, Return, Idle
  <2>3. frame'[t].at \in Replaying => frame[t].at \in Replaying
    BY <2>1 DEF DeleteAccountFinished, Frames, Replaying, Done, Return, Idle
  <2> QED BY <2>2, <2>3
<1>2. UNCHANGED <<auth, queue>>
  BY DEF DeleteAccountFinished
<1>3. UNCHANGED out \/ \E packet \in Packets : Write(t, packet) /\ packet.kind \notin Pushes
  <2> DEFINE packet == Packet("delete account", {frame[t].uid} \cap users)
  <2>1. {frame[t].uid} \cap users \in SUBSET (Uid \cup Cid \cup Mid)
    BY DEF TypeInv, TablesTypeOK
  <2>2. packet \in Packets /\ packet.kind = "delete account"
    BY <2>1, PacketType DEF Kinds
  <2>3. Write(t, packet)
    BY DEF DeleteAccountFinished
  <2> HIDE DEF packet
  <2> QED BY <2>2, <2>3 DEF Pushes
<1> QED BY <1>1, <1>2, <1>3, Untold

LEMMA CreateChannelPushes ==
    ASSUME TypeInv, PushInv, NEW t \in Conn, NEW other \in Announced, CreateChannel(t, other)
    PROVE  PushInv'
<1>1. \A s \in Conn : frame'[s].at \in Replaying => frame[s].at \in Replaying
  <2>1. frame \in [Conn -> Frames]
    BY DEF TypeInv, FramesOK
  <2>2. \A s \in Conn \ {t} : frame'[s].at = frame[s].at
    BY <2>1 DEF CreateChannel, Frames, Loop
  <2>3. frame'[t].at \in Replaying => frame[t].at \in Replaying
    BY <2>1, ZenonT(60) DEF CreateChannel, Frames, Replaying, Loop
  <2> QED BY <2>2, <2>3
<1>2. UNCHANGED <<auth, queue>>
  BY DEF CreateChannel
<1>3. UNCHANGED out \/ \E packet \in Packets : Write(t, packet) /\ packet.kind \notin Pushes
  BY ErrorType DEF CreateChannel, Pushes
<1> QED BY <1>1, <1>2, <1>3, Untold

LEMMA CreateMemberPushes ==
    ASSUME TypeInv, PushInv, NEW t \in Conn, CreateMember(t)
    PROVE  PushInv'
<1>1. \A s \in Conn : frame'[s].at \in Replaying => frame[s].at \in Replaying
  <2>1. frame \in [Conn -> Frames]
    BY DEF TypeInv, FramesOK
  <2>2. ASSUME frame' = [frame EXCEPT ![t] = Advance(@, "members")]
        PROVE  \A s \in Conn : frame'[s].at = frame[s].at
    BY <2>1, <2>2 DEF Frames, Advance
  <2>3. ASSUME NEW u, NEW v,
               Pushed(t, [frame[t] EXCEPT !.at = "create announce", !.uid = u], "channels", u, v)
        PROVE  \A s \in Conn : frame'[s].at \in Replaying => frame[s].at \in Replaying
    <3>1. frame'[t].at = "create announce"
      BY <2>1, <2>3, ZenonT(60) DEF Frames, Pushed
    <3>2. \A s \in Conn \ {t} : frame'[s].at = frame[s].at
      BY <2>1, <2>3 DEF Frames, Pushed
    <3> QED BY <3>1, <3>2 DEF Replaying
  <2> QED BY <2>2, <2>3 DEF CreateMember
<1>2. UNCHANGED <<auth, queue>>
  BY DEF CreateMember
<1>3. UNCHANGED out \/ \E packet \in Packets : Write(t, packet) /\ packet.kind \notin Pushes
  BY ErrorType DEF CreateMember, Pushes
<1> QED BY <1>1, <1>2, <1>3, Untold

LEMMA CreateFinishedPushes ==
    ASSUME TypeInv, PushInv, NEW t \in Conn, CreateFinished(t)
    PROVE  PushInv'
<1>1. \A s \in Conn : frame'[s].at \in Replaying => frame[s].at \in Replaying
  <2>1. frame \in [Conn -> Frames]
    BY DEF TypeInv, FramesOK
  <2>2. \A s \in Conn \ {t} : frame'[s].at = frame[s].at
    BY <2>1 DEF CreateFinished, Frames, Done, Return, Idle
  <2>3. frame'[t].at \in Replaying => frame[t].at \in Replaying
    BY <2>1 DEF CreateFinished, Frames, Replaying, Done, Return, Idle
  <2> QED BY <2>2, <2>3
<1>2. UNCHANGED <<auth, queue>>
  BY DEF CreateFinished
<1>3. UNCHANGED out \/ \E packet \in Packets : Write(t, packet) /\ packet.kind \notin Pushes
  BY ErrorType DEF CreateFinished, Pushes
<1> QED BY <1>1, <1>2, <1>3, Untold

LEMMA SendMessagePushes ==
    ASSUME TypeInv, PushInv, NEW t \in Conn, NEW c \in Cid, SendMessage(t, c)
    PROVE  PushInv'
<1>1. \A s \in Conn : frame'[s].at \in Replaying => frame[s].at \in Replaying
  <2>1. frame \in [Conn -> Frames]
    BY DEF TypeInv, FramesOK
  <2>2. ASSUME NEW m, frame' = [frame EXCEPT ![t].at = "append", ![t].cid = c, ![t].mid = m]
        PROVE  \A s \in Conn : frame'[s].at \in Replaying => frame[s].at \in Replaying
    BY <2>1, <2>2 DEF Frames, Replaying
  <2> QED BY <2>2 DEF SendMessage
<1>2. UNCHANGED <<auth, queue>>
  BY DEF SendMessage
<1>3. UNCHANGED out \/ \E packet \in Packets : Write(t, packet) /\ packet.kind \notin Pushes
  BY ErrorType DEF SendMessage, Pushes
<1> QED BY <1>1, <1>2, <1>3, Untold

LEMMA AppendMessagePushes ==
    ASSUME TypeInv, PushInv, NEW t \in Conn, AppendMessage(t)
    PROVE  PushInv'
<1>1. \A s \in Conn : frame'[s].at \in Replaying => frame[s].at \in Replaying
  <2>1. frame \in [Conn -> Frames]
    BY DEF TypeInv, FramesOK
  <2>2. \A s \in Conn \ {t} : frame'[s].at = frame[s].at
    BY <2>1 DEF AppendMessage, Frames, Pushed, Loop
  <2>3. frame'[t].at \in Replaying => frame[t].at \in Replaying
    BY <2>1, ZenonT(60) DEF AppendMessage, Frames, Replaying, Pushed, Loop
  <2> QED BY <2>2, <2>3
<1>2. UNCHANGED <<auth, queue>>
  BY DEF AppendMessage
<1>3. UNCHANGED out \/ \E packet \in Packets : Write(t, packet) /\ packet.kind \notin Pushes
  BY ErrorType DEF AppendMessage, Pushes
<1> QED BY <1>1, <1>2, <1>3, Untold

LEMMA DeleteMessagePushes ==
    ASSUME TypeInv, PushInv, NEW t \in Conn, NEW m \in Mid, DeleteMessage(t, m)
    PROVE  PushInv'
<1>1. \A s \in Conn : frame'[s].at \in Replaying => frame[s].at \in Replaying
  <2>1. frame \in [Conn -> Frames]
    BY DEF TypeInv, FramesOK
  <2>2. ASSUME UNCHANGED frame
        PROVE  \A s \in Conn : frame'[s].at \in Replaying => frame[s].at \in Replaying
    BY <2>1, <2>2 DEF Frames, Replaying
  <2>3. ASSUME NEW c, frame' = [frame EXCEPT ![t].at = "remove text", ![t].cid = c, ![t].mid = m]
        PROVE  \A s \in Conn : frame'[s].at \in Replaying => frame[s].at \in Replaying
    BY <2>1, <2>3 DEF Frames, Replaying
  <2> QED BY <2>2, <2>3 DEF DeleteMessage
<1>2. UNCHANGED <<auth, queue>>
  BY DEF DeleteMessage
<1>3. UNCHANGED out \/ \E packet \in Packets : Write(t, packet) /\ packet.kind \notin Pushes
  BY ErrorType DEF DeleteMessage, Pushes
<1> QED BY <1>1, <1>2, <1>3, Untold

LEMMA RemoveTextPushes ==
    ASSUME TypeInv, PushInv, NEW t \in Conn, RemoveText(t)
    PROVE  PushInv'
<1>1. \A s \in Conn : frame'[s].at \in Replaying => frame[s].at \in Replaying
  <2>1. frame \in [Conn -> Frames]
    BY DEF TypeInv, FramesOK
  <2>2. \A s \in Conn \ {t} : frame'[s].at = frame[s].at
    BY <2>1 DEF RemoveText, Frames, Loop
  <2>3. frame'[t].at \in Replaying => frame[t].at \in Replaying
    BY <2>1 DEF RemoveText, Frames, Replaying, Loop
  <2> QED BY <2>2, <2>3
<1>2. UNCHANGED <<auth, queue>>
  BY DEF RemoveText
<1>3. UNCHANGED out \/ \E packet \in Packets : Write(t, packet) /\ packet.kind \notin Pushes
  BY ErrorType DEF RemoveText, Pushes
<1> QED BY <1>1, <1>2, <1>3, Untold

LEMMA UnlistPushes ==
    ASSUME TypeInv, PushInv, NEW t \in Conn, Unlist(t)
    PROVE  PushInv'
<1>1. \A s \in Conn : frame'[s].at \in Replaying => frame[s].at \in Replaying
  <2>1. frame \in [Conn -> Frames]
    BY DEF TypeInv, FramesOK
  <2>2. \A s \in Conn \ {t} : frame'[s].at = frame[s].at
    BY <2>1 DEF Unlist, Frames, Done, Return, Idle
  <2>3. frame'[t].at \in Replaying => frame[t].at \in Replaying
    BY <2>1 DEF Unlist, Frames, Replaying, Done, Return, Idle
  <2> QED BY <2>2, <2>3
<1>2. UNCHANGED <<auth, queue>>
  BY DEF Unlist
<1>3. UNCHANGED out \/ \E packet \in Packets : Write(t, packet) /\ packet.kind \notin Pushes
  BY ErrorType DEF Unlist, Pushes
<1> QED BY <1>1, <1>2, <1>3, Untold

LEMMA AcceptPushes ==
    ASSUME TypeInv, PushInv, NEW t \in Conn, Accept(t)
    PROVE  PushInv'
<1>1. \A s \in Conn : frame'[s].at \in Replaying => frame[s].at \in Replaying
  <2>1. frame \in [Conn -> Frames]
    BY DEF TypeInv, FramesOK
  <2>2. \A s \in Conn \ {t} : frame'[s].at = frame[s].at
    BY <2>1 DEF Accept, Frames
  <2>3. frame'[t].at \in Replaying => frame[t].at \in Replaying
    BY <2>1 DEF Accept, Frames, Replaying
  <2> QED BY <2>2, <2>3
<1>2. UNCHANGED <<auth, queue>>
  BY DEF Accept
<1>3. UNCHANGED out \/ \E packet \in Packets : Write(t, packet) /\ packet.kind \notin Pushes
  BY ErrorType DEF Accept, Pushes
<1> QED BY <1>1, <1>2, <1>3, Untold

\* The handler is connected to the user, and the answer is written.
LEMMA LoginUserPushes ==
    ASSUME TypeInv, PushInv, NEW t \in Conn, LoginUser(t)
    PROVE  PushInv'
<1>1. frame \in [Conn -> Frames] /\ frame[t].uid \in Uid
  BY DEF TypeInv, FramesOK, Whole, HasUid, LoginUser, At
<1>2. CASE frame[t].uid \notin users
  <2>1. UNCHANGED <<auth, out, frame, queue>>
    BY <1>2 DEF LoginUser
  <2> QED BY <2>1 DEF PushInv, PushesFollowLogin, Welcoming, Welcomed
<1>3. CASE frame[t].uid \in users
  <2> DEFINE packet == Packet("login", {frame[t].uid})
  <2>1. packet \in Packets /\ packet.kind = "login" /\ packet.ids # {}
    <3>1. "login" \in Kinds /\ frame[t].uid \in Uid \cup Cid \cup Mid
      BY <1>1 DEF Kinds
    <3> QED BY <3>1, OneType, ZenonT(60)
  <2>2. Write(t, packet) /\ UNCHANGED queue /\ \A s \in Conn \ {t} : auth'[s] = auth[s]
    BY <1>3 DEF LoginUser, TypeInv, WiresOK
  <2>3. \A s \in Conn \ {t} : frame'[s] = frame[s]
    BY <1>1, <1>3 DEF LoginUser
  <2> HIDE DEF packet
  <2>4. /\ PushesFollowLogin'
        /\ \A s \in Conn : Welcomed(s) => Welcomed(s)'
        /\ Welcomed(t)'
    BY <2>1, <2>2, Written DEF PushInv, Pushes, Welcome
  <2>5. Welcoming'
    BY <2>2, <2>3, <2>4 DEF PushInv, Welcoming
  <2> QED BY <2>4, <2>5 DEF PushInv
<1> QED BY <1>2, <1>3

LEMMA LoginChannelPushes ==
    ASSUME TypeInv, PushInv, NEW t \in Conn, LoginChannel(t)
    PROVE  PushInv'
<1>1. Welcomed(t) /\ frame[t].at \in Replaying
  BY DEF PushInv, Welcoming, Replaying, LoginChannel, At
<1>2. UNCHANGED out \/ \E packet \in Packets : Write(t, packet)
  <2>1. ASSUME NEW c \in channels, Write(t, Packet("channel", {c}))
        PROVE  \E packet \in Packets : Write(t, packet)
    <3>1. c \in Uid \cup Cid \cup Mid /\ "channel" \in Kinds
      BY DEF TypeInv, TablesTypeOK, Kinds
    <3> QED BY <2>1, <3>1, OneType
  <2> QED BY <2>1 DEF LoginChannel
<1>3. \A s \in Conn \ {t} : frame'[s] = frame[s]
  BY DEF LoginChannel, TypeInv, FramesOK
<1>4. \A s \in Conn : frame'[s].at \in Replaying => frame[s].at \in Replaying
  BY <1>1, <1>3
<1> QED BY <1>1, <1>2, <1>4, Told DEF LoginChannel

LEMMA LoginMessagePushes ==
    ASSUME TypeInv, PushInv, NEW t \in Conn, LoginMessage(t)
    PROVE  PushInv'
<1>1. Welcomed(t) /\ frame[t].at \in Replaying
  BY DEF PushInv, Welcoming, Replaying, LoginMessage, At
<1>2. UNCHANGED out \/ \E packet \in Packets : Write(t, packet)
  <2>1. ASSUME NEW m \in messages, Write(t, Packet("message", {m}))
        PROVE  \E packet \in Packets : Write(t, packet)
    <3>1. m \in Uid \cup Cid \cup Mid /\ "message" \in Kinds
      BY DEF TypeInv, TablesTypeOK, Kinds
    <3> QED BY <2>1, <3>1, OneType
  <2> QED BY <2>1 DEF LoginMessage
<1>3. \A s \in Conn \ {t} : frame'[s] = frame[s]
  BY DEF LoginMessage, TypeInv, FramesOK
<1>4. \A s \in Conn : frame'[s].at \in Replaying => frame[s].at \in Replaying
  BY <1>1, <1>3
<1> QED BY <1>1, <1>2, <1>4, Told DEF LoginMessage

LEMMA CreateAnnouncePushes ==
    ASSUME TypeInv, PushInv, NEW t \in Conn, CreateAnnounce(t)
    PROVE  PushInv'
<1>1. frame \in [Conn -> Frames] /\ frame[t].uid \in Uid /\ frame[t].cid \in Cid
  BY DEF TypeInv, FramesOK, Whole, HasUid, HasCid, CreateAnnounce, At
<1>2. Packet("channel", {frame[t].cid}) \in Packets
  <2>1. frame[t].cid \in Uid \cup Cid \cup Mid /\ "channel" \in Kinds
    BY <1>1 DEF Kinds
  <2> QED BY <2>1, OneType
<1>3. \A s \in Conn : frame'[s].at \in Replaying => frame[s].at \in Replaying
  <2>1. frame'[t].at = "create members"
    BY <1>1 DEF CreateAnnounce, Frames, Advance
  <2>2. \A s \in Conn \ {t} : frame'[s] = frame[s]
    BY <1>1 DEF CreateAnnounce
  <2> QED BY <2>1, <2>2 DEF Replaying
<1> QED BY <1>1, <1>2, <1>3, Emitted DEF CreateAnnounce

\* The three loops that tell the members of a channel of a message.
LEMMA NotifyPushes ==
    ASSUME TypeInv, PushInv, NEW t \in Conn,
           SendNotify(t) \/ RemoveNotify(t) \/ DeleteNotify(t)
    PROVE  PushInv'
<1>1. frame \in [Conn -> Frames] /\ frame[t].mid \in Mid /\ UNCHANGED auth
  BY DEF TypeInv, FramesOK, Whole, HasMid, SendNotify, RemoveNotify, DeleteNotify, At
<1>2. ASSUME NEW k \in {"message", "deleted"}, NotifyMember(t, Packet(k, {frame[t].mid}))
      PROVE  PushInv'
  <2>1. frame[t].mid \in Uid \cup Cid \cup Mid /\ k \in Kinds
    BY <1>1 DEF Kinds
  <2>2. Packet(k, {frame[t].mid}) \in Packets
    BY <2>1, OneType
  <2> QED BY <1>1, <1>2, <2>2, MemberNotified
<1>3. ASSUME UNCHANGED <<out, queue>>, Done(t) \/ Goto(t, "unlist") \/ Goto(t, "delete messages")
      PROVE  PushInv'
  <2>1. frame'[t].at \notin Replaying
    BY <1>1, <1>3, ZenonT(60) DEF Frames, Done, Return, Idle, Goto, Replaying
  <2>2. \A s \in Conn \ {t} : frame'[s] = frame[s]
    BY <1>1, <1>3 DEF Done, Return, Goto
  <2>3. \A s \in Conn : frame'[s].at \in Replaying => frame[s].at \in Replaying
    BY <2>1, <2>2
  <2> QED BY <1>1, <1>3, <2>3, Untold
<1>4. CASE SendNotify(t)
  BY <1>2, <1>3, <1>4 DEF SendNotify
<1>5. CASE RemoveNotify(t)
  BY <1>2, <1>3, <1>5 DEF RemoveNotify
<1>6. CASE DeleteNotify(t)
  BY <1>2, <1>3, <1>6 DEF DeleteNotify
<1> QED BY <1>4, <1>5, <1>6

\* An event that is no packet joins the queue.
LEMMA EventPosted ==
    ASSUME TypeInv, NEW t \in Conn, NEW packet \in Packets, packet.kind \notin Pushes,
           queue' = [queue EXCEPT ![t] = Append(@, packet)]
    PROVE  \A s \in Conn : \A i \in 1..Len(queue'[s]) :
               queue'[s][i].kind \in Pushes =>
                   \E j \in 1..Len(queue[s]) : queue[s][j].kind \in Pushes
<1> SUFFICES ASSUME NEW s \in Conn, NEW i \in 1..Len(queue'[s]), queue'[s][i].kind \in Pushes
             PROVE  \E j \in 1..Len(queue[s]) : queue[s][j].kind \in Pushes
  OBVIOUS
<1>1. queue \in [Conn -> Seq(Packets)] /\ Len(queue[s]) \in Nat
  BY DEF TypeInv, WiresOK
<1>2. CASE s # t
  BY <1>1, <1>2
<1>3. CASE s = t
  <2>1. queue'[t] = Append(queue[t], packet)
    BY <1>1
  <2>2. i \in 1..Len(queue[t]) /\ queue'[t][i] = queue[t][i]
    BY <1>1, <1>3, <2>1
  <2> QED BY <1>3, <2>2
<1> QED BY <1>2, <1>3

LEMMA DisconnectPushes ==
    ASSUME TypeInv, PushInv, NEW t \in Conn, Disconnect(t)
    PROVE  PushInv'
<1>1. Packet("free socket", {}) \in Packets /\ Packet("free socket", {}).kind \notin Pushes
  BY ErrorType DEF Kinds, Pushes
<1>2. \A s \in Conn : frame'[s].at \in Replaying => frame[s].at \in Replaying
  BY DEF Disconnect, Goto, TypeInv, FramesOK, Frames, Replaying
<1> QED BY <1>1, <1>2, EventPosted, QueueShrinks DEF Disconnect

LEMMA DisconnectFinishedPushes ==
    ASSUME TypeInv, PushInv, NEW t \in Conn, DisconnectFinished(t)
    PROVE  PushInv'
<1>1. Packet("free handler", {}) \in Packets /\ Packet("free handler", {}).kind \notin Pushes
  BY ErrorType DEF Kinds, Pushes
<1>2. \A s \in Conn : frame'[s].at \in Replaying => frame[s].at \in Replaying
  BY DEF DisconnectFinished, Return, Idle, TypeInv, FramesOK, Frames, Replaying
<1>3. queue' = [queue EXCEPT ![t] = Append(@, Packet("free handler", {}))]
  BY DEF DisconnectFinished, TypeInv, WiresOK
<1> QED BY <1>1, <1>2, <1>3, EventPosted, QueueShrinks DEF DisconnectFinished

\* A handler that is gone has nothing posted and nobody connected.
LEMMA Closed ==
    ASSUME TypeInv, PushInv, NEW t \in Conn, Close(t), UNCHANGED out,
           \A s \in Conn : frame'[s].at \in Replaying => frame[s].at \in Replaying
    PROVE  PushInv'
<1>1. \A s \in Conn : auth'[s] = auth[s] \/ auth'[s] = Nil
  BY DEF Close, TypeInv, WiresOK
<1>2. \A s \in Conn : queue'[s] = IF s = t THEN <<>> ELSE queue[s]
  BY DEF Close, TypeInv, WiresOK
<1>3. \A s \in Conn : \A i \in 1..Len(queue'[s]) :
          queue'[s][i].kind \in Pushes =>
              \E j \in 1..Len(queue[s]) : queue[s][j].kind \in Pushes
  BY <1>2
<1> QED BY <1>1, <1>3, QueueShrinks

LEMMA QuitThreadPushes ==
    ASSUME TypeInv, PushInv, NEW t \in Conn, QuitThread(t)
    PROVE  PushInv'
<1>1. \A s \in Conn : frame'[s].at \in Replaying => frame[s].at \in Replaying
  BY DEF QuitThread, Return, Idle, TypeInv, FramesOK, Frames, Replaying
<1> QED BY <1>1, Closed DEF QuitThread

\* An event of a channel was posted to a handler that has answered a login.
LEMMA DispatchPushes ==
    ASSUME TypeInv, PushInv, NEW t \in Conn, Dispatch(t)
    PROVE  PushInv'
<1> DEFINE e == Head(queue[t])
<1>1. queue \in [Conn -> Seq(Packets)] /\ queue[t] \in Seq(Packets) /\ queue[t] # <<>>
      /\ e \in Packets /\ e = queue[t][1] /\ 1 \in 1..Len(queue[t])
  <2>1. queue \in [Conn -> Seq(Packets)] /\ queue[t] \in Seq(Packets) /\ queue[t] # <<>>
    BY DEF TypeInv, WiresOK, Dispatch
  <2>2. Len(queue[t]) \in Nat \ {0} /\ e = queue[t][1]
    BY <2>1
  <2> QED BY <2>1, <2>2
<1>2. \A s \in Conn : frame'[s].at \in Replaying => frame[s].at \in Replaying
  BY DEF Dispatch, Return, Idle, TypeInv, FramesOK, Frames, Replaying
<1>3. ASSUME queue' = [queue EXCEPT ![t] = Tail(@)]
      PROVE  \A s \in Conn : \A i \in 1..Len(queue'[s]) :
                 queue'[s][i].kind \in Pushes =>
                     \E j \in 1..Len(queue[s]) : queue[s][j].kind \in Pushes
  <2> SUFFICES ASSUME NEW s \in Conn, NEW i \in 1..Len(queue'[s]), queue'[s][i].kind \in Pushes
               PROVE  \E j \in 1..Len(queue[s]) : queue[s][j].kind \in Pushes
    OBVIOUS
  <2>1. CASE s # t
    BY <1>1, <1>3, <2>1
  <2>2. CASE s = t
    <3>1. queue'[t] = Tail(queue[t])
      BY <1>1, <1>3
    <3>2. i + 1 \in 1..Len(queue[t]) /\ queue'[t][i] = queue[t][i + 1]
      BY <1>1, <2>2, <3>1
    <3> QED BY <2>2, <3>2
  <2> QED BY <2>1, <2>2
<1>4. CASE Close(t) /\ UNCHANGED out
  BY <1>2, <1>4, Closed
<1>5. CASE queue' = [queue EXCEPT ![t] = Tail(@)] /\ UNCHANGED <<auth, out>>
  BY <1>2, <1>3, <1>5, QueueShrinks
<1>6. CASE /\ queue' = [queue EXCEPT ![t] = Tail(@)] /\ UNCHANGED auth
           /\ Write(t, e) /\ e.kind \in Pushes
  <2>1. Welcomed(t)
    BY <1>1, <1>6 DEF PushInv, Welcoming
  <2>2. PushesFollowLogin' /\ \A s \in Conn : Welcomed(s) => Welcomed(s)'
    <3> HIDE DEF e
    <3> QED BY <1>1, <1>6, <2>1, Written DEF PushInv
  <2>3. Welcoming'
    BY <1>2, <1>3, <1>6, <2>2 DEF PushInv, Welcoming
  <2> QED BY <2>2, <2>3 DEF PushInv
<1> QED BY <1>4, <1>5, <1>6 DEF Dispatch, Pushes

-----------------------------------------------------------------------------
(* The theorem                                                              *)

\* Nothing has been sent at first.
LEMMA PushInit == Init => PushInv
<1> SUFFICES ASSUME Init PROVE PushInv
  OBVIOUS
<1>1. \A t \in Conn : auth[t] = Nil /\ frame[t].at = "idle" /\ queue[t] = <<>> /\ out[t] = <<>>
  BY DEF Init, Idle
<1>2. PushesFollowLogin
  BY <1>1 DEF PushesFollowLogin
<1>3. ASSUME NEW t \in Conn
      PROVE  ~(\/ auth[t] # Nil \/ frame[t].at \in Replaying
               \/ \E i \in 1..Len(queue[t]) : queue[t][i].kind \in Pushes)
  <2>1. Len(queue[t]) = 0 /\ 1..0 = {}
    BY <1>1
  <2>2. auth[t] = Nil /\ frame[t].at \notin Replaying
    BY <1>1 DEF Replaying
  <2> QED BY <2>1, <2>2
<1> QED BY <1>2, <1>3 DEF PushInv, Welcoming

\* Every step.
LEMMA PushNext ==
    ASSUME TypeInv, PushInv, [Next]_vars
    PROVE  PushInv'
<1>1. ASSUME NEW t \in Conn, Ask(t) PROVE PushInv'
  BY <1>1, RegisterPushes, LoginPushes, DeleteAccountPushes, ListAccountsPushes,
     CreateChannelPushes, SendMessagePushes, DeleteMessagePushes, AcceptPushes,
     DisconnectPushes DEF Ask
<1>2. ASSUME NEW t \in Conn, Continue(t) PROVE PushInv'
  BY <1>2, RegisterPasswordPushes, RegisterUserPushes, LoginUserPushes, LoginChannelPushes,
     LoginMessagePushes, LoginChannelReplayedPushes, LoginFinishedPushes, ListAccountPushes,
     ListFinishedPushes, DeleteUserPushes, DeleteFromChannelPushes, DeleteFindMessagePushes,
     DeleteListedMessagePushes, DeleteChannelFinishedPushes, DeleteAccountFinishedPushes,
     CreateMemberPushes, CreateAnnouncePushes, CreateFinishedPushes, AppendMessagePushes,
     NotifyPushes, RemoveTextPushes, UnlistPushes, DisconnectFinishedPushes, QuitThreadPushes,
     DispatchPushes DEF Continue
<1>3. CASE UNCHANGED vars
  BY <1>3 DEF vars, threads, PushInv, PushesFollowLogin, Welcoming, Welcomed
<1> QED BY <1>1, <1>2, <1>3 DEF Next, Rest

\* However the threads interleave and whoever creates, sends or deletes meanwhile, the first
\* packet of a channel that a connection is sent follows the answer of its login: LoginUser
\* connects the handler to the user and answers in one step, and no event of a channel is
\* posted to a handler that is connected to nobody.
THEOREM PushesAfterLogin == Spec => []PushesFollowLogin
<1>1. TypeInv /\ PushInv /\ [Next]_vars => PushInv'
  BY PushNext
<1>2. PushInv => PushesFollowLogin
  BY DEF PushInv
<1> QED BY <1>1, <1>2, PushInit, Typed, PTL DEF Spec
-----------------------------------------------------------------------------
(* What a step does to the wires                                            *)

\* The handler of t writes a packet of a channel, or the answer of a login.
Sends(t, packet) == Write(t, packet) /\ UNCHANGED <<link, auth, queue>>

\* t emits a signal of user u.
Emits(t, u, packet) == Emit(t, u, packet) /\ UNCHANGED <<link, auth>>

\* t passes a posted packet on to its client.
Passes(t) ==
    /\ On(t) /\ frame[t].at \in {"idle", "sweep"}
    /\ queue[t] # <<>> /\ Head(queue[t]).kind \in Pushes
    /\ Write(t, Head(queue[t]))
    /\ queue' = [queue EXCEPT ![t] = Tail(@)]
    /\ UNCHANGED <<link, auth>>

\* What a connection was sent and what is posted to be sent.
Reached(t, k) == Got(t, k) \cup Posted(t, k)

\* What of k a packet adds.
Adds(packet, k) == IF packet.kind = k THEN packet.ids ELSE {}

\* What a step does that writes and posts nothing of interest.
LEMMA QuietFacts ==
    ASSUME TypeInv, NEW t \in Conn, QuietWires(t), NEW s \in Conn
    PROVE  /\ On(s)' => On(s)
           /\ On(s)' => auth'[s] = auth[s]
           /\ auth'[s] \in {auth[s], Nil}
           /\ \A k \in Pushes \cup {"login"} : Ids(out'[s], k) = Ids(out[s], k)
           /\ \A k \in Pushes : Ids(queue'[s], k) \subseteq Ids(queue[s], k)
           /\ \A k \in Pushes : On(s)' => Ids(queue'[s], k) = Ids(queue[s], k)
<1>1. out[s] \in Seq(Packets) /\ queue[s] \in Seq(Packets)
  BY DEF TypeInv, WiresOK
<1>2. \A k \in Pushes \cup {"login"} : Ids(out'[s], k) = Ids(out[s], k)
  <2>1. CASE out'[s] = out[s]
    BY <2>1
  <2>2. ASSUME NEW packet \in Packets, Dull(packet), out'[s] = Append(out[s], packet),
               NEW k \in Pushes \cup {"login"}
        PROVE  Ids(out'[s], k) = Ids(out[s], k)
    <3>1. Ids(Append(out[s], packet), k)
            = Ids(out[s], k) \cup (IF packet.kind = k THEN packet.ids ELSE {})
      BY <1>1, IdsAppend
    <3> QED BY <2>2, <3>1 DEF Dull
  <2> QED BY <2>1, <2>2 DEF QuietWires
<1>3. ASSUME NEW k \in Pushes
      PROVE  /\ Ids(queue'[s], k) \subseteq Ids(queue[s], k)
             /\ On(s)' => Ids(queue'[s], k) = Ids(queue[s], k)
  <2>1. CASE queue'[s] = queue[s]
    BY <2>1
  <2>2. ASSUME NEW packet \in Packets, Dull(packet), queue'[s] = Append(queue[s], packet)
        PROVE  Ids(queue'[s], k) = Ids(queue[s], k)
    <3>1. Ids(Append(queue[s], packet), k)
            = Ids(queue[s], k) \cup (IF packet.kind = k THEN packet.ids ELSE {})
      BY <1>1, IdsAppend
    <3> QED BY <2>2, <3>1 DEF Dull
  <2>3. CASE queue'[s] = <<>> /\ ~On(s)'
    BY <2>3, IdsEmpty
  <2>4. CASE queue[s] # <<>> /\ queue'[s] = Tail(queue[s]) /\ ~On(s)'
    BY <1>1, <2>4, IdsTail
  <2> QED BY <2>1, <2>2, <2>3, <2>4 DEF QuietWires
<1>4. /\ On(s)' => On(s)
      /\ On(s)' => auth'[s] = auth[s]
      /\ auth'[s] \in {auth[s], Nil}
  BY DEF QuietWires, On
<1> QED BY <1>2, <1>3, <1>4

\* What an answer adds to what connections were sent.
LEMMA WriteFacts ==
    ASSUME TypeInv, NEW t \in Conn, NEW packet \in Packets, Write(t, packet), NEW s \in Conn, NEW k
    PROVE  Ids(out'[s], k) = Ids(out[s], k) \cup (IF s = t THEN Adds(packet, k) ELSE {})
<1>1. out[t] \in Seq(Packets) /\ out'[t] = Append(out[t], packet)
      /\ (s # t => out'[s] = out[s])
  BY DEF TypeInv, WiresOK, Write
<1>2. CASE s = t
  <2>1. Ids(Append(out[t], packet), k) = Ids(out[t], k) \cup Adds(packet, k)
    BY <1>1, IdsAppend DEF Adds
  <2> QED BY <1>1, <1>2, <2>1
<1>3. CASE s # t
  BY <1>1, <1>3
<1> QED BY <1>2, <1>3

\* So to what they were sent or have posted.
LEMMA SendsFacts ==
    ASSUME TypeInv, NEW t \in Conn, NEW packet \in Packets, Sends(t, packet), NEW s \in Conn, NEW k
    PROVE  /\ Got(s, k)' = Got(s, k) \cup (IF s = t THEN Adds(packet, k) ELSE {})
           /\ Posted(s, k)' = Posted(s, k)
           /\ auth'[s] = auth[s] /\ (On(s)' <=> On(s))
<1>1. Ids(out'[s], k) = Ids(out[s], k) \cup (IF s = t THEN Adds(packet, k) ELSE {})
  BY WriteFacts DEF Sends
<1>2. Got(s, k) = Ids(out[s], k) /\ Got(s, k)' = Ids(out'[s], k)
  BY DEF Got, Ids
<1>3. UNCHANGED <<link, auth, queue>>
  BY DEF Sends
<1> QED BY <1>1, <1>2, <1>3 DEF Posted, On

\* What a signal adds to it.
LEMMA EmitsFacts ==
    ASSUME TypeInv, NEW t \in Conn, NEW u, NEW packet \in Packets, Emits(t, u, packet),
           NEW s \in Conn, NEW k
    PROVE  /\ Got(s, k) \subseteq Got(s, k)'
           /\ Reached(s, k)' = Reached(s, k) \cup (IF auth[s] = u THEN Adds(packet, k) ELSE {})
           /\ Got(s, k)' \subseteq Got(s, k) \cup Adds(packet, k)
           /\ auth'[s] = auth[s] /\ (On(s)' <=> On(s))
<1>1. out[s] \in Seq(Packets) /\ queue[s] \in Seq(Packets)
      /\ out \in [Conn -> Seq(Packets)]
  BY DEF TypeInv, WiresOK
<1>2. /\ out'[s] = IF s = t /\ auth[s] = u THEN Append(out[s], packet) ELSE out[s]
      /\ queue'[s] = IF s # t /\ auth[s] = u THEN Append(queue[s], packet) ELSE queue[s]
  BY <1>1 DEF Emits, Emit
<1>3. /\ Ids(Append(out[s], packet), k) = Ids(out[s], k) \cup Adds(packet, k)
      /\ Ids(Append(queue[s], packet), k) = Ids(queue[s], k) \cup Adds(packet, k)
  BY <1>1, IdsAppend DEF Adds
<1>4. /\ Got(s, k) = Ids(out[s], k) /\ Got(s, k)' = Ids(out'[s], k)
      /\ Posted(s, k)' = Ids(queue'[s], k)
  BY DEF Got, Ids, Posted
<1>5. UNCHANGED <<link, auth>>
  BY DEF Emits
<1>6. CASE s = t
  BY <1>2, <1>3, <1>4, <1>5, <1>6 DEF Reached, Posted, On
<1>7. CASE s # t
  BY <1>2, <1>3, <1>4, <1>5, <1>7 DEF Reached, Posted, On
<1> QED BY <1>6, <1>7

\* An event handled moves from what is posted to what is written.
LEMMA PassesFacts ==
    ASSUME TypeInv, NEW t \in Conn, Passes(t), NEW s \in Conn, NEW k
    PROVE  /\ Got(s, k) \subseteq Got(s, k)'
           /\ Reached(s, k)' = Reached(s, k)
           /\ Posted(s, k)' \subseteq Posted(s, k)
           /\ auth'[s] = auth[s] /\ (On(s)' <=> On(s))
<1>1. queue[t] \in Seq(Packets) /\ queue[t] # <<>> /\ Head(queue[t]) \in Packets
      /\ queue'[t] = Tail(queue[t]) /\ (s # t => queue'[s] = queue[s])
  <2>1. queue[t] \in Seq(Packets) /\ queue[t] # <<>>
    BY DEF TypeInv, WiresOK, Passes
  <2>2. Head(queue[t]) \in Packets
    BY <2>1
  <2> QED BY <2>1, <2>2 DEF TypeInv, WiresOK, Passes
<1>2. Ids(out'[s], k) = Ids(out[s], k) \cup (IF s = t THEN Adds(Head(queue[t]), k) ELSE {})
  BY <1>1, WriteFacts DEF Passes
<1>3. Ids(queue[t], k) = Adds(Head(queue[t]), k) \cup Ids(Tail(queue[t]), k)
  BY <1>1, IdsTail DEF Adds
<1>4. /\ Got(s, k) = Ids(out[s], k) /\ Got(s, k)' = Ids(out'[s], k)
      /\ Posted(s, k)' = Ids(queue'[s], k)
  BY DEF Got, Ids, Posted
<1>5. UNCHANGED <<link, auth>>
  BY DEF Passes
<1>6. CASE s = t
  BY <1>1, <1>2, <1>3, <1>4, <1>5, <1>6 DEF Reached, Posted, On
<1>7. CASE s # t
  BY <1>1, <1>2, <1>4, <1>5, <1>7 DEF Reached, Posted, On
<1> QED BY <1>6, <1>7

\* One turn of a loop over the members of a channel.
LEMMA NotifyWires ==
    ASSUME TypeInv, NEW t \in Conn, NEW packet, NotifyMember(t, packet), UNCHANGED <<link, auth>>
    PROVE  LET u == membersOf[frame[t].cid].cells[frame[t].pos["members"]]
           IN  (u \in users /\ Emits(t, u, packet)) \/ (u \notin users /\ QuietWires(t))
<1> DEFINE u == membersOf[frame[t].cid].cells[frame[t].pos["members"]]
<1>1. CASE u \in users
  BY <1>1 DEF NotifyMember, Emits
<1>2. CASE u \notin users
  BY <1>2, NoWireQuiet DEF NotifyMember
<1> QED BY <1>1, <1>2

\* What the event loop does with a posted event.
LEMMA DispatchWires ==
    ASSUME TypeInv, NEW t \in Conn, Dispatch(t)
    PROVE  Passes(t) \/ QuietWires(t)
<1> DEFINE e == Head(queue[t])
<1>1. queue[t] # <<>> /\ auth \in [Conn -> Uid \cup {Nil}] /\ link \in [Conn -> Links]
      /\ queue \in [Conn -> Seq(Packets)] /\ frame[t].at \in {"idle", "sweep"}
  BY DEF Dispatch, TypeInv, WiresOK
<1>2. CASE Write(t, e) /\ e.kind \in Pushes /\ link[t] = "open" /\ UNCHANGED <<link, auth>>
           /\ queue' = [queue EXCEPT ![t] = Tail(@)]
  BY <1>1, <1>2 DEF Passes, On
<1>3. CASE link[t] \in {"closing", "freed"} /\ UNCHANGED <<link, auth, out>>
           /\ queue' = [queue EXCEPT ![t] = Tail(@)]
  BY <1>1, <1>3 DEF QuietWires, On
<1>4. CASE link' = [link EXCEPT ![t] = "freed"] /\ UNCHANGED <<auth, out>>
           /\ queue' = [queue EXCEPT ![t] = Tail(@)]
  BY <1>1, <1>4 DEF QuietWires, On
<1>5. CASE Close(t) /\ UNCHANGED out
  BY <1>1, <1>5 DEF QuietWires, On, Close
<1> QED BY <1>2, <1>3, <1>4, <1>5 DEF Dispatch, Pushes

-----------------------------------------------------------------------------
(* Every channel of its user reaches a connection                           *)

\* The loop of a login over the channels of the user it connected the handler to.
Following(t) ==
    /\ auth[t] = frame[t].uid
    /\ frame[t].pos["channels"] >= 1
    /\ frame[t].end["channels"] <= chansOf[frame[t].uid].len

\* The login under way in t has still to come to channel c.
WillSee(t, c) ==
    /\ frame[t].at \in Replaying
    /\ \E i \in frame[t].pos["channels"]..frame[t].end["channels"] :
          chansOf[frame[t].uid].cells[i] = c

\* A creation has written c into the list of u and not yet told u's handlers.
Announces(c, u) ==
    \E s \in Conn : frame[s].at = "create announce" /\ frame[s].uid = u /\ frame[s].cid = c

Served(t) == On(t) /\ auth[t] # Nil

Shows(t, c) == c \in Reached(t, "channel") \/ WillSee(t, c) \/ Announces(c, auth[t])

AllFollowing == \A t \in Conn : frame[t].at \in Replaying => Following(t)

Founded == \A t \in Conn : Creating(t) => frame[t].cid \in channels

AllShown ==
    \A t \in Conn \ disturbed : Served(t) => \A c \in Live(chansOf[auth[t]]) : Shows(t, c)

ShowInv == LooseInv /\ ChansWhole /\ Founded /\ AllFollowing /\ AllShown

\* What t writes or posts.
Wires(t) ==
    \/ QuietWires(t)
    \/ \E packet \in Packets : packet.kind \in Pushes /\ Sends(t, packet)
    \/ \E u \in Uid, packet \in Packets : packet.kind \in Pushes /\ Emits(t, u, packet)
    \/ Passes(t)

\* A step of t that turns to no channel of a login and is not the announcement of one.
Aside(t) ==
    /\ UNCHANGED chansOf /\ channels \subseteq channels'
    /\ Wires(t)
    /\ Creating(t)' => frame'[t].cid \in channels'
    /\ frame'[t].at \in Replaying =>
          /\ frame[t].at \in Replaying /\ auth'[t] = auth[t]
          /\ frame'[t].uid = frame[t].uid
          /\ frame'[t].pos["channels"] = frame[t].pos["channels"]
          /\ frame'[t].end["channels"] = frame[t].end["channels"]
    /\ frame[t].at \in Replaying => frame'[t].at \in Replaying \/ ~More(t, "channels")
    /\ frame[t].at # "create announce" \/ UNCHANGED frame

\* Whatever t writes or posts, a served connection loses nothing it has coming.
LEMMA WiresGrow ==
    ASSUME TypeInv, NEW t \in Conn, Wires(t), NEW s \in Conn
    PROVE  /\ Served(s)' => Served(s) /\ auth'[s] = auth[s]
           /\ \A k \in Pushes : Served(s)' => Reached(s, k) \subseteq Reached(s, k)'
           /\ s # t => auth'[s] = auth[s]
<1>1. CASE QuietWires(t)
  <2>1. /\ On(s)' => On(s) /\ auth'[s] = auth[s]
        /\ \A k \in Pushes : On(s)' =>
               Ids(out'[s], k) = Ids(out[s], k) /\ Ids(queue'[s], k) = Ids(queue[s], k)
    BY <1>1, QuietFacts
  <2>2. \A k : Got(s, k) = Ids(out[s], k) /\ Got(s, k)' = Ids(out'[s], k)
               /\ Posted(s, k) = Ids(queue[s], k) /\ Posted(s, k)' = Ids(queue'[s], k)
    BY DEF Got, Ids, Posted
  <2> QED BY <1>1, <2>1, <2>2 DEF Served, Reached, QuietWires
<1>2. ASSUME NEW packet \in Packets, Sends(t, packet)
      PROVE  /\ Served(s)' => Served(s) /\ auth'[s] = auth[s]
             /\ \A k \in Pushes : Served(s)' => Reached(s, k) \subseteq Reached(s, k)'
             /\ s # t => auth'[s] = auth[s]
  BY <1>2, SendsFacts DEF Served, Reached
<1>3. ASSUME NEW u \in Uid, NEW packet \in Packets, Emits(t, u, packet)
      PROVE  /\ Served(s)' => Served(s) /\ auth'[s] = auth[s]
             /\ \A k \in Pushes : Served(s)' => Reached(s, k) \subseteq Reached(s, k)'
             /\ s # t => auth'[s] = auth[s]
  BY <1>3, EmitsFacts DEF Served
<1>4. CASE Passes(t)
  BY <1>4, PassesFacts DEF Served
<1> QED BY <1>1, <1>2, <1>3, <1>4 DEF Wires

\* Shows, for one step that leaves the lists of the users alone.
LEMMA ShownKept ==
    ASSUME AllShown, UNCHANGED chansOf, disturbed \subseteq disturbed',
           \A s \in Conn :
               Served(s)' => /\ Served(s) /\ auth'[s] = auth[s]
                             /\ \A c \in Cid : Shows(s, c) => Shows(s, c)',
           chansOf \in [Uid -> Vectors(Cid)], auth \in [Conn -> Uid \cup {Nil}]
    PROVE  AllShown'
<1> SUFFICES ASSUME NEW s \in Conn \ disturbed', Served(s)', NEW c \in Live(chansOf'[auth'[s]])
             PROVE  Shows(s, c)'
  BY DEF AllShown
<1>1. s \in Conn \ disturbed
  OBVIOUS
<1>2. Served(s) /\ auth'[s] = auth[s] /\ auth[s] \in Uid
  BY DEF Served
<1>3. c \in Live(chansOf[auth[s]]) /\ c \in Cid
  BY <1>2, LiveCells
<1> QED BY <1>1, <1>2, <1>3 DEF AllShown

\* A step that has nothing to do with channels.
LEMMA AsideKeeps ==
    ASSUME TypeInv, ShowInv, NEW t \in Conn, Aside(t), Others(t), LooseInv'
    PROVE  ShowInv'
<1>1. ChansWhole'
  BY DEF ShowInv, ChansWhole, Aside
<1>2. Founded'
  BY DEF ShowInv, Founded, Aside, Others, Still, Creating
<1>3. ASSUME NEW s \in Conn, frame'[s].at \in Replaying
      PROVE  /\ frame[s].at \in Replaying /\ auth'[s] = auth[s]
             /\ frame'[s].uid = frame[s].uid
             /\ frame'[s].pos["channels"] = frame[s].pos["channels"]
             /\ frame'[s].end["channels"] = frame[s].end["channels"]
  BY <1>3, WiresGrow DEF Aside, Others, Still
<1>4. AllFollowing'
  BY <1>3 DEF ShowInv, AllFollowing, Following, Aside
<1>5. ASSUME NEW s \in Conn, NEW c, WillSee(s, c) PROVE WillSee(s, c)'
  <2>1. frame'[s].at \in Replaying
    <3>1. CASE s # t
      BY <1>5, <3>1 DEF Others, Still, WillSee
    <3>2. CASE s = t
      <4> DEFINE p == frame[t].pos["channels"]
                 e == frame[t].end["channels"]
      <4>1. p \in Nat /\ e \in Nat
        BY DEF TypeInv, FramesOK, Frames, Level
      <4>2. \E i \in p..e : TRUE
        BY <1>5, <3>2 DEF WillSee
      <4>3. p <= e
        <5> HIDE DEF p, e
        <5> QED BY <4>1, <4>2
      <4> QED BY <1>5, <3>2, <4>3 DEF Aside, WillSee, More
    <3> QED BY <3>1, <3>2
  <2> QED BY <1>3, <1>5, <2>1 DEF WillSee, Aside
<1>6. ASSUME NEW c, NEW u, Announces(c, u) PROVE Announces(c, u)'
  BY <1>6 DEF Announces, Aside, Others, Still
<1>7. AllShown'
  <2>1. ASSUME NEW s \in Conn, Served(s)'
        PROVE  /\ Served(s) /\ auth'[s] = auth[s]
               /\ \A c \in Cid : Shows(s, c) => Shows(s, c)'
    <3>1. Served(s) /\ auth'[s] = auth[s]
          /\ Reached(s, "channel") \subseteq Reached(s, "channel")'
      BY <2>1, WiresGrow DEF Aside, Pushes
    <3> QED BY <1>5, <1>6, <3>1 DEF Shows
  <2> QED BY <2>1, ShownKept DEF ShowInv, Aside, Others, TypeInv, TablesTypeOK, WiresOK
<1> QED BY <1>1, <1>2, <1>4, <1>7 DEF ShowInv

\* Plain steps are of that kind ...
LEMMA PlainAside ==
    ASSUME TypeInv, ShowInv, NEW t \in Conn, Plain(t)
    PROVE  Aside(t)
<1>1. CASE UNCHANGED <<frame, auth>>
  BY <1>1 DEF Plain, Aside, Wires, rooms, ShowInv, Founded, Creating
<1>2. CASE frame[t].at \notin Busy /\ frame'[t].at \notin Busy
  BY <1>2 DEF Plain, Aside, Wires, rooms, Busy, Creating, Creates
<1> QED BY <1>1, <1>2 DEF Plain

\* ... and what is told of messages.
LEMMA NotifyAside ==
    ASSUME TypeInv, NEW t \in Conn, NEW k \in Pushes, frame[t].mid \in Mid,
           NotifyMember(t, Packet(k, {frame[t].mid})), UNCHANGED <<link, auth>>
    PROVE  Wires(t)
<1> DEFINE u == membersOf[frame[t].cid].cells[frame[t].pos["members"]]
           packet == Packet(k, {frame[t].mid})
<1>1. packet \in Packets /\ packet.kind = k
  BY OneType DEF Pushes, Kinds, Packet
<1>2. CASE u \in users /\ Emits(t, u, packet)
  <2>1. u \in Uid
    BY <1>2 DEF TypeInv, TablesTypeOK
  <2> QED BY <1>1, <1>2, <2>1 DEF Wires
<1>3. CASE QuietWires(t)
  BY <1>3 DEF Wires
<1> HIDE DEF u, packet
<1> QED BY <1>2, <1>3, NotifyWires DEF u, packet

\* Every step but those of on_create_channel and of a login that turns to channels.
LEMMA AsideSteps ==
    ASSUME TypeInv, ShowInv, NEW t \in Conn, Ask(t) \/ Continue(t), ~LoginChannel(t),
           LoginUser(t) => UNCHANGED frame,
           ~CreateMember(t), ~CreateAnnounce(t)
    PROVE  Aside(t)
<1>a. frame \in [Conn -> Frames] /\ frame[t] \in Frames
  BY DEF TypeInv, FramesOK
<1> USE DEF Creating, Creates, Replaying
<1>1. CASE \/ \E n \in Name, p \in Password : Register(t, n, p) \/ Login(t, n, p) \/ DeleteAccount(t, n, p)
           \/ \E regex \in (SUBSET Name) \cup {Nil} : ListAccounts(t, regex)
           \/ Accept(t) \/ Disconnect(t) \/ DisconnectFinished(t) \/ QuitThread(t)
           \/ RegisterPassword(t) \/ RegisterUser(t) \/ ListAccount(t) \/ ListFinished(t)
           \/ DeleteUser(t)
  BY <1>1, PlainStep, PlainAside
<1>2. ASSUME NEW c \in Cid, SendMessage(t, c) PROVE Aside(t)
  BY <1>a, <1>2, NoWireQuiet DEF SendMessage, Aside, Wires, Request, rooms, Frames
<1>3. ASSUME NEW m \in Mid, DeleteMessage(t, m) PROVE Aside(t)
  <2>1. CASE UNCHANGED frame
    BY <1>3, <2>1, NoWireQuiet DEF DeleteMessage, Aside, Wires, tables, rooms, ShowInv, Founded
  <2>2. CASE frame' = [frame EXCEPT ![t].at = "remove text", ![t].cid = channelOf[m],
                                    ![t].mid = m]
    BY <1>a, <1>3, <2>2, NoWireQuiet
    DEF DeleteMessage, Aside, Wires, Request, tables, rooms, Frames
  <2> QED BY <1>3, <2>1, <2>2 DEF DeleteMessage
<1>4. ASSUME NEW other \in Announced, CreateChannel(t, other) PROVE Aside(t)
  <2> DEFINE d == Fresh(Cid \ channels)
             uids == <<auth[t], other>>
             f == Loop([frame[t] EXCEPT !.at = "create members", !.cid = d], "members",
                       VectorOf(uids))
  <2>1. f.at = "create members" /\ f.cid = d
    BY <1>a DEF Loop, Frames
  <2>2. frame'[t] = f /\ channels' = channels \cup {d} /\ UNCHANGED <<chansOf, link, auth, queue, out>>
        /\ frame[t].at = "idle"
    BY <1>a, <1>4 DEF CreateChannel, AddChannel, Request
  <2> HIDE DEF f, d
  <2> QED BY <2>1, <2>2, NoWireQuiet DEF Aside, Wires
<1>5. ASSUME LoginUser(t) PROVE Aside(t)
  <2>1. UNCHANGED frame /\ frame[t].at = "login user"
    BY <1>5 DEF LoginUser, At
  <2>2. CASE UNCHANGED <<auth, out>>
    BY <1>5, <2>1, <2>2, NoWireQuiet DEF LoginUser, Aside, Wires, tables, rooms
  <2> DEFINE f == Loop([frame[t] EXCEPT !.at = "login channels"], "channels",
                       chansOf[frame[t].uid])
  <2>3. CASE frame' = [frame EXCEPT ![t] = f]
    <3>1. f.at = "login channels"
      BY <1>a DEF Loop, Frames
    <3> QED BY <1>a, <2>1, <2>3, <3>1
  <2> QED BY <1>5, <2>2, <2>3 DEF LoginUser
<1>6. ASSUME LoginMessage(t) PROVE Aside(t)
  <2>1. UNCHANGED out \/ \E m \in messages : Write(t, Packet("message", {m}))
    BY <1>6 DEF LoginMessage
  <2>2. ASSUME NEW m \in messages
        PROVE  Packet("message", {m}) \in Packets /\ Packet("message", {m}).kind = "message"
    <3>1. m \in Uid \cup Cid \cup Mid /\ "message" \in Kinds
      BY DEF TypeInv, TablesTypeOK, Kinds
    <3> QED BY <3>1, OneType DEF Packet
  <2>3. UNCHANGED <<link, auth, queue>>
    BY <1>6 DEF LoginMessage
  <2>4. Wires(t)
    BY <2>1, <2>2, <2>3, NoWireQuiet DEF Wires, Sends, Pushes
  <2> DEFINE f == Advance(frame[t], "messages")
  <2>5. /\ f.at = frame[t].at /\ f.uid = frame[t].uid /\ f.end = frame[t].end
        /\ f.pos["channels"] = frame[t].pos["channels"]
    BY <1>a DEF Advance, Frames, Level
  <2>6. frame[t].at = "login messages" /\ frame'[t] = f /\ UNCHANGED <<chansOf, channels>>
    BY <1>a, <1>6 DEF LoginMessage, At, tables, rooms
  <2> HIDE DEF f
  <2> QED BY <2>3, <2>4, <2>5, <2>6 DEF Aside
<1>7. ASSUME LoginChannelReplayed(t) PROVE Aside(t)
  BY <1>a, <1>7, NoWireQuiet DEF LoginChannelReplayed, Aside, Wires, At, tables, rooms, Goto, Frames
<1>8. ASSUME LoginFinished(t) PROVE Aside(t)
  BY <1>a, <1>8, NoWireQuiet
  DEF LoginFinished, Aside, Wires, At, tables, rooms, Done, Return, Idle
<1>9. ASSUME CreateFinished(t) PROVE Aside(t)
  BY <1>a, <1>9, NoWireQuiet
  DEF CreateFinished, Aside, Wires, At, tables, rooms, Done, Return, Idle
<1>10. ASSUME AppendMessage(t) PROVE Aside(t)
  <2> DEFINE f == Loop([frame[t] EXCEPT !.at = "send notify"], "members", membersOf[frame[t].cid])
  <2>1. f.at = "send notify"
    BY <1>a DEF Loop, Frames
  <2>2. frame'[t] = f
    BY <1>10 DEF AppendMessage, Pushed
  <2> QED BY <1>10, <2>1, <2>2, NoWireQuiet DEF AppendMessage, Aside, Wires, At
<1>11. ASSUME SendNotify(t) PROVE Aside(t)
  <2>1. frame[t].mid \in Mid /\ UNCHANGED <<link, auth, chansOf, channels>>
    BY <1>11 DEF SendNotify, At, TypeInv, FramesOK, Whole, HasMid, tables, rooms
  <2>2. Wires(t)
    <3>1. CASE UNCHANGED <<out, queue>>
      BY <2>1, <3>1, NoWireQuiet DEF Wires
    <3>2. CASE NotifyMember(t, Packet("message", {frame[t].mid}))
      BY <2>1, <3>2, NotifyAside DEF Pushes
    <3> QED BY <1>11, <3>1, <3>2 DEF SendNotify
  <2>3. frame[t].at \notin Creates \cup Replaying /\ frame'[t].at \notin Creates \cup Replaying
    <3>1. CASE NotifyMember(t, Packet("message", {frame[t].mid}))
      <4>1. frame'[t].at = frame[t].at
        BY <1>a, <3>1 DEF NotifyMember, Advance, Frames
      <4> QED BY <1>11, <4>1 DEF SendNotify, At
    <3>2. CASE ~NotifyMember(t, Packet("message", {frame[t].mid}))
      <4>1. Done(t)
        BY <1>11, <3>2 DEF SendNotify
      <4>2. frame'[t].at \notin Creates \cup Replaying
        BY <1>a, <4>1 DEF Done, Return, Idle, Frames
      <4> QED BY <1>11, <4>2 DEF SendNotify, At
    <3> QED BY <3>1, <3>2
  <2> QED BY <2>1, <2>2, <2>3 DEF Aside
<1>12. ASSUME RemoveNotify(t) PROVE Aside(t)
  <2>1. frame[t].mid \in Mid /\ UNCHANGED <<link, auth, chansOf, channels>>
    BY <1>12 DEF RemoveNotify, At, TypeInv, FramesOK, Whole, HasMid, tables, rooms
  <2>2. Wires(t)
    <3>1. CASE UNCHANGED <<out, queue>>
      BY <2>1, <3>1, NoWireQuiet DEF Wires
    <3>2. CASE NotifyMember(t, Packet("deleted", {frame[t].mid}))
      BY <2>1, <3>2, NotifyAside DEF Pushes
    <3> QED BY <1>12, <3>1, <3>2 DEF RemoveNotify
  <2>3. frame[t].at \notin Creates \cup Replaying /\ frame'[t].at \notin Creates \cup Replaying
    <3>1. CASE NotifyMember(t, Packet("deleted", {frame[t].mid}))
      <4>1. frame'[t].at = frame[t].at
        BY <1>a, <3>1 DEF NotifyMember, Advance, Frames
      <4> QED BY <1>12, <4>1 DEF RemoveNotify, At
    <3>2. CASE ~NotifyMember(t, Packet("deleted", {frame[t].mid}))
      <4>1. Goto(t, "unlist")
        BY <1>12, <3>2 DEF RemoveNotify
      <4>2. frame'[t].at \notin Creates \cup Replaying
        BY <1>a, <4>1 DEF Goto, Frames
      <4> QED BY <1>12, <4>2 DEF RemoveNotify, At
    <3> QED BY <3>1, <3>2
  <2> QED BY <2>1, <2>2, <2>3 DEF Aside
<1>13. ASSUME DeleteNotify(t) PROVE Aside(t)
  <2>1. frame[t].mid \in Mid /\ UNCHANGED <<link, auth, chansOf, channels>>
    BY <1>13 DEF DeleteNotify, At, TypeInv, FramesOK, Whole, HasMid, tables, rooms
  <2>2. Wires(t)
    <3>1. CASE UNCHANGED <<out, queue>>
      BY <2>1, <3>1, NoWireQuiet DEF Wires
    <3>2. CASE NotifyMember(t, Packet("deleted", {frame[t].mid}))
      BY <2>1, <3>2, NotifyAside DEF Pushes
    <3> QED BY <1>13, <3>1, <3>2 DEF DeleteNotify
  <2>3. frame[t].at \notin Creates \cup Replaying /\ frame'[t].at \notin Creates \cup Replaying
    <3>1. CASE NotifyMember(t, Packet("deleted", {frame[t].mid}))
      <4>1. frame'[t].at = frame[t].at
        BY <1>a, <3>1 DEF NotifyMember, Advance, Frames
      <4> QED BY <1>13, <4>1 DEF DeleteNotify, At
    <3>2. CASE ~NotifyMember(t, Packet("deleted", {frame[t].mid}))
      <4>1. Goto(t, "delete messages")
        BY <1>13, <3>2 DEF DeleteNotify
      <4>2. frame'[t].at \notin Creates \cup Replaying
        BY <1>a, <4>1 DEF Goto, Frames
      <4> QED BY <1>13, <4>2 DEF DeleteNotify, At
    <3> QED BY <3>1, <3>2
  <2> QED BY <2>1, <2>2, <2>3 DEF Aside
<1>14. ASSUME RemoveText(t) PROVE Aside(t)
  BY <1>a, <1>14, NoWireQuiet DEF RemoveText, Aside, Wires, At, rooms, Loop, Frames
<1>15. ASSUME Unlist(t) PROVE Aside(t)
  BY <1>a, <1>15, NoWireQuiet DEF Unlist, Aside, Wires, At, Done, Return, Idle
<1>16. ASSUME Dispatch(t) PROVE Aside(t)
  BY <1>a, <1>16, DispatchWires DEF Dispatch, Aside, Wires, tables, rooms, Return, Idle
<1>17. ASSUME DeleteFromChannel(t) PROVE Aside(t)
  <2>1. PICK c \in Cell(t, "channels", chansOf, frame[t].uid) :
          \/ frame' = [frame EXCEPT ![t] = Advance(frame[t], "channels")]
          \/ frame' = [frame EXCEPT ![t] = Sweep(frame[t], c)]
    BY <1>a, <1>17 DEF DeleteFromChannel, Sweep
  <2>2. Advance(frame[t], "channels").at = "delete channels" /\ Sweep(frame[t], c).at = "delete messages"
    BY <1>a, <1>17 DEF DeleteFromChannel, At, Advance, Sweep, Loop, Frames
  <2>3. frame[t].at = "delete channels" /\ UNCHANGED <<chansOf, channels, link, auth, queue, out>>
    BY <1>17 DEF DeleteFromChannel, At
  <2> QED BY <1>a, <2>1, <2>2, <2>3, NoWireQuiet DEF Aside, Wires
<1>18. ASSUME DeleteFindMessage(t) PROVE Aside(t)
  <2>1. Wires(t) /\ UNCHANGED <<chansOf, channels>> /\ frame[t].at = "delete messages"
    BY <1>18, NoWireQuiet DEF DeleteFindMessage, At, Wires, tables, rooms
  <2>2. frame'[t].at \in {"delete messages", "delete text"}
    <3>1. PICK m \in Cell(t, "messages", logOf, frame[t].cid) :
            \/ frame' = [frame EXCEPT ![t].at = "delete text", ![t].mid = m]
            \/ frame' = [frame EXCEPT ![t] = Advance(frame[t], "messages")]
      BY <1>a, <1>18 DEF DeleteFindMessage
    <3>2. CASE frame' = [frame EXCEPT ![t].at = "delete text", ![t].mid = m]
      BY <1>a, <3>2 DEF Frames
    <3>3. CASE frame' = [frame EXCEPT ![t] = Advance(frame[t], "messages")]
      <4>1. frame'[t] = Advance(frame[t], "messages")
        BY <1>a, <3>3
      <4> QED BY <1>a, <2>1, <4>1 DEF Advance, Frames
    <3> QED BY <3>1, <3>2, <3>3
  <2> QED BY <2>1, <2>2 DEF Aside
<1>19. ASSUME DeleteListedMessage(t) PROVE Aside(t)
  BY <1>a, <1>19, NoWireQuiet DEF DeleteListedMessage, Aside, Wires, At, Advance, Loop, Frames
<1>20. ASSUME DeleteChannelFinished(t) PROVE Aside(t)
  BY <1>a, <1>20, NoWireQuiet DEF DeleteChannelFinished, Aside, Wires, At, tables, rooms, Goto, Frames
<1>21. ASSUME DeleteAccountFinished(t) PROVE Aside(t)
  <2>1. {frame[t].uid} \cap users \in SUBSET (Uid \cup Cid \cup Mid)
    BY DEF TypeInv, TablesTypeOK
  <2>2. QuietWires(t)
    BY <1>21, <2>1, WriteQuiet, DullPackets DEF DeleteAccountFinished, Kinds, Pushes
  <2> QED BY <1>a, <1>21, <2>2 DEF DeleteAccountFinished, Aside, Wires, At, rooms, Done, Return, Idle
<1> QED
  BY <1>1, <1>2, <1>3, <1>4, <1>5, <1>6, <1>7, <1>8, <1>9, <1>10, <1>11, <1>12, <1>13, <1>14,
     <1>15, <1>16, <1>17, <1>18, <1>19, <1>20, <1>21 DEF Ask, Continue


\* What was sent and posted to a connection the step does not write to.
LEMMA ReachedSame ==
    ASSUME NEW s, NEW k, out'[s] = out[s], queue'[s] = queue[s]
    PROVE  /\ Got(s, k)' = Got(s, k) /\ Posted(s, k)' = Posted(s, k)
           /\ Reached(s, k)' = Reached(s, k)
BY DEF Got, Posted, Ids, Reached

\* The frame of a login that turns to a channel.
LEMMA ReplayFacts ==
    ASSUME NEW f \in Frames, NEW c
    PROVE  /\ Replay(f, c).at = "login messages" /\ Replay(f, c).cid = c /\ Replay(f, c).uid = f.uid
           /\ Replay(f, c).pos["channels"] = f.pos["channels"] + 1
           /\ Replay(f, c).end["channels"] = f.end["channels"]
           /\ Replay(f, c).pos["messages"] = 1
<1> DEFINE g == Advance([f EXCEPT !.at = "login messages", !.cid = c], "channels")
<1>1. /\ g.at = "login messages" /\ g.cid = c /\ g.uid = f.uid
      /\ g.pos = [f.pos EXCEPT !["channels"] = @ + 1] /\ g.end = f.end
      /\ DOMAIN f.pos = Level /\ DOMAIN f.end = Level
  BY DEF Advance, Frames
<1>2. Replay(f, c) = Loop(g, "messages", logOf[c])
  BY DEF Replay
<1>3. /\ Loop(g, "messages", logOf[c]).at = g.at /\ Loop(g, "messages", logOf[c]).cid = g.cid
      /\ Loop(g, "messages", logOf[c]).uid = g.uid
      /\ Loop(g, "messages", logOf[c]).pos = [g.pos EXCEPT !["messages"] = 1]
      /\ Loop(g, "messages", logOf[c]).end = [g.end EXCEPT !["messages"] = logOf[c].len]
  <2> HIDE DEF g
  <2>1. g \in [DOMAIN g -> {g[k] : k \in DOMAIN g}]
    BY DEF g, Advance, Frames
  <2> QED BY <2>1 DEF Loop, g, Advance, Frames
<1> HIDE DEF g
<1> QED BY <1>1, <1>2, <1>3, ZenonT(60) DEF Level

\* It is to walk the messages of the channel.
LEMMA ReplayEnd ==
    ASSUME NEW f \in Frames, NEW c
    PROVE  Replay(f, c).end["messages"] = logOf[c].len
<1> DEFINE g == Advance([f EXCEPT !.at = "login messages", !.cid = c], "channels")
<1>1. g.end = f.end /\ DOMAIN f.end = Level
  BY DEF Advance, Frames
<1>2. Replay(f, c) = Loop(g, "messages", logOf[c])
  BY DEF Replay
<1>3. Loop(g, "messages", logOf[c]).end = [g.end EXCEPT !["messages"] = logOf[c].len]
  <2> HIDE DEF g
  <2>1. g \in [DOMAIN g -> {g[k] : k \in DOMAIN g}]
    BY DEF g, Advance, Frames
  <2> QED BY <2>1 DEF Loop, g, Advance, Frames
<1> HIDE DEF g
<1> QED BY <1>1, <1>2, <1>3 DEF Level

\* A login that finds its user connects the handler and starts on the user's channels.
LEMMA LoginUserShown ==
    ASSUME TypeInv, ShowInv, NEW t \in Conn, LoginUser(t), ~UNCHANGED frame
    PROVE  ShowInv'
<1> DEFINE u == frame[t].uid
           f == Loop([frame[t] EXCEPT !.at = "login channels"], "channels", chansOf[u])
<1>1. /\ u \in users /\ u \in Uid /\ auth' = [auth EXCEPT ![t] = u]
      /\ Write(t, Packet("login", {u})) /\ frame'[t] = f
      /\ frame[t].at = "login user" /\ UNCHANGED <<chansOf, channels, link, queue, disturbed>>
      /\ \A s \in Conn \ {t} : frame'[s] = frame[s]
  BY DEF LoginUser, At, tables, rooms, TypeInv, FramesOK, TablesTypeOK
<1>2. /\ f.at = "login channels" /\ f.uid = u
      /\ f.pos["channels"] = 1 /\ f.end["channels"] = chansOf[u].len
  BY DEF Loop, TypeInv, FramesOK, Frames, Level
<1>3. Packet("login", {u}) \in Packets
  BY <1>1, OneType DEF Kinds, Packet
<1>4. \A s \in Conn \ {t} : /\ auth'[s] = auth[s] /\ (On(s)' <=> On(s))
                            /\ Reached(s, "channel")' = Reached(s, "channel")
  <2>1. \A s \in Conn \ {t} : out'[s] = out[s] /\ queue'[s] = queue[s] /\ auth'[s] = auth[s]
                              /\ link'[s] = link[s]
    BY <1>1 DEF Write, TypeInv, WiresOK
  <2> QED BY <2>1, ReachedSame DEF On
<1>5. auth'[t] = u
  BY <1>1 DEF TypeInv, WiresOK
<1> HIDE DEF f, u
<1>6. LooseInv' /\ ChansWhole'
  BY <1>1, LooseNext DEF ShowInv, ChansWhole, Next, Continue
<1>7. Founded'
  BY <1>1, <1>2 DEF ShowInv, Founded, Creating, Creates
<1>8. AllFollowing'
  <2>1. Following(t)'
    <3>1. chansOf[u].len \in Nat
      BY <1>1 DEF TypeInv, TablesTypeOK, Vectors
    <3>2. f.pos["channels"] >= 1
      <4>1. 1 >= 1
        OBVIOUS
      <4> QED BY <1>2, <4>1, Zenon
    <3>3. chansOf[u].len <= chansOf[u].len
      BY <3>1
    <3> QED BY <1>1, <1>2, <1>5, <3>2, <3>3 DEF Following
  <2>2. \A s \in Conn \ {t} : Following(s) => Following(s)'
    BY <1>1, <1>4 DEF Following
  <2> QED BY <1>1, <2>1, <2>2 DEF ShowInv, AllFollowing
<1>9. \A c, v : Announces(c, v) => Announces(c, v)'
  BY <1>1 DEF Announces
<1>10. AllShown'
  <2>1. ASSUME NEW c \in Live(chansOf[u]) PROVE WillSee(t, c)'
    <3>1. PICK i \in 1..chansOf[u].len : c = chansOf[u].cells[i]
      BY DEF Live
    <3> QED BY <1>1, <1>2, <3>1 DEF WillSee, Replaying
  <2>2. ASSUME NEW s \in Conn \ {t}, NEW c, Shows(s, c) PROVE Shows(s, c)'
    BY <1>1, <1>4, <1>9, <2>2 DEF Shows, WillSee
  <2> QED BY <1>1, <1>4, <1>5, <2>1, <2>2 DEF ShowInv, AllShown, Served, Shows
<1> QED BY <1>6, <1>7, <1>8, <1>10 DEF ShowInv

\* A login turns to the next channel.
LEMMA LoginChannelShown ==
    ASSUME TypeInv, ShowInv, NEW t \in Conn, LoginChannel(t)
    PROVE  ShowInv'
<1> DEFINE u == frame[t].uid
           p == frame[t].pos["channels"]
           e == frame[t].end["channels"]
           v == chansOf[u]
<1>1. /\ frame[t].at = "login channels" /\ p <= e /\ p \in Nat /\ e \in Nat
      /\ auth[t] = u /\ p >= 1 /\ e <= v.len
      /\ UNCHANGED <<chansOf, channels, link, auth, queue, disturbed>>
      /\ \A s \in Conn \ {t} : frame'[s] = frame[s]
  <2>1. frame[t].at = "login channels" /\ p <= e
    BY DEF LoginChannel, At, More
  <2>2. Following(t) /\ p \in Nat /\ e \in Nat
    BY <2>1 DEF ShowInv, AllFollowing, Replaying, TypeInv, FramesOK, Frames, Level
  <2>3. /\ UNCHANGED <<chansOf, channels, link, auth, queue, disturbed>>
        /\ \A s \in Conn \ {t} : frame'[s] = frame[s]
    BY DEF LoginChannel, tables, rooms, TypeInv, FramesOK
  <2> QED BY <2>1, <2>2, <2>3 DEF Following
<1>2. PICK c \in Cell(t, "channels", chansOf, u) :
        \/ c \notin channels /\ frame'[t] = Advance(frame[t], "channels") /\ UNCHANGED out
        \/ c \in channels /\ frame'[t] = Replay(frame[t], c) /\ Write(t, Packet("channel", {c}))
  BY DEF LoginChannel, Replay, TypeInv, FramesOK
<1>3. /\ frame'[t].at \in Replaying /\ frame'[t].uid = u
      /\ frame'[t].pos["channels"] = p + 1 /\ frame'[t].end["channels"] = e
  <2>1. frame[t] \in Frames /\ "channels" \in Level
    BY DEF TypeInv, FramesOK, Level
  <2>2. CASE frame'[t] = Advance(frame[t], "channels")
    <3> DEFINE g == Advance(frame[t], "channels")
    <3>1. /\ g.at = frame[t].at /\ g.uid = frame[t].uid /\ g.end = frame[t].end
          /\ g.pos["channels"] = frame[t].pos["channels"] + 1
      BY <2>1, AdvanceFacts
    <3>2. frame'[t] = g
      BY <2>2
    <3> HIDE DEF g
    <3> QED BY <1>1, <3>1, <3>2 DEF Replaying
  <2>3. CASE frame'[t] = Replay(frame[t], c)
    <3> DEFINE g == Replay(frame[t], c)
    <3>1. /\ g.at = "login messages" /\ g.uid = frame[t].uid
          /\ g.end["channels"] = frame[t].end["channels"]
          /\ g.pos["channels"] = frame[t].pos["channels"] + 1
      BY <2>1, ReplayFacts
    <3>2. frame'[t] = g
      BY <2>3
    <3> HIDE DEF g
    <3> QED BY <3>1, <3>2 DEF Replaying
  <2> QED BY <1>2, <2>2, <2>3
<1>4. LooseInv' /\ ChansWhole'
  BY <1>1, LooseNext DEF ShowInv, ChansWhole, Next, Continue
<1>5. Founded'
  BY <1>1, <1>3 DEF ShowInv, Founded, Creating, Creates, Replaying
<1>6. AllFollowing'
  <2>1. Following(t)'
    <3>1. p + 1 >= 1
      <4>1. p \in Nat
        BY <1>1
      <4> HIDE DEF p
      <4> QED BY <4>1
    <3> HIDE DEF p, e
    <3> QED BY <1>1, <1>3, <3>1 DEF Following
  <2>2. \A s \in Conn \ {t} : Following(s) => Following(s)'
    BY <1>1 DEF Following
  <2> QED BY <1>1, <2>1, <2>2 DEF ShowInv, AllFollowing
<1>7. \A d, w : Announces(d, w) => Announces(d, w)'
  BY <1>1 DEF Announces
<1>8. ASSUME c \in channels
      PROVE  Packet("channel", {c}) \in Packets /\ Packet("channel", {c}).kind = "channel"
             /\ Packet("channel", {c}).ids = {c}
  <2>1. c \in Uid \cup Cid \cup Mid /\ "channel" \in Kinds
    BY <1>8 DEF TypeInv, TablesTypeOK, Kinds
  <2> QED BY <2>1, OneType DEF Packet
<1>9. \A s \in Conn : Reached(s, "channel") \subseteq Reached(s, "channel")'
  <2>1. CASE UNCHANGED out
    BY <1>1, <2>1, ReachedSame
  <2>2. CASE c \in channels /\ Write(t, Packet("channel", {c}))
    <3> DEFINE packet == Packet("channel", {c})
    <3>1. packet \in Packets /\ Sends(t, packet)
      BY <1>1, <1>8, <2>2 DEF Sends
    <3> HIDE DEF packet
    <3> QED BY <3>1, SendsFacts DEF Reached
  <2> QED BY <1>2, <2>1, <2>2
<1>10. ASSUME t \notin disturbed
       PROVE  c = v.cells[p] /\ c \in Reached(t, "channel")'
  <2>1. frame[t].loose = {}
    BY <1>10 DEF ShowInv, LooseInv
  <2>2. c = v.cells[p]
    BY <1>2, <2>1 DEF Cell
  <2>3. p \in 1..v.len
    <3>1. p \in Nat /\ e \in Nat /\ v.len \in Nat /\ p >= 1 /\ p <= e /\ e <= v.len
      <4>1. u \in Uid
        BY <1>1 DEF TypeInv, FramesOK, Whole, HasUid
      <4> QED BY <1>1, <4>1 DEF TypeInv, TablesTypeOK, Vectors
    <3> HIDE DEF p, e, v
    <3> QED BY <3>1
  <2>4. c \in channels
    <3>1. u \in Uid
      BY <1>1 DEF TypeInv, FramesOK, Whole, HasUid
    <3> QED BY <2>2, <2>3, <3>1 DEF ShowInv, ChansWhole, Live
  <2>5. c \in Got(t, "channel")'
    <3> DEFINE packet == Packet("channel", {c})
    <3>1. packet \in Packets /\ Sends(t, packet) /\ Adds(packet, "channel") = {c}
      BY <1>1, <1>2, <1>8, <2>4 DEF Sends, Adds
    <3> HIDE DEF packet
    <3>2. Got(t, "channel")' = Got(t, "channel") \cup Adds(packet, "channel")
      BY <3>1, SendsFacts
    <3> QED BY <3>1, <3>2
  <2> QED BY <2>2, <2>5 DEF Reached
<1>11. ASSUME NEW s \in Conn \ disturbed, NEW d, Shows(s, d) PROVE Shows(s, d)'
  <2>1. CASE s # t \/ ~WillSee(s, d)
    BY <1>1, <1>7, <1>9, <1>11, <2>1 DEF Shows, WillSee
  <2>2. CASE s = t /\ WillSee(s, d)
    <3>1. PICK i \in p..e : v.cells[i] = d
      BY <2>2 DEF WillSee
    <3>2. CASE i = p
      BY <1>10, <2>2, <3>1, <3>2 DEF Shows
    <3>3. CASE i # p
      <4>1. i \in (p + 1)..e
        <5>1. p \in Nat /\ e \in Nat /\ i \in p..e /\ i # p
          BY <1>1, <3>1, <3>3
        <5> HIDE DEF p, e
        <5> QED BY <5>1
      <4> QED BY <1>1, <1>3, <2>2, <3>1, <4>1 DEF Shows, WillSee
    <3> QED BY <3>2, <3>3
  <2> QED BY <2>1, <2>2
<1>12. AllShown'
  BY <1>1, <1>11 DEF ShowInv, AllShown, Served, On
<1> QED BY <1>4, <1>5, <1>6, <1>12 DEF ShowInv

\* The next member of a new channel lists it; its handlers are told next.
LEMMA CreateMemberShown ==
    ASSUME TypeInv, ShowInv, NEW t \in Conn, CreateMember(t)
    PROVE  ShowInv'
<1>0. PICK c, u : c = frame[t].cid /\ u = membersOf[c].cells[frame[t].pos["members"]]
  OBVIOUS
<1> DEFINE f == [frame[t] EXCEPT !.at = "create announce", !.uid = u]
<1>1. Others(t) /\ LooseInv' /\ frame[t].at = "create members" /\ c \in channels /\ c \in Cid
  <2>1. Others(t) /\ LooseInv'
    BY OtherThreads, LooseNext DEF Continue, Next, ShowInv
  <2>2. frame[t].at = "create members"
    BY DEF CreateMember, At
  <2>3. c \in channels
    BY <1>0, <2>2 DEF ShowInv, Founded, Creating, Creates
  <2> QED BY <2>1, <2>2, <2>3 DEF TypeInv, TablesTypeOK
<1>2. UNCHANGED <<channels, link, auth, queue, out>>
  BY DEF CreateMember
<1>3. CASE frame' = [frame EXCEPT ![t] = Advance(frame[t], "members")] /\ UNCHANGED chansOf
  <2>1. frame'[t].at = "create members" /\ frame'[t].cid = c
    BY <1>0, <1>1, <1>3 DEF Advance, TypeInv, FramesOK, Frames
  <2>2. Wires(t)
    BY <1>2, NoWireQuiet DEF Wires
  <2>3. Aside(t)
    BY <1>1, <1>2, <1>3, <2>1, <2>2 DEF Aside, Replaying
  <2> QED BY <1>1, <2>3, AsideKeeps
<1>4. CASE u \in users /\ UserAddChannel(u, c) /\ Pushed(t, f, "channels", u, chansOf[u])
  <2>1. u \in Uid
    BY <1>4 DEF TypeInv, TablesTypeOK
  <2>2. /\ frame'[t].at = "create announce" /\ frame'[t].cid = c /\ frame'[t].uid = u
    BY <1>0, <1>4, ZenonT(60) DEF Pushed, TypeInv, FramesOK, Frames
  <2>3. chansOf'[u] = Push(chansOf[u], c) /\ \A w \in Uid \ {u} : chansOf'[w] = chansOf[w]
    BY <1>4, <2>1 DEF UserAddChannel, TypeInv, TablesTypeOK
  <2>4. /\ chansOf[u] \in Vectors(Cid) /\ chansOf[u].len = Len(chansOf[u].cells)
        /\ chansOf[u].cells \in Seq(Cid)
    BY <2>1 DEF TypeInv, TablesTypeOK, ShowInv, ChansWhole, Vectors
  <2> HIDE DEF f
  <2>5. /\ Live(chansOf'[u]) = Live(chansOf[u]) \cup {c}
        /\ chansOf'[u].cells = Append(chansOf[u].cells, c)
        /\ chansOf'[u].len = Len(chansOf'[u].cells)
    <3>1. Live(Push(chansOf[u], c)) = Live(chansOf[u]) \cup {c}
      <4>1. c \in Cid /\ chansOf[u] \in Vectors(Cid)
        BY <1>1, <2>4
      <4> QED BY <4>1, PushLive
    <3>2. /\ Push(chansOf[u], c).cells = Append(chansOf[u].cells, c)
          /\ Push(chansOf[u], c).len = Len(Push(chansOf[u], c).cells)
      BY <1>1, <2>4, PushWhole
    <3> QED BY <2>3, <3>1, <3>2
  <2>6. /\ chansOf'[u].len = chansOf[u].len + 1
        /\ \A i \in 1..chansOf[u].len : chansOf'[u].cells[i] = chansOf[u].cells[i]
    <3> DEFINE w == chansOf[u].cells
    <3>1. w \in Seq(Cid) /\ chansOf[u].len = Len(w) /\ chansOf'[u].cells = Append(w, c)
          /\ chansOf'[u].len = Len(Append(w, c))
      BY <2>4, <2>5
    <3>2. Len(Append(w, c)) = Len(w) + 1 /\ \A i \in 1..Len(w) : Append(w, c)[i] = w[i]
      <4>1. c \in Cid /\ w \in Seq(Cid)
        BY <1>1, <3>1
      <4> HIDE DEF w
      <4> QED BY <4>1
    <3> HIDE DEF w
    <3>3. \A i \in 1..chansOf[u].len : chansOf'[u].cells[i] = w[i]
      BY <3>1, <3>2
    <3> QED BY <3>1, <3>2, <3>3 DEF w
  <2>7. ChansWhole'
    BY <1>1, <1>2, <2>1, <2>3, <2>5 DEF ShowInv, ChansWhole
  <2>8. Founded'
    BY <1>1, <1>2, <2>2 DEF ShowInv, Founded, Creating, Others, Still
  <2>9. ASSUME NEW s \in Conn, frame'[s].at \in Replaying
        PROVE  /\ s # t /\ Still(s) /\ Following(s) /\ frame[s].at \in Replaying
               /\ frame[s].uid \in Uid /\ Following(s)'
    <3>1. s # t
      BY <2>2, <2>9 DEF Replaying
    <3>2. Still(s) /\ frame[s].at \in Replaying
      BY <1>1, <2>9, <3>1 DEF Others, Still
    <3>3. Following(s) /\ frame[s].uid \in Uid
      BY <3>2 DEF ShowInv, AllFollowing, TypeInv, FramesOK, Whole, HasUid, Replaying
    <3> DEFINE w == frame[s].uid
               e == frame[s].end["channels"]
    <3>4. e \in Nat /\ chansOf[w].len \in Nat /\ e <= chansOf[w].len
          /\ (chansOf'[w].len = chansOf[w].len \/ chansOf'[w].len = chansOf[w].len + 1)
      BY <2>3, <2>6, <3>3, ZenonT(60)
      DEF Following, TypeInv, TablesTypeOK, Vectors, FramesOK, Frames, Level
    <3>5. e <= chansOf'[w].len
      <4> HIDE DEF e, w
      <4> QED BY <3>4
    <3> QED BY <1>2, <3>1, <3>2, <3>3, <3>5 DEF Following, Still
  <2>10. AllFollowing'
    BY <2>9 DEF AllFollowing
  <2>11. ASSUME NEW s \in Conn, NEW d, WillSee(s, d) PROVE WillSee(s, d)'
    <3>1. frame'[s].at \in Replaying
      BY <1>1, <2>11 DEF WillSee, Others, Still, Replaying
    <3> DEFINE w == frame[s].uid
               p == frame[s].pos["channels"]
               e == frame[s].end["channels"]
    <3>2. Still(s) /\ Following(s) /\ w \in Uid
      BY <2>9, <3>1
    <3>3. PICK i \in p..e : chansOf[w].cells[i] = d
      BY <2>11 DEF WillSee
    <3>4. i \in 1..chansOf[w].len
      <4>1. /\ p \in Nat /\ e \in Nat /\ chansOf[w].len \in Nat /\ p >= 1
            /\ e <= chansOf[w].len /\ i \in p..e
        BY <3>2, <3>3 DEF Following, TypeInv, TablesTypeOK, Vectors, FramesOK, Frames, Level
      <4> HIDE DEF p, e, w
      <4> QED BY <4>1
    <3>5. chansOf'[w].cells[i] = d
      BY <2>3, <2>6, <3>2, <3>3, <3>4
    <3> QED BY <3>1, <3>2, <3>3, <3>5 DEF WillSee, Still
  <2>12. \A d, w : Announces(d, w) => Announces(d, w)'
    BY <1>1 DEF Announces, Others, Still
  <2>13. ASSUME NEW s \in Conn, NEW d, Shows(s, d) PROVE Shows(s, d)'
    BY <1>2, <2>11, <2>12, <2>13, ReachedSame DEF Shows
  <2>14. Announces(c, u)'
    BY <2>2 DEF Announces
  <2>15. AllShown'
    <3> SUFFICES ASSUME NEW s \in Conn \ disturbed', Served(s)', NEW d \in Live(chansOf'[auth'[s]])
                 PROVE  Shows(s, d)'
      BY DEF AllShown
    <3>1. Served(s) /\ auth'[s] = auth[s] /\ auth[s] \in Uid /\ s \in Conn \ disturbed
      BY <1>1, <1>2 DEF Served, On, TypeInv, WiresOK, Others
    <3>2. CASE d \in Live(chansOf[auth[s]])
      BY <2>13, <3>1, <3>2 DEF ShowInv, AllShown
    <3>3. CASE auth[s] = u /\ d = c
      BY <2>14, <3>1, <3>3 DEF Shows
    <3> QED BY <2>3, <2>5, <3>1, <3>2, <3>3
  <2> QED BY <1>1, <2>7, <2>8, <2>10, <2>15 DEF ShowInv
<1> QED
  <2>1. \/ frame' = [frame EXCEPT ![t] = Advance(frame[t], "members")] /\ UNCHANGED chansOf
        \/ u \in users /\ UserAddChannel(u, c) /\ Pushed(t, f, "channels", u, chansOf[u])
    BY <1>0 DEF CreateMember, TypeInv, FramesOK
  <2> QED BY <1>3, <1>4, <2>1

\* The handlers of the user that has just listed the channel are told.
LEMMA CreateAnnounceShown ==
    ASSUME TypeInv, ShowInv, NEW t \in Conn, CreateAnnounce(t)
    PROVE  ShowInv'
<1> DEFINE c == frame[t].cid
           u == frame[t].uid
<1>1. /\ Others(t) /\ LooseInv' /\ frame[t].at = "create announce" /\ c \in channels
      /\ Emits(t, u, Packet("channel", {c}))
      /\ UNCHANGED <<chansOf, channels, link, auth, disturbed>>
  <2>1. Others(t) /\ LooseInv'
    BY OtherThreads, LooseNext DEF Continue, Next, ShowInv
  <2>2. frame[t].at = "create announce"
    BY DEF CreateAnnounce, At
  <2>3. c \in channels
    BY <2>2 DEF ShowInv, Founded, Creating, Creates
  <2> QED BY <2>1, <2>2, <2>3 DEF CreateAnnounce, Emits, tables, rooms
<1>2. frame'[t].at = "create members" /\ frame'[t].cid = c
  BY DEF CreateAnnounce, Advance, TypeInv, FramesOK, Frames
<1>3. Packet("channel", {c}) \in Packets /\ Adds(Packet("channel", {c}), "channel") = {c}
  <2>1. c \in Uid \cup Cid \cup Mid /\ "channel" \in Kinds
    BY <1>1 DEF TypeInv, TablesTypeOK, Kinds
  <2> QED BY <2>1, OneType DEF Packet, Adds
<1>4. ASSUME NEW s \in Conn
      PROVE  /\ Reached(s, "channel") \subseteq Reached(s, "channel")'
             /\ auth[s] = u => c \in Reached(s, "channel")'
             /\ auth'[s] = auth[s] /\ (On(s)' <=> On(s))
  <2>1. /\ Reached(s, "channel")'
             = Reached(s, "channel") \cup (IF auth[s] = u THEN {c} ELSE {})
        /\ auth'[s] = auth[s] /\ (On(s)' <=> On(s))
    <3> DEFINE packet == Packet("channel", {c})
    <3>1. packet \in Packets /\ Emits(t, u, packet) /\ Adds(packet, "channel") = {c}
      BY <1>1, <1>3
    <3> HIDE DEF c, u, packet
    <3>2. /\ Reached(s, "channel")' = Reached(s, "channel")
                                       \cup (IF auth[s] = u THEN Adds(packet, "channel") ELSE {})
          /\ auth'[s] = auth[s] /\ (On(s)' <=> On(s))
      BY <3>1, EmitsFacts
    <3> QED BY <3>1, <3>2
  <2> QED BY <2>1
<1>5. ChansWhole'
  BY <1>1 DEF ShowInv, ChansWhole
<1>6. Founded'
  BY <1>1, <1>2 DEF ShowInv, Founded, Creating, Others, Still
<1>7. AllFollowing'
  BY <1>1, <1>2 DEF ShowInv, AllFollowing, Following, Others, Still, Replaying
<1>8. \A s \in Conn : \A d : WillSee(s, d) => WillSee(s, d)'
  BY <1>1 DEF WillSee, Others, Still, Replaying
<1>9. ASSUME NEW d, NEW w, Announces(d, w) PROVE Announces(d, w)' \/ (d = c /\ w = u)
  BY <1>1, <1>9 DEF Announces, Others, Still
<1>10. ASSUME NEW s \in Conn, NEW d, Shows(s, d) PROVE Shows(s, d)'
  BY <1>4, <1>8, <1>9, <1>10 DEF Shows
<1>11. AllShown'
  <2> HIDE DEF c, u
  <2> QED BY <1>1, <1>4, <1>10 DEF ShowInv, AllShown, Served
<1> QED BY <1>1, <1>5, <1>6, <1>7, <1>11 DEF ShowInv

\* Every step.
LEMMA ShowNext ==
    ASSUME TypeInv, ShowInv, [Next]_vars
    PROVE  ShowInv'
<1>1. ASSUME NEW t \in Conn, Ask(t) \/ Continue(t) PROVE ShowInv'
  <2>1. Others(t) /\ LooseInv'
    BY <1>1, OtherThreads, LooseNext DEF Next, ShowInv
  <2>2. CASE LoginUser(t) /\ ~UNCHANGED frame
    BY <2>2, LoginUserShown
  <2>3. CASE LoginChannel(t)
    BY <2>3, LoginChannelShown
  <2>4. CASE CreateMember(t)
    BY <2>4, CreateMemberShown
  <2>5. CASE CreateAnnounce(t)
    BY <2>5, CreateAnnounceShown
  <2>6. CASE ~LoginChannel(t) /\ ~CreateMember(t) /\ ~CreateAnnounce(t)
             /\ (LoginUser(t) => UNCHANGED frame)
    BY <1>1, <2>1, <2>6, AsideSteps, AsideKeeps
  <2> QED BY <2>2, <2>3, <2>4, <2>5, <2>6
<1>2. CASE UNCHANGED vars
  <2>1. UNCHANGED <<chansOf, channels, frame, link, auth, queue, out, disturbed>>
    BY <1>2 DEF vars, tables, rooms, threads
  <2>2. LooseInv' /\ ChansWhole' /\ Founded' /\ AllFollowing'
    BY <2>1 DEF ShowInv, LooseInv, ChansWhole, Founded, Creating, AllFollowing, Following
  <2>3. \A s \in Conn : \A c : Shows(s, c) => Shows(s, c)'
    BY <2>1, ReachedSame DEF Shows, WillSee, Announces
  <2>4. AllShown'
    BY <2>1, <2>3 DEF ShowInv, AllShown, Served, On
  <2> QED BY <2>2, <2>4 DEF ShowInv
<1> QED BY <1>1, <1>2 DEF Next, Rest

\* The server starts without channels.
LEMMA ShowInit == Init => ShowInv
<1> SUFFICES ASSUME Init PROVE ShowInv
  OBVIOUS
<1>1. \A t \in Conn : frame[t].at = "idle" /\ frame[t].loose = {} /\ auth[t] = Nil
  BY DEF Init, Idle
<1>2. \A u \in Uid : chansOf[u].len = Len(chansOf[u].cells) /\ Live(chansOf[u]) = {}
  BY DEF Init, TablesInit, VectorOf, Live
<1> QED
  BY <1>1, <1>2
  DEF ShowInv, LooseInv, ChansWhole, Founded, Creating, Creates, AllFollowing, Replaying,
      AllShown, Served

\* However creations overlap with each other, with logins and with deletions: at rest every
\* open connection has been sent every channel its user lists, unless another thread changed
\* a vector under its login's loop.  on_login connects the handler before it reads the list, so that what
\* is not in the list yet is announced.
THEOREM ChannelsReach == Spec => []ChannelsAnnounced
<1>1. TypeInv /\ ShowInv => ChannelsAnnounced
  <2> SUFFICES ASSUME TypeInv, ShowInv, Quiet, NEW t \in Conn \ disturbed, link[t] = "open",
                      auth[t] \in users, NEW c \in Live(chansOf[auth[t]])
               PROVE  c \in Got(t, "channel")
    BY DEF ChannelsAnnounced
  <2>1. \A s \in Conn : frame[s].at = "idle" /\ queue[s] = <<>>
    BY DEF Quiet
  <2>2. Served(t)
    BY NilAssumption DEF Served, On, TypeInv, TablesTypeOK
  <2>3. Shows(t, c)
    BY <2>2 DEF ShowInv, AllShown
  <2> QED BY <2>1, <2>3, IdsEmpty DEF Shows, Reached, Posted, WillSee, Replaying, Announces
<1>2. TypeInv /\ ShowInv /\ [Next]_vars => ShowInv'
  BY ShowNext
<1> QED BY <1>1, <1>2, ShowInit, Typed, PTL DEF Spec

-----------------------------------------------------------------------------
(* What a connection was told is of channels of those who logged in over it  *)

\* The channel has a member that logged in over the connection.
Mine(t, c) == \E u \in Got(t, "login") : u \in Live(membersOf[c])

\* A channel, or the channel of a message, that t may be told of.
May(t, k, x) ==
    IF k = "channel" THEN x \in channels /\ Mine(t, x)
    ELSE x \in Mid /\ channelOf[x] \in channels /\ Mine(t, channelOf[x])

Tidings == {"channel", "message"}

\* A handler is connected to a user that logged in over its connection.
AuthTold == \A t \in Conn : auth[t] # Nil => auth[t] \in Got(t, "login")

\* A message is of a channel that was made.
Homed == \A m \in Mid : channelOf[m] # Nil => channelOf[m] \in channels

OnlyMine == \A t \in Conn \ disturbed : \A k \in Tidings : \A x \in Reached(t, k) : May(t, k, x)

ReadsMine ==
    \A t \in Conn \ disturbed :
        Reads(t) => frame[t].cid \in channels /\ Mine(t, frame[t].cid)

\* The loop of a sender is over the members of the channel.
Talks(t) ==
    /\ frame[t].pos["members"] >= 1
    /\ frame[t].end["members"] <= membersOf[frame[t].cid].len

Talking == \A t \in Conn : frame[t].at = "send notify" => Talks(t)

PrivInv == AuthTold /\ Homed /\ OnlyMine /\ ReadsMine /\ Talking

\* t tells a member that it deleted a message.
Retracts(t) ==
    /\ frame[t].at = "remove notify"
    /\ \E u \in Uid : Emits(t, u, Packet("deleted", {frame[t].mid}))

\* A step of t that tells nobody of a channel or a message.
Silent(t) == QuietWires(t) \/ Passes(t) \/ Retracts(t)

\* No channel loses a member and no message changes its channel.
Stable ==
    /\ channels \subseteq channels'
    /\ \A c \in channels : membersOf'[c] = membersOf[c]
    /\ \A m \in Mid : channelOf[m] # Nil => channelOf'[m] = channelOf[m]
    /\ \A m \in Mid : channelOf'[m] # Nil => channelOf[m] # Nil \/ channelOf'[m] \in channels'

\* A step of t that tells nothing and begins neither the replay of a channel nor a loop over
\* the members of another channel.
Discreet(t) ==
    /\ Silent(t) /\ Stable
    /\ Reads(t)' => Reads(t) /\ frame'[t].cid = frame[t].cid
    /\ frame'[t].at = "send notify" => Talks(t)'

\* What a connection is told by a step that tells nothing.
LEMMA SilentFacts ==
    ASSUME TypeInv, NEW t \in Conn, Silent(t), NEW s \in Conn
    PROVE  /\ \A k \in Tidings : Reached(s, k)' \subseteq Reached(s, k)
           /\ Got(s, "login") \subseteq Got(s, "login")'
           /\ auth'[s] \in {auth[s], Nil}
<1>a. \A k : Got(s, k) = Ids(out[s], k) /\ Got(s, k)' = Ids(out'[s], k)
             /\ Posted(s, k) = Ids(queue[s], k) /\ Posted(s, k)' = Ids(queue'[s], k)
  BY DEF Got, Ids, Posted
<1>1. CASE QuietWires(t)
  <2>1. /\ auth'[s] \in {auth[s], Nil}
        /\ \A k \in Pushes \cup {"login"} : Ids(out'[s], k) = Ids(out[s], k)
        /\ \A k \in Pushes : Ids(queue'[s], k) \subseteq Ids(queue[s], k)
    BY <1>1, QuietFacts
  <2> QED BY <1>a, <2>1 DEF Reached, Tidings, Pushes
<1>2. CASE Passes(t)
  BY <1>2, PassesFacts
<1>3. CASE Retracts(t)
  <2>0. PICK u, packet : packet = Packet("deleted", {frame[t].mid}) /\ Emits(t, u, packet)
    BY <1>3 DEF Retracts
  <2>a. packet \in Packets /\ packet.kind = "deleted"
    BY <1>3, <2>0, OneType DEF Retracts, TypeInv, FramesOK, Whole, HasMid, Kinds, Packet
  <2>1. \A k \in Tidings : Adds(packet, k) = {}
    BY <2>a DEF Adds, Tidings
  <2>2. ASSUME NEW k \in Tidings PROVE Reached(s, k)' = Reached(s, k)
    <3>1. Reached(s, k)' = Reached(s, k) \cup (IF auth[s] = u THEN Adds(packet, k) ELSE {})
      BY <2>0, <2>a, EmitsFacts
    <3> QED BY <2>1, <3>1
  <2>3. Got(s, "login") \subseteq Got(s, "login")' /\ auth'[s] = auth[s]
    BY <2>0, <2>a, EmitsFacts
  <2> QED BY <2>2, <2>3
<1> QED BY <1>1, <1>2, <1>3 DEF Silent

\* What a connection may be told it may still be told.
LEMMA MayStays ==
    ASSUME TypeInv, Homed, Stable, NEW s \in Conn, Got(s, "login") \subseteq Got(s, "login")',
           NEW k \in Tidings, NEW x, May(s, k, x)
    PROVE  May(s, k, x)'
<1>1. CASE k = "channel"
  BY <1>1 DEF May, Stable, Mine
<1>2. CASE k = "message"
  <2>1. x \in Mid /\ channelOf[x] \in channels /\ channelOf[x] # Nil /\ Mine(s, channelOf[x])
    BY <1>2, NilAssumption DEF May, TypeInv, TablesTypeOK
  <2>2. channelOf'[x] = channelOf[x]
    BY <1>2, <2>1 DEF Stable
  <2>3. channelOf[x] \in channels' /\ membersOf'[channelOf[x]] = membersOf[channelOf[x]]
    BY <2>1 DEF Stable
  <2> QED BY <1>2, <2>1, <2>2, <2>3 DEF May, Mine
<1> QED BY <1>1, <1>2 DEF Tidings

\* One step, as far as what is told goes.
LEMMA ToldKept ==
    ASSUME TypeInv, PrivInv, Stable, disturbed \subseteq disturbed',
           \A s \in Conn : /\ Got(s, "login") \subseteq Got(s, "login")'
                           /\ auth'[s] \in {auth[s], Nil} \cup Got(s, "login")',
           \A s \in Conn \ disturbed' : \A k \in Tidings : \A x \in Reached(s, k)' :
               x \in Reached(s, k) \/ May(s, k, x)
    PROVE  AuthTold' /\ Homed' /\ OnlyMine'
<1>1. AuthTold'
  BY DEF PrivInv, AuthTold
<1>2. Homed'
  BY DEF PrivInv, Homed, Stable
<1>3. OnlyMine'
  <2> SUFFICES ASSUME NEW s \in Conn \ disturbed', NEW k \in Tidings, NEW x \in Reached(s, k)'
               PROVE  May(s, k, x)'
    BY DEF OnlyMine
  <2>1. May(s, k, x)
    BY DEF PrivInv, OnlyMine
  <2> QED BY <2>1, MayStays DEF PrivInv
<1> QED BY <1>1, <1>2, <1>3

\* A discreet step.
LEMMA DiscreetKeeps ==
    ASSUME TypeInv, PrivInv, NEW t \in Conn, Discreet(t), Others(t), Carried
    PROVE  PrivInv'
<1>1. \A s \in Conn : /\ \A k \in Tidings : Reached(s, k)' \subseteq Reached(s, k)
                      /\ Got(s, "login") \subseteq Got(s, "login")'
                      /\ auth'[s] \in {auth[s], Nil}
  BY SilentFacts DEF Discreet
<1>2. AuthTold' /\ Homed' /\ OnlyMine'
  <2>1. Stable /\ disturbed \subseteq disturbed'
    BY DEF Discreet, Others
  <2>2. \A s \in Conn \ disturbed' : \A k \in Tidings : \A x \in Reached(s, k)' : x \in Reached(s, k)
    BY <1>1
  <2> QED BY <1>1, <2>1, <2>2, ToldKept
<1>3. ReadsMine'
  <2> SUFFICES ASSUME NEW s \in Conn \ disturbed', Reads(s)'
               PROVE  (frame[s].cid \in channels /\ Mine(s, frame[s].cid))'
    BY DEF ReadsMine
  <2>1. Reads(s) /\ frame'[s].cid = frame[s].cid
    BY DEF Discreet, Others, Still, Reads
  <2>2. s \in Conn \ disturbed
    BY DEF Others
  <2>3. frame[s].cid \in channels /\ Mine(s, frame[s].cid)
    BY <2>1, <2>2 DEF PrivInv, ReadsMine
  <2>4. frame[s].cid \in channels' /\ membersOf'[frame[s].cid] = membersOf[frame[s].cid]
    BY <2>3 DEF Discreet, Stable
  <2> QED BY <1>1, <2>1, <2>3, <2>4 DEF Mine
<1>4. Talking'
  <2> SUFFICES ASSUME NEW s \in Conn \ {t}, frame'[s].at = "send notify"
               PROVE  Talks(s)'
    BY DEF Talking, Discreet
  <2>1. Still(s) /\ frame[s].at = "send notify" /\ Talks(s)
    BY DEF Others, Still, PrivInv, Talking
  <2>2. frame[s].cid \in channels
    <3>1. frame[s].mid \in Mid /\ frame[s].cid \in Cid
      BY <2>1 DEF TypeInv, FramesOK, Whole, HasMid, HasCid
    <3>2. channelOf[frame[s].mid] = frame[s].cid
      BY <2>1 DEF Carried, Holding
    <3> QED BY <3>1, <3>2, NilAssumption DEF PrivInv, Homed
  <2>3. membersOf'[frame'[s].cid] = membersOf[frame[s].cid]
    <3>1. membersOf'[frame[s].cid] = membersOf[frame[s].cid]
      BY <2>2 DEF Discreet, Stable
    <3>2. frame'[s].cid = frame[s].cid
      BY <2>1 DEF Still
    <3> QED BY <3>1, <3>2
  <2> QED BY <2>1, <2>3 DEF Talks, Still
<1> QED BY <1>2, <1>3, <1>4 DEF PrivInv

\* A step in which no room and no message is made or changed.
LEMMA RoomsStable ==
    ASSUME UNCHANGED <<channels, membersOf, channelOf>>
    PROVE  Stable
BY DEF Stable

\* Plain steps tell nobody of channels and messages.
LEMMA PlainDiscreet ==
    ASSUME TypeInv, PrivInv, NEW t \in Conn, Plain(t)
    PROVE  Discreet(t)
<1>1. Silent(t) /\ Stable /\ UNCHANGED <<membersOf>>
  BY RoomsStable DEF Plain, Silent, rooms, texts
<1>2. CASE UNCHANGED frame
  BY <1>1, <1>2 DEF Discreet, Reads, PrivInv, Talking, Talks
<1>3. CASE frame'[t].at \notin Busy
  BY <1>1, <1>3 DEF Discreet, Reads, Busy, Replaying
<1> QED BY <1>1, <1>2, <1>3 DEF Plain

\* Every step but those of a login, of an announcement and of a notification.
LEMMA DiscreetSteps ==
    ASSUME TypeInv, PrivInv, Deleting = {}, NEW t \in Conn, Ask(t) \/ Continue(t),
           LoginUser(t) => UNCHANGED frame,
           ~LoginChannel(t), ~LoginMessage(t), ~CreateAnnounce(t), ~SendNotify(t)
    PROVE  Discreet(t)
<1>a. frame \in [Conn -> Frames] /\ frame[t] \in Frames
  BY DEF TypeInv, FramesOK
<1> USE DEF Reads
<1>1. CASE \/ \E n \in Name, p \in Password : Register(t, n, p) \/ Login(t, n, p) \/ DeleteAccount(t, n, p)
           \/ \E regex \in (SUBSET Name) \cup {Nil} : ListAccounts(t, regex)
           \/ Accept(t) \/ Disconnect(t) \/ DisconnectFinished(t) \/ QuitThread(t)
           \/ RegisterPassword(t) \/ RegisterUser(t) \/ ListAccount(t) \/ ListFinished(t)
           \/ DeleteUser(t)
  BY <1>1, PlainStep, PlainDiscreet
<1>2. ASSUME NEW c \in Cid, SendMessage(t, c) PROVE Discreet(t)
  <2>1. PICK m \in FreeMids : AddMessage(m, auth[t], c)
    BY <1>2 DEF SendMessage, NextSnowflake
  <2>2. m \in Mid /\ channelOf[m] = Nil /\ channelOf' = [channelOf EXCEPT ![m] = c]
        /\ c \in channels /\ UNCHANGED <<channels, membersOf>>
    BY <1>2, <2>1 DEF FreeMids, AddMessage, SendMessage, rooms
  <2>3. Stable
    BY <2>2 DEF Stable, TypeInv, TablesTypeOK
  <2>4. frame'[t].at = "append" /\ Silent(t)
    BY <1>a, <1>2, NoWireQuiet DEF SendMessage, Frames, Silent
  <2> QED BY <2>3, <2>4 DEF Discreet
<1>3. ASSUME NEW m \in Mid, DeleteMessage(t, m) PROVE Discreet(t)
  <2>1. Silent(t) /\ Stable /\ UNCHANGED membersOf
    BY <1>3, NoWireQuiet, RoomsStable DEF DeleteMessage, Silent, tables, rooms, texts
  <2>2. CASE UNCHANGED frame
    BY <2>1, <2>2 DEF Discreet, PrivInv, Talking, Talks
  <2>3. CASE frame' = [frame EXCEPT ![t].at = "remove text", ![t].cid = channelOf[m],
                                    ![t].mid = m]
    BY <1>a, <2>1, <2>3 DEF Discreet, Frames
  <2> QED BY <1>3, <2>2, <2>3 DEF DeleteMessage
<1>4. ASSUME NEW other \in Announced, CreateChannel(t, other) PROVE Discreet(t)
  <2>0. PICK d \in Cid \ channels : d = Fresh(Cid \ channels)
    BY <1>4 DEF CreateChannel, Fresh, TypeInv, TablesTypeOK
  <2> DEFINE uids == <<auth[t], other>>
             f == Loop([frame[t] EXCEPT !.at = "create members", !.cid = d], "members",
                       VectorOf(uids))
  <2>1. f.at = "create members"
    BY <1>a DEF Loop, Frames
  <2>2. frame'[t] = f /\ channels' = channels \cup {d}
        /\ membersOf' = [membersOf EXCEPT ![d] = VectorOf(uids)]
        /\ UNCHANGED <<channelOf, link, auth, queue, out>>
    BY <1>a, <1>4, <2>0 DEF CreateChannel, AddChannel, texts
  <2> HIDE DEF f, uids
  <2>3. Stable
    BY <2>0, <2>2 DEF Stable, TypeInv, TablesTypeOK
  <2> QED BY <2>1, <2>2, <2>3, NoWireQuiet DEF Discreet, Silent
<1>5. ASSUME LoginUser(t), UNCHANGED frame PROVE Discreet(t)
  <2>1. frame[t].at = "login user"
    BY <1>5 DEF LoginUser, At
  <2>2. CASE UNCHANGED <<auth, out>>
    BY <1>5, <2>1, <2>2, NoWireQuiet, RoomsStable
    DEF LoginUser, Discreet, Silent, tables, rooms, texts
  <2> DEFINE f == Loop([frame[t] EXCEPT !.at = "login channels"], "channels",
                       chansOf[frame[t].uid])
  <2>3. CASE frame' = [frame EXCEPT ![t] = f]
    <3>1. f.at = "login channels"
      BY <1>a DEF Loop, Frames
    <3> QED BY <1>a, <1>5, <2>1, <2>3, <3>1
  <2> QED BY <1>5, <2>2, <2>3 DEF LoginUser
<1>6. ASSUME LoginChannelReplayed(t) PROVE Discreet(t)
  BY <1>a, <1>6, NoWireQuiet, RoomsStable
  DEF LoginChannelReplayed, Discreet, Silent, tables, rooms, texts, Goto, Frames
<1>7. ASSUME LoginFinished(t) PROVE Discreet(t)
  BY <1>a, <1>7, NoWireQuiet, RoomsStable
  DEF LoginFinished, Discreet, Silent, tables, rooms, texts, Done, Return, Idle
<1>8. ASSUME CreateMember(t) PROVE Discreet(t)
  <2>1. Silent(t) /\ Stable
    BY <1>8, NoWireQuiet, RoomsStable DEF CreateMember, Silent, texts
  <2> DEFINE u == membersOf[frame[t].cid].cells[frame[t].pos["members"]]
             f == [frame[t] EXCEPT !.at = "create announce", !.uid = u]
             h == Advance(frame[t], "members")
  <2>2. f.at = "create announce" /\ h.at = frame[t].at
    BY <1>a DEF Advance, Frames
  <2>3. frame'[t] = f \/ frame'[t] = h
    BY <1>a, <1>8 DEF CreateMember, Pushed
  <2>4. frame[t].at = "create members"
    BY <1>8 DEF CreateMember, At
  <2> HIDE DEF f, h
  <2> QED BY <2>1, <2>2, <2>3, <2>4 DEF Discreet
<1>9. ASSUME CreateFinished(t) PROVE Discreet(t)
  BY <1>a, <1>9, NoWireQuiet, RoomsStable
  DEF CreateFinished, Discreet, Silent, tables, rooms, texts, Done, Return, Idle
<1>10. ASSUME AppendMessage(t) PROVE Discreet(t)
  <2> DEFINE c == frame[t].cid
             f == Loop([frame[t] EXCEPT !.at = "send notify"], "members", membersOf[c])
  <2>1. /\ f.at = "send notify" /\ f.cid = c
        /\ f.pos["members"] = 1 /\ f.end["members"] = membersOf[c].len
    BY <1>a DEF Loop, Frames, Level
  <2>2. frame'[t] = f
    BY <1>10 DEF AppendMessage, Pushed
  <2>3. Silent(t) /\ Stable /\ UNCHANGED membersOf /\ c \in Cid
    BY <1>10, NoWireQuiet, RoomsStable
    DEF AppendMessage, Silent, texts, At, TypeInv, FramesOK, Whole, HasCid
  <2>4. membersOf[c].len <= membersOf[c].len
    <3>1. membersOf[c].len \in Nat
      BY <2>3 DEF TypeInv, TablesTypeOK, Vectors
    <3> QED BY <3>1
  <2>5. 1 >= 1
    OBVIOUS
  <2> HIDE DEF f
  <2>6. Talks(t)'
    BY <2>1, <2>2, <2>3, <2>4, <2>5, Zenon DEF Talks
  <2> QED BY <2>1, <2>2, <2>3, <2>6 DEF Discreet
<1>11. ASSUME RemoveNotify(t) PROVE Discreet(t)
  <2>1. frame[t].mid \in Mid /\ frame[t].at = "remove notify" /\ UNCHANGED <<link, auth>> /\ Stable
    BY <1>11, RoomsStable
    DEF RemoveNotify, At, TypeInv, FramesOK, Whole, HasMid, tables, rooms, texts
  <2> DEFINE packet == Packet("deleted", {frame[t].mid})
  <2>3. CASE NotifyMember(t, packet)
    <3> DEFINE u == membersOf[frame[t].cid].cells[frame[t].pos["members"]]
    <3>1. (u \in users /\ Emits(t, u, packet)) \/ QuietWires(t)
      BY <2>1, <2>3, NotifyWires
    <3>2. u \in users => u \in Uid
      BY DEF TypeInv, TablesTypeOK
    <3>3. frame'[t].at = frame[t].at
      BY <1>a, <2>3 DEF NotifyMember, Advance, Frames
    <3> HIDE DEF u
    <3> QED BY <2>1, <3>1, <3>2, <3>3 DEF Discreet, Silent, Retracts
  <2>4. CASE Goto(t, "unlist") /\ UNCHANGED <<out, queue>>
    BY <1>a, <2>1, <2>4, NoWireQuiet DEF Goto, Frames, Discreet, Silent
  <2> QED BY <1>11, <2>3, <2>4 DEF RemoveNotify
<1>12. ASSUME RemoveText(t) PROVE Discreet(t)
  BY <1>a, <1>12, NoWireQuiet, RoomsStable
  DEF RemoveText, RemoveMessage, Discreet, Silent, rooms, Loop, Frames
<1>13. ASSUME Unlist(t) PROVE Discreet(t)
  BY <1>a, <1>13, NoWireQuiet, RoomsStable
  DEF Unlist, Discreet, Silent, texts, Done, Return, Idle
<1>14. ASSUME Dispatch(t) PROVE Discreet(t)
  BY <1>a, <1>14, DispatchWires, RoomsStable
  DEF Dispatch, Discreet, Silent, tables, rooms, texts, Return, Idle
<1>15. DeleteFromChannel(t) \/ DeleteFindMessage(t) \/ DeleteListedMessage(t) \/ DeleteNotify(t)
         \/ DeleteChannelFinished(t) \/ DeleteAccountFinished(t) => t \in Deleting
  BY DEF DeleteFromChannel, DeleteFindMessage, DeleteListedMessage, DeleteNotify,
     DeleteChannelFinished, DeleteAccountFinished, At, Deleting
<1> QED
  BY <1>1, <1>2, <1>3, <1>4, <1>5, <1>6, <1>7, <1>8, <1>9, <1>10, <1>11, <1>12, <1>13, <1>14,
     <1>15 DEF Ask, Continue

\* A login that finds its user: the answer names it.
LEMMA LoginUserPrivate ==
    ASSUME TypeInv, PrivInv, NEW t \in Conn, LoginUser(t), ~UNCHANGED frame, Others(t)
    PROVE  PrivInv'
<1>0. PICK u \in users : u = frame[t].uid /\ Write(t, Packet("login", {u}))
                          /\ auth' = [auth EXCEPT ![t] = u]
  BY DEF LoginUser
<1> DEFINE f == Loop([frame[t] EXCEPT !.at = "login channels"], "channels", chansOf[u])
           packet == Packet("login", {u})
<1>1. /\ u \in Uid /\ frame'[t] = f /\ UNCHANGED <<channels, membersOf, channelOf, link, queue>>
      /\ f.at = "login channels"
  <2>1. frame' = [frame EXCEPT ![t] = f]
    BY <1>0 DEF LoginUser, TypeInv, FramesOK
  <2>2. f.at = "login channels"
    BY DEF TypeInv, FramesOK, Loop, Frames
  <2> HIDE DEF f
  <2>3. frame'[t] = f
    BY <2>1 DEF TypeInv, FramesOK
  <2>4. UNCHANGED <<channels, membersOf, channelOf, link, queue>>
    BY DEF LoginUser, tables, rooms, texts
  <2>5. u \in Uid
    BY <1>0 DEF TypeInv, TablesTypeOK
  <2> QED BY <2>2, <2>3, <2>4, <2>5
<1>2. packet \in Packets /\ packet.kind = "login" /\ packet.ids = {u} /\ Write(t, packet)
  BY <1>0, <1>1, OneType DEF Kinds, Packet
<1> HIDE DEF f, packet
<1>3. ASSUME NEW s \in Conn
      PROVE  /\ \A k \in Tidings : Reached(s, k)' = Reached(s, k)
             /\ Got(s, "login")' = Got(s, "login") \cup (IF s = t THEN {u} ELSE {})
             /\ auth'[s] = IF s = t THEN u ELSE auth[s]
  <2>1. \A k : Ids(out'[s], k) = Ids(out[s], k) \cup (IF s = t THEN Adds(packet, k) ELSE {})
    BY <1>2, WriteFacts
  <2>2. Adds(packet, "login") = {u} /\ \A k \in Tidings : Adds(packet, k) = {}
    BY <1>2 DEF Adds, Tidings
  <2>3. \A k : Got(s, k) = Ids(out[s], k) /\ Got(s, k)' = Ids(out'[s], k)
               /\ Posted(s, k)' = Posted(s, k)
    BY <1>1 DEF Got, Ids, Posted
  <2>4. auth'[s] = IF s = t THEN u ELSE auth[s]
    BY <1>0 DEF TypeInv, WiresOK
  <2> QED BY <2>1, <2>2, <2>3, <2>4 DEF Reached
<1>4. Stable /\ disturbed \subseteq disturbed'
  BY <1>1, RoomsStable DEF Others
<1>5. AuthTold' /\ Homed' /\ OnlyMine'
  BY <1>3, <1>4, ToldKept
<1>6. ReadsMine'
  BY <1>1, <1>3, <1>4, ZenonT(60) DEF PrivInv, ReadsMine, Reads, Mine, Others, Still
<1>7. Talking'
  BY <1>1 DEF PrivInv, Talking, Talks, Others, Still
<1> QED BY <1>5, <1>6, <1>7 DEF PrivInv

\* What one packet to t adds, and to nobody else.
LEMMA SentPrivate ==
    ASSUME TypeInv, PrivInv, NEW t \in Conn, NEW k \in Tidings, NEW x, NEW packet \in Packets,
           packet = Packet(k, {x}), Sends(t, packet), UNCHANGED <<channels, membersOf, channelOf>>,
           disturbed \subseteq disturbed',
           t \notin disturbed' => May(t, k, x)
    PROVE  /\ AuthTold' /\ Homed' /\ OnlyMine'
           /\ \A s \in Conn : Got(s, "login")' = Got(s, "login")
<1>1. /\ \A l : Adds(packet, l) = IF l = k THEN {x} ELSE {}
      /\ k # "login"
  BY DEF Adds, Packet, Tidings
<1>2. \A s \in Conn : \A l : /\ Got(s, l)' = Got(s, l) \cup (IF s = t THEN Adds(packet, l) ELSE {})
                             /\ Posted(s, l)' = Posted(s, l)
                             /\ auth'[s] = auth[s]
  BY SendsFacts
<1>3. ASSUME NEW s \in Conn PROVE Got(s, "login")' = Got(s, "login")
  <2>1. Got(s, "login")' = Got(s, "login") \cup (IF s = t THEN Adds(packet, "login") ELSE {})
    BY <1>2
  <2>2. Adds(packet, "login") = {}
    BY <1>1
  <2> QED BY <2>1, <2>2
<1>4. \A s \in Conn \ disturbed' : \A l \in Tidings : \A y \in Reached(s, l)' :
          y \in Reached(s, l) \/ May(s, l, y)
  BY <1>1, <1>2 DEF Reached
<1> QED BY <1>2, <1>3, <1>4, RoomsStable, ToldKept

\* A login turns to a channel of its user.
LEMMA LoginChannelPrivate ==
    ASSUME TypeInv, ShowInv, RoomInv, PrivInv, NEW t \in Conn, LoginChannel(t), Others(t),
           Carried
    PROVE  PrivInv'
<1>0. PICK u, p, v : u = frame[t].uid /\ p = frame[t].pos["channels"] /\ v = chansOf[u]
  OBVIOUS
<1>1. /\ frame[t].at = "login channels" /\ u \in Uid /\ auth[t] = u
      /\ UNCHANGED <<chansOf, channels, membersOf, channelOf, link, auth, queue, disturbed>>
      /\ \A s \in Conn \ {t} : frame'[s] = frame[s]
  <2>1. frame[t].at = "login channels"
    BY DEF LoginChannel, At
  <2>2. Following(t) /\ u \in Uid
    BY <1>0, <2>1 DEF ShowInv, AllFollowing, Replaying, TypeInv, FramesOK, Whole, HasUid
  <2> QED BY <1>0, <2>1, <2>2
          DEF LoginChannel, tables, rooms, texts, TypeInv, FramesOK, Following
<1>2. p \in 1..v.len
  <2>1. Following(t) /\ More(t, "channels")
    BY <1>1 DEF ShowInv, AllFollowing, Replaying, LoginChannel
  <2>2. PICK e : e = frame[t].end["channels"]
    OBVIOUS
  <2>3. p \in Nat /\ e \in Nat /\ v.len \in Nat /\ p >= 1 /\ p <= e /\ e <= v.len
    <3>1. p >= 1 /\ p <= e /\ e <= v.len
      BY <1>0, <2>1, <2>2 DEF Following, More
    <3>2. p \in Nat /\ e \in Nat
      BY <1>0, <2>2 DEF TypeInv, FramesOK, Frames, Level
    <3>3. v.len \in Nat
      BY <1>0, <1>1 DEF TypeInv, TablesTypeOK, Vectors
    <3> QED BY <3>1, <3>2, <3>3
  <2>4. PICK n \in Nat : n = v.len
    BY <2>3
  <2> QED BY <2>3, <2>4
<1>3. PICK c \in Cell(t, "channels", chansOf, u) :
        \/ c \notin channels /\ frame'[t] = Advance(frame[t], "channels") /\ UNCHANGED out
        \/ c \in channels /\ frame'[t] = Replay(frame[t], c) /\ Write(t, Packet("channel", {c}))
  BY <1>0 DEF LoginChannel, Replay, TypeInv, FramesOK
<1>4. ASSUME t \notin disturbed PROVE Mine(t, c)
  <2>1. frame[t].loose = {}
    BY <1>4 DEF ShowInv, LooseInv
  <2>2. c = v.cells[p]
    BY <1>0, <1>3, <2>1 DEF Cell
  <2>3. u \in Live(membersOf[c])
    <3>1. c \in Live(chansOf[u])
      BY <1>0, <1>2, <2>2 DEF Live
    <3> QED BY <1>1, <3>1 DEF RoomInv, Admitted
  <2>4. u \in Got(t, "login")
    BY <1>1, NilAssumption DEF PrivInv, AuthTold
  <2> QED BY <2>3, <2>4 DEF Mine
<1>5. CASE c \notin channels /\ frame'[t] = Advance(frame[t], "channels") /\ UNCHANGED out
  <2>1. Advance(frame[t], "channels").at = frame[t].at
    BY AdvanceFacts DEF TypeInv, FramesOK, Level
  <2>2. Discreet(t)
    BY <1>1, <1>5, <2>1, NoWireQuiet, RoomsStable DEF Discreet, Silent, Reads
  <2> QED BY <2>2, DiscreetKeeps
<1>6. CASE c \in channels /\ frame'[t] = Replay(frame[t], c) /\ Write(t, Packet("channel", {c}))
  <2> DEFINE packet == Packet("channel", {c})
             g == Replay(frame[t], c)
  <2>1. packet \in Packets
    <3>1. c \in Uid \cup Cid \cup Mid /\ "channel" \in Kinds
      BY <1>6 DEF TypeInv, TablesTypeOK, Kinds
    <3> QED BY <3>1, OneType
  <2>2. g.at = "login messages" /\ g.cid = c
    <3>1. frame[t] \in Frames
      BY DEF TypeInv, FramesOK
    <3> QED BY <3>1, ReplayFacts
  <2>3. Sends(t, packet) /\ frame'[t] = g
    BY <1>1, <1>6 DEF Sends
  <2>4. t \notin disturbed => May(t, "channel", c)
    BY <1>4, <1>6 DEF May
  <2> HIDE DEF g
  <2>5. /\ AuthTold' /\ Homed' /\ OnlyMine'
        /\ \A s \in Conn : Got(s, "login")' = Got(s, "login")
    BY <1>1, <2>1, <2>3, <2>4, SentPrivate DEF Tidings
  <2>6. ReadsMine'
    BY <1>1, <1>4, <1>6, <2>2, <2>3, <2>5, ZenonT(60) DEF PrivInv, ReadsMine, Reads, Mine
  <2>7. Talking'
    BY <1>1, <2>2, <2>3 DEF PrivInv, Talking, Talks
  <2> QED BY <2>5, <2>6, <2>7 DEF PrivInv
<1> QED BY <1>3, <1>5, <1>6

\* A login replays a message of the channel it is at.
LEMMA LoginMessagePrivate ==
    ASSUME TypeInv, ShowInv, ListInv, PrivInv, NEW t \in Conn, LoginMessage(t), Others(t)
    PROVE  PrivInv'
<1>0. PICK c, p, w : c = frame[t].cid /\ p = frame[t].pos["messages"] /\ w = logOf[c].cells
  OBVIOUS
<1>1. /\ frame[t].at = "login messages" /\ c \in Cid
      /\ UNCHANGED <<channels, membersOf, channelOf, link, auth, queue, disturbed>>
      /\ \A s \in Conn \ {t} : frame'[s] = frame[s]
  <2>1. frame[t].at = "login messages"
    BY DEF LoginMessage, At
  <2> QED BY <1>0, <2>1
          DEF LoginMessage, tables, rooms, texts, TypeInv, FramesOK, Whole, HasCid
<1>2. PICK m \in Cell(t, "messages", logOf, c) :
        (m \in messages /\ Write(t, Packet("message", {m}))) \/ UNCHANGED out
  BY <1>0 DEF LoginMessage
<1>3. frame'[t].at = "login messages" /\ frame'[t].cid = c
  <2> DEFINE h == Advance(frame[t], "messages")
  <2>1. h.at = frame[t].at /\ h.cid = frame[t].cid
    <3>1. frame[t] \in Frames /\ "messages" \in Level
      BY DEF TypeInv, FramesOK, Level
    <3> QED BY <3>1, AdvanceFacts
  <2>2. frame'[t] = h
    BY DEF LoginMessage, TypeInv, FramesOK
  <2> HIDE DEF h
  <2> QED BY <1>0, <1>1, <2>1, <2>2
<1>4. AuthTold' /\ Homed' /\ OnlyMine' /\ \A s \in Conn : Got(s, "login")' = Got(s, "login")
  <2>1. CASE UNCHANGED out
    <3>1. ASSUME NEW s \in Conn, NEW k
          PROVE  Reached(s, k)' = Reached(s, k) /\ Got(s, k)' = Got(s, k)
      BY <1>1, <2>1, ReachedSame
    <3> QED BY <1>1, <3>1, RoomsStable, ToldKept
  <2>2. CASE m \in messages /\ Write(t, Packet("message", {m}))
    <3> DEFINE packet == Packet("message", {m})
    <3>1. m \in Mid /\ packet \in Packets
      <4>1. m \in Mid /\ "message" \in Kinds
        BY <2>2 DEF TypeInv, TablesTypeOK, Kinds
      <4> QED BY <4>1, OneType
    <3>2. Sends(t, packet)
      BY <1>1, <2>2 DEF Sends
    <3>3. ASSUME t \notin disturbed PROVE May(t, "message", m)
      <4>1. frame[t].loose = {}
        BY <3>3 DEF ShowInv, LooseInv
      <4>2. m = w[p]
        BY <1>0, <1>2, <4>1 DEF Cell
      <4>3. p \in 1..Len(w)
        <5>1. p >= 1 /\ p <= frame[t].end["messages"] /\ frame[t].end["messages"] <= Len(w)
          BY <1>0, <1>1 DEF ListInv, Reading, Reads, LoginMessage, More
        <5>2. p \in Nat /\ frame[t].end["messages"] \in Nat
          BY <1>0 DEF TypeInv, FramesOK, Frames, Level
        <5>3. w \in Seq(Mid)
          BY <1>0, <1>1 DEF TypeInv, TablesTypeOK, Vectors
        <5>4. PICK e \in Nat : e = frame[t].end["messages"]
          BY <5>2
        <5>5. PICK n \in Nat : n = Len(w)
          BY <5>3
        <5> QED BY <5>1, <5>2, <5>4, <5>5
      <4>4. m \in Cells(logOf[c])
        BY <1>0, <4>2, <4>3 DEF Cells
      <4>5. channelOf[m] = c
        BY <1>1, <4>4 DEF ListInv, SecretInv, Housed
      <4>6. c \in channels /\ Mine(t, c)
        BY <1>0, <1>1, <3>3 DEF PrivInv, ReadsMine, Reads
      <4> QED BY <3>1, <4>5, <4>6 DEF May
    <3> HIDE DEF packet
    <3> QED BY <1>1, <3>1, <3>2, <3>3, SentPrivate DEF packet, Tidings
  <2> QED BY <1>2, <2>1, <2>2
<1>5. ReadsMine'
  <2>1. ASSUME NEW s \in Conn, Reads(s)' PROVE Reads(s) /\ frame'[s].cid = frame[s].cid
    BY <1>0, <1>1, <1>3, <2>1 DEF Reads
  <2> QED BY <1>1, <1>4, <2>1 DEF PrivInv, ReadsMine, Mine
<1>6. Talking'
  BY <1>1, <1>3 DEF PrivInv, Talking, Talks
<1> QED BY <1>4, <1>5, <1>6 DEF PrivInv

\* What one signal adds, if the user it is for is a member of the channel.
LEMMA EmittedPrivate ==
    ASSUME TypeInv, PrivInv, NEW t \in Conn, NEW u \in Uid, NEW k \in Tidings, NEW x,
           NEW packet \in Packets, packet = Packet(k, {x}), Emits(t, u, packet),
           UNCHANGED <<channels, membersOf, channelOf>>, disturbed \subseteq disturbed',
           \A s \in Conn : u \in Got(s, "login") => May(s, k, x)
    PROVE  /\ AuthTold' /\ Homed' /\ OnlyMine'
           /\ \A s \in Conn : Got(s, "login") \subseteq Got(s, "login")'
<1>1. \A l : Adds(packet, l) = IF l = k THEN {x} ELSE {}
  BY DEF Adds, Packet
<1>2. ASSUME NEW s \in Conn
      PROVE  /\ \A l : Reached(s, l)' = Reached(s, l)
                                         \cup (IF auth[s] = u THEN Adds(packet, l) ELSE {})
             /\ Got(s, "login") \subseteq Got(s, "login")'
             /\ auth'[s] = auth[s]
  BY EmitsFacts
<1>3. \A s \in Conn : auth[s] = u => May(s, k, x)
  BY NilAssumption DEF PrivInv, AuthTold
<1>4. ASSUME NEW s \in Conn \ disturbed', NEW l \in Tidings, NEW y \in Reached(s, l)'
      PROVE  y \in Reached(s, l) \/ May(s, l, y)
  <2>1. y \in Reached(s, l) \/ (auth[s] = u /\ y \in Adds(packet, l))
    BY <1>2, <1>4
  <2>2. y \in Adds(packet, l) => l = k /\ y = x
    BY <1>1
  <2> QED BY <1>3, <2>1, <2>2
<1> QED BY <1>2, <1>4, RoomsStable, ToldKept

\* A user that lists a new channel is told of it.
LEMMA CreateAnnouncePrivate ==
    ASSUME TypeInv, RoomInv, PrivInv, NEW t \in Conn, CreateAnnounce(t), Others(t)
    PROVE  PrivInv'
<1>0. PICK c, u, p, v : /\ c = frame[t].cid /\ u = frame[t].uid
                        /\ p = frame[t].pos["members"] /\ v = membersOf[c]
  OBVIOUS
<1>1. /\ frame[t].at = "create announce" /\ c \in channels /\ u \in Uid
      /\ p \in Nat /\ v.len \in Nat /\ p >= 1 /\ p <= v.len /\ u = v.cells[p]
  <2>1. frame[t].at = "create announce"
    BY DEF CreateAnnounce, At
  <2>2. Builds(t)
    BY <2>1 DEF RoomInv, HallInv, Building, Creating, Creates
  <2>3. /\ c \in channels /\ p >= 1 /\ p <= v.len /\ u = v.cells[p]
    BY <1>0, <2>1, <2>2 DEF Builds
  <2>4. u \in Uid /\ p \in Nat
    BY <1>0, <2>1 DEF TypeInv, FramesOK, Frames, Level, Whole, HasUid
  <2>5. v.len \in Nat
    BY <1>0, <2>3 DEF TypeInv, TablesTypeOK, Vectors
  <2> QED BY <2>1, <2>3, <2>4, <2>5
<1>2. u \in Live(membersOf[c])
  <2>1. PICK n \in Nat : n = v.len
    BY <1>1
  <2>2. p \in Nat /\ p >= 1 /\ p <= n
    BY <1>1, <2>1
  <2>3. p \in 1..n
    BY ONLY <2>2
  <2> QED BY <1>0, <1>1, <2>1, <2>3 DEF Live
<1>3. /\ UNCHANGED <<channels, membersOf, channelOf, link, auth, disturbed>>
      /\ frame'[t].at = "create members" /\ \A s \in Conn \ {t} : frame'[s] = frame[s]
  BY DEF CreateAnnounce, tables, rooms, texts, Advance, TypeInv, FramesOK, Frames
<1> DEFINE packet == Packet("channel", {c})
<1>4. packet \in Packets /\ Emits(t, u, packet)
  <2>1. c \in Uid \cup Cid \cup Mid /\ "channel" \in Kinds
    BY <1>1 DEF TypeInv, TablesTypeOK, Kinds
  <2>2. packet \in Packets
    BY <2>1, OneType
  <2> QED BY <1>0, <1>3, <2>2 DEF CreateAnnounce, Emits
<1>5. /\ AuthTold' /\ Homed' /\ OnlyMine'
      /\ \A s \in Conn : Got(s, "login") \subseteq Got(s, "login")'
  <2>1. \A s \in Conn : u \in Got(s, "login") => May(s, "channel", c)
    BY <1>1, <1>2 DEF May, Mine
  <2> QED BY <1>1, <1>3, <1>4, <2>1, EmittedPrivate DEF Tidings
<1>6. ReadsMine'
  BY <1>3, <1>5 DEF PrivInv, ReadsMine, Reads, Mine
<1>7. Talking'
  BY <1>3 DEF PrivInv, Talking, Talks
<1> QED BY <1>5, <1>6, <1>7 DEF PrivInv

\* The next member of its channel is told of a message.
LEMMA SendNotifyPrivate ==
    ASSUME TypeInv, ListInv, PrivInv, NEW t \in Conn, SendNotify(t), Others(t)
    PROVE  PrivInv'
<1>0. PICK c, m, p, v : /\ c = frame[t].cid /\ m = frame[t].mid
                        /\ p = frame[t].pos["members"] /\ v = membersOf[c]
  OBVIOUS
<1>1. /\ frame[t].at = "send notify" /\ c \in Cid /\ m \in Mid /\ channelOf[m] = c
      /\ c \in channels
      /\ UNCHANGED <<channels, membersOf, channelOf, link, auth, disturbed>>
      /\ \A s \in Conn \ {t} : frame'[s] = frame[s]
  <2>1. frame[t].at = "send notify"
    BY DEF SendNotify, At
  <2>2. c \in Cid /\ m \in Mid
    BY <1>0, <2>1 DEF TypeInv, FramesOK, Whole, HasCid, HasMid
  <2>3. channelOf[m] = c
    BY <1>0, <2>1 DEF ListInv, SecretInv, Carried, Holding
  <2>4. c \in channels
    BY <2>2, <2>3, NilAssumption DEF PrivInv, Homed
  <2>5. UNCHANGED <<channels, membersOf, channelOf, link, auth, disturbed>>
    BY DEF SendNotify, tables, rooms, texts
  <2>6. \A s \in Conn \ {t} : frame'[s] = frame[s]
    BY DEF SendNotify, NotifyMember, Done, Return, TypeInv, FramesOK
  <2> QED BY <2>1, <2>2, <2>3, <2>4, <2>5, <2>6
<1> DEFINE packet == Packet("message", {m})
<1>2. packet \in Packets
  BY <1>1, OneType DEF Kinds
<1>3. CASE Done(t) /\ UNCHANGED <<out, queue>>
  <2>1. frame'[t].at \in {"idle", "sweep"}
    BY <1>3 DEF Done, Return, Idle, TypeInv, FramesOK
  <2>2. Discreet(t)
    BY <1>1, <1>3, <2>1, NoWireQuiet, RoomsStable DEF Discreet, Silent, Reads
  <2> QED BY <2>2, DiscreetKeeps DEF ListInv, SecretInv
<1>4. CASE NotifyMember(t, packet)
  <2>1. PICK u : u = v.cells[p]
    OBVIOUS
  <2> DEFINE h == Advance(frame[t], "members")
  <2>2. /\ h.at = frame[t].at /\ h.cid = frame[t].cid /\ h.end = frame[t].end
        /\ h.pos["members"] = frame[t].pos["members"] + 1
    <3>1. frame[t] \in Frames /\ "members" \in Level
      BY DEF TypeInv, FramesOK, Level
    <3> QED BY <3>1, AdvanceFacts
  <2>3. frame'[t] = h
    BY <1>4 DEF NotifyMember, TypeInv, FramesOK
  <2> HIDE DEF h, packet
  <2>4. (u \in users /\ Emits(t, u, packet)) \/ QuietWires(t)
    BY <1>0, <1>1, <1>4, <2>1, NotifyWires
  <2>5. p \in Nat /\ p >= 1 /\ Talks(t) /\ p <= v.len /\ v.len \in Nat
    <3>1. Talks(t) /\ More(t, "members")
      BY <1>1, <1>4 DEF PrivInv, Talking, NotifyMember
    <3>2. PICK e : e = frame[t].end["members"]
      OBVIOUS
    <3>3. p >= 1 /\ p <= e /\ e <= v.len
      BY <1>0, <3>1, <3>2 DEF Talks, More
    <3>4. p \in Nat /\ e \in Nat
      BY <1>0, <3>2 DEF TypeInv, FramesOK, Frames, Level
    <3>5. v.len \in Nat
      BY <1>0, <1>1 DEF TypeInv, TablesTypeOK, Vectors
    <3>6. PICK n \in Nat : n = v.len
      BY <3>5
    <3> QED BY <3>1, <3>3, <3>4, <3>6
  <2>6. Talks(t)'
    <3>1. p + 1 >= 1
      BY ONLY <2>5
    <3> QED BY <1>0, <1>1, <2>2, <2>3, <2>5, <3>1 DEF Talks
  <2>7. Talking'
    BY <1>1, <2>6 DEF PrivInv, Talking, Talks
  <2>8. CASE QuietWires(t)
    <3>1. Discreet(t)
      BY <1>1, <2>2, <2>3, <2>6, <2>8, RoomsStable DEF Discreet, Silent, Reads
    <3> QED BY <3>1, DiscreetKeeps DEF ListInv, SecretInv
  <2>9. CASE u \in users /\ Emits(t, u, packet)
    <3>1. u \in Uid
      BY <2>9 DEF TypeInv, TablesTypeOK
    <3>2. u \in Live(membersOf[c])
      <4>1. PICK n \in Nat : n = v.len
        BY <2>5
      <4>2. p \in 1..v.len
        BY <2>5, <4>1
      <4> QED BY <1>0, <2>1, <4>2 DEF Live
    <3>3. \A s \in Conn : u \in Got(s, "login") => May(s, "message", m)
      BY <1>1, <3>2 DEF May, Mine
    <3>4. /\ AuthTold' /\ Homed' /\ OnlyMine'
          /\ \A s \in Conn : Got(s, "login") \subseteq Got(s, "login")'
      BY <1>1, <1>2, <2>9, <3>1, <3>3, EmittedPrivate DEF Tidings, packet
    <3>5. ReadsMine'
      BY <1>1, <2>2, <2>3, <3>4 DEF PrivInv, ReadsMine, Reads, Mine
    <3> QED BY <2>7, <3>4, <3>5 DEF PrivInv
  <2> QED BY <2>4, <2>8, <2>9
<1> QED BY <1>0, <1>3, <1>4 DEF SendNotify

\* Every step, while no account is deleted.
LEMMA PrivNext ==
    ASSUME TypeInv, Deleting = {}, ListInv, RoomInv, ShowInv, PrivInv, [Next]_vars
    PROVE  PrivInv'
<1>1. ASSUME NEW t \in Conn, Ask(t) \/ Continue(t) PROVE PrivInv'
  <2>1. Others(t) /\ Carried
    BY <1>1, OtherThreads DEF ListInv, SecretInv
  <2>2. CASE LoginUser(t) /\ ~UNCHANGED frame
    BY <2>1, <2>2, LoginUserPrivate
  <2>3. CASE LoginChannel(t)
    BY <2>1, <2>3, LoginChannelPrivate
  <2>4. CASE LoginMessage(t)
    BY <2>1, <2>4, LoginMessagePrivate
  <2>5. CASE CreateAnnounce(t)
    BY <2>1, <2>5, CreateAnnouncePrivate
  <2>6. CASE SendNotify(t)
    BY <2>1, <2>6, SendNotifyPrivate
  <2>7. CASE ~LoginChannel(t) /\ ~LoginMessage(t) /\ ~CreateAnnounce(t) /\ ~SendNotify(t)
             /\ (LoginUser(t) => UNCHANGED frame)
    BY <1>1, <2>1, <2>7, DiscreetSteps, DiscreetKeeps
  <2> QED BY <2>2, <2>3, <2>4, <2>5, <2>6, <2>7
<1>2. CASE UNCHANGED vars
  <2>1. UNCHANGED <<channels, membersOf, channelOf, frame, link, auth, queue, out, disturbed>>
    BY <1>2 DEF vars, tables, rooms, texts, threads
  <2>2. ASSUME NEW s, NEW k PROVE Got(s, k)' = Got(s, k) /\ Reached(s, k)' = Reached(s, k)
    BY <2>1, ReachedSame
  <2>3. /\ \A s \in Conn : \A c : Mine(s, c) => Mine(s, c)'
        /\ \A s \in Conn : \A k, x : May(s, k, x) => May(s, k, x)'
    BY <2>1, <2>2 DEF Mine, May
  <2>4. AuthTold' /\ Homed' /\ OnlyMine'
    BY <2>1, <2>2, <2>3 DEF PrivInv, AuthTold, Homed, OnlyMine
  <2>5. ReadsMine' /\ Talking'
    BY <2>1, <2>3 DEF PrivInv, ReadsMine, Reads, Talking, Talks
  <2> QED BY <2>4, <2>5 DEF PrivInv
<1> QED BY <1>1, <1>2 DEF Next, Rest

\* Nothing has been sent at first.
LEMMA PrivInit == Init => PrivInv
<1> SUFFICES ASSUME Init PROVE PrivInv
  OBVIOUS
<1>1. \A t \in Conn : auth[t] = Nil /\ frame[t].at = "idle" /\ out[t] = <<>> /\ queue[t] = <<>>
  BY DEF Init, Idle
<1>2. \A m \in Mid : channelOf[m] = Nil
  BY DEF Init, TablesInit
<1>3. \A t \in Conn : \A k : Reached(t, k) = {}
  BY <1>1, IdsEmpty, GotIds DEF Reached, Posted
<1> QED BY <1>1, <1>2, <1>3
        DEF PrivInv, AuthTold, Homed, OnlyMine, ReadsMine, Reads, Talking

-----------------------------------------------------------------------------
(* What is posted for an account is of its channels                         *)

\* Who is or was listed as a member is one, or on its way out; its registration is over.
MembersBelong == \A c \in channels : \A u \in Cells(membersOf[c]) : Settled(u) /\ Belongs(u, c)

\* So is who lists a channel.
ListsBelong == \A u \in Uid : \A c \in Live(chansOf[u]) : Settled(u) /\ Belongs(u, c)

\* A login replays a channel of its user, unless its loop had its vector changed.
Replays(t) ==
    (Reads(t) /\ t \notin disturbed) =>
        /\ frame[t].cid \in channels /\ frame[t].uid \in Uid
        /\ Settled(frame[t].uid) /\ Belongs(frame[t].uid, frame[t].cid)

\* A creation announces the channel to a member.
Invites(t) ==
    frame[t].at = "create announce" =>
        Settled(frame[t].uid) /\ Belongs(frame[t].uid, frame[t].cid)

\* A loop over the members of a channel in which each is told of it or of a message in it ...
Spreads(t) == frame[t].at \in Creates \cup {"send notify"}

\* ... stays inside the buffer it began in.
SpreadsIn(t) ==
    Spreads(t) => /\ frame[t].pos["members"] >= 1
                  /\ frame[t].end["members"] <= Len(membersOf[frame[t].cid].cells)

\* A message is sent into a channel that was made.
SendsHome(t) == frame[t].at \in {"append", "send notify"} => frame[t].cid \in channels

Minds(t) == Replays(t) /\ Invites(t) /\ SpreadsIn(t) /\ SendsHome(t)

BelongInv == MembersBelong /\ ListsBelong /\ \A t \in Conn : Minds(t)

\* The account t deletes leaves channel c.
LeavesRoom(t, c) ==
    /\ frame[t].at = "delete channels" /\ membersOf'[c] = Erase(membersOf[c], frame[t].uid)
    /\ t \in Deleting'

\* What a step does to who is in which channel, and to who is deleted.
RoomStep(t) ==
    /\ channels \subseteq channels'
    /\ \A c \in channels : membersOf'[c] = membersOf[c] \/ LeavesRoom(t, c)
    /\ t \in Deleting => \/ t \in Deleting' /\ frame'[t].uid = frame[t].uid
                         \/ frame[t].uid \notin users' /\ frame'[t].at \in {"idle", "sweep"}

\* A deletion of an account looks at the next message of a channel, or at its next channel.
LEMMA DeletionStep ==
    ASSUME TypeInv, NEW t \in Deleting, Continue(t)
    PROVE  RoomStep(t)
<1>a. t \in Conn /\ frame \in [Conn -> Frames] /\ frame[t] \in Frames
      /\ frame[t].at \in {"delete channels", "delete messages", "delete text", "delete notify"}
  BY DEF TypeInv, FramesOK, Deleting
<1> DEFINE Goes == t \in Deleting' /\ frame'[t].uid = frame[t].uid
           Unmoved == UNCHANGED <<channels, membersOf>>
<1>1. ASSUME DeleteFromChannel(t)
      PROVE  /\ UNCHANGED channels /\ Goes
             /\ \A c \in channels : membersOf'[c] = membersOf[c] \/ LeavesRoom(t, c)
  <2>1. frame[t].at = "delete channels" /\ UNCHANGED channels
    BY <1>1 DEF DeleteFromChannel, At
  <2>2. PICK c \in Cell(t, "channels", chansOf, frame[t].uid) :
          \/ /\ frame' = [frame EXCEPT ![t] = Advance(frame[t], "channels")]
             /\ UNCHANGED membersOf
          \/ /\ c \in channels /\ ChannelRemoveUser(c, frame[t].uid)
             /\ frame' = [frame EXCEPT ![t] = Sweep(frame[t], c)]
    BY <1>a, <1>1 DEF DeleteFromChannel, Sweep
  <2>3. CASE frame' = [frame EXCEPT ![t] = Advance(frame[t], "channels")] /\ UNCHANGED membersOf
    <3>1. frame'[t].at = "delete channels" /\ frame'[t].uid = frame[t].uid
      BY <1>a, <2>1, <2>3 DEF Advance, Frames
    <3> QED BY <1>a, <2>1, <2>3, <3>1 DEF Deleting
  <2>4. CASE c \in channels /\ ChannelRemoveUser(c, frame[t].uid)
             /\ frame' = [frame EXCEPT ![t] = Sweep(frame[t], c)]
    <3>1. c \in Cid /\ logOf[c] \in Vectors(Mid) /\ membersOf \in [Cid -> Vectors(Uid)]
          /\ channels \subseteq Cid
      BY <2>4 DEF TypeInv, TablesTypeOK
    <3> DEFINE h == Sweep(frame[t], c)
    <3>2. /\ h.at = "delete messages" /\ h.uid = frame[t].uid /\ h.cid = c
          /\ h.pos["messages"] = 1 /\ h.end["messages"] = logOf[c].len
      BY <1>a, <2>1, <3>1, SweepFacts DEF Sweep
    <3>3. frame'[t] = h
      BY <1>a, <2>4
    <3> HIDE DEF h
    <3>4. Goes
      BY <1>a, <3>2, <3>3 DEF Deleting
    <3>5. \A d \in channels : membersOf'[d] = membersOf[d] \/ LeavesRoom(t, d)
      BY <2>1, <2>4, <3>1, <3>4 DEF ChannelRemoveUser, LeavesRoom
    <3> QED BY <2>1, <3>4, <3>5
  <2> QED BY <2>2, <2>3, <2>4
<1>2. ASSUME DeleteFindMessage(t) PROVE Unmoved /\ Goes
  <2>1. frame[t].at = "delete messages" /\ Unmoved
    BY <1>2 DEF DeleteFindMessage, At, tables, rooms
  <2>2. ASSUME NEW m, frame' = [frame EXCEPT ![t].at = "delete text", ![t].mid = m] PROVE Goes
    BY <1>a, <2>2 DEF Frames, Deleting
  <2>3. CASE frame' = [frame EXCEPT ![t] = Advance(@, "messages")]
    BY <1>a, <2>1, <2>3 DEF Advance, Frames, Deleting
  <2> QED BY <1>2, <2>1, <2>2, <2>3 DEF DeleteFindMessage
<1>3. ASSUME DeleteListedMessage(t) PROVE Unmoved /\ Goes
  <2> DEFINE f == [frame[t] EXCEPT !.at = "delete notify"]
             g == Advance(f, "messages")
             h == Loop(g, "members", membersOf[frame[t].cid])
  <2>1. frame'[t] = h /\ Unmoved
    BY <1>a, <1>3 DEF DeleteListedMessage
  <2>2. f.at = "delete notify" /\ f.uid = frame[t].uid /\ f \in Frames
    BY <1>a DEF Frames, Places
  <2> HIDE DEF f
  <2>3. g.at = "delete notify" /\ g.uid = frame[t].uid /\ g \in Frames
    BY <2>2, AdvanceType DEF Level
  <2> HIDE DEF g
  <2>4. h.at = "delete notify" /\ h.uid = frame[t].uid
    BY <2>3 DEF Loop, Frames
  <2> HIDE DEF h
  <2> QED BY <1>a, <2>1, <2>4 DEF Deleting
<1>4. ASSUME DeleteNotify(t) PROVE Unmoved /\ Goes
  <2>1. Unmoved
    BY <1>4 DEF DeleteNotify, tables, rooms
  <2>2. CASE frame' = [frame EXCEPT ![t] = Advance(@, "members")]
    <3> DEFINE g == Advance(frame[t], "members")
    <3>1. g.at = frame[t].at /\ g.uid = frame[t].uid
      BY <1>a, AdvanceInner
    <3>2. frame'[t] = g
      BY <1>a, <2>2
    <3> HIDE DEF g
    <3> QED BY <1>a, <2>1, <3>1, <3>2 DEF Deleting
  <2>3. CASE Goto(t, "delete messages")
    <3>1. frame'[t].at = "delete messages" /\ frame'[t].uid = frame[t].uid
      BY <1>a, <2>3 DEF Goto, Frames
    <3> QED BY <1>a, <2>1, <3>1 DEF Deleting
  <2> QED BY <1>4, <2>1, <2>2, <2>3 DEF DeleteNotify, NotifyMember
<1>5. ASSUME DeleteChannelFinished(t) PROVE Unmoved /\ Goes
  BY <1>a, <1>5 DEF DeleteChannelFinished, Goto, Frames, Deleting, tables, rooms
<1>6. ASSUME DeleteAccountFinished(t)
      PROVE  Unmoved /\ frame[t].uid \notin users' /\ frame'[t].at \in {"idle", "sweep"}
  BY <1>a, <1>6 DEF DeleteAccountFinished, RemoveUser, rooms, Done, Return, Idle
<1>7. \/ DeleteFromChannel(t) \/ DeleteFindMessage(t) \/ DeleteListedMessage(t)
      \/ DeleteNotify(t) \/ DeleteChannelFinished(t) \/ DeleteAccountFinished(t)
  BY <1>a, Zenon DEF Continue, RegisterPassword, RegisterUser, LoginUser, LoginChannel, LoginMessage,
      LoginChannelReplayed, LoginFinished, ListAccount, ListFinished, DeleteUser, CreateMember,
      CreateAnnounce, CreateFinished, AppendMessage, SendNotify, RemoveText, RemoveNotify, Unlist,
      DisconnectFinished, QuitThread, Dispatch, At
<1>8. Goes \/ (frame[t].uid \notin users' /\ frame'[t].at \in {"idle", "sweep"})
  BY <1>1, <1>2, <1>3, <1>4, <1>5, <1>6, <1>7
<1>9. UNCHANGED channels /\ \A c \in channels : membersOf'[c] = membersOf[c] \/ LeavesRoom(t, c)
  BY <1>1, <1>2, <1>3, <1>4, <1>5, <1>6, <1>7
<1> HIDE DEF Unmoved
<1> QED BY <1>8, <1>9 DEF RoomStep

\* Every other step leaves old channels their members.
LEMMA RoomSteps ==
    ASSUME TypeInv, NEW t \in Conn, Ask(t) \/ Continue(t)
    PROVE  RoomStep(t)
<1>1. CASE t \in Deleting
  <2>1. frame[t].at # "idle"
    BY <1>1 DEF Deleting
  <2>2. Continue(t) \/ Accept(t)
    BY <2>1 DEF Ask, Request, Register, Login, DeleteAccount, ListAccounts,
                CreateChannel, SendMessage, DeleteMessage, Disconnect
  <2>3. CASE Accept(t)
    <3>1. UNCHANGED <<channels, membersOf, frame>>
      BY <2>3 DEF Accept, tables, rooms
    <3>2. t \in Deleting'
      BY <1>1, <3>1 DEF Deleting
    <3> QED BY <3>1, <3>2 DEF RoomStep
  <2> QED BY <1>1, <2>2, <2>3, DeletionStep
<1>2. ASSUME t \notin Deleting, NEW other \in Announced, CreateChannel(t, other) PROVE RoomStep(t)
  <2>1. PICK d \in Cid \ channels : d = Fresh(Cid \ channels)
    BY <1>2 DEF CreateChannel, Fresh, TypeInv, TablesTypeOK
  <2>2. channels' = channels \cup {d} /\ \A c \in channels : membersOf'[c] = membersOf[c]
    BY <1>2, <2>1 DEF CreateChannel, AddChannel, TypeInv, TablesTypeOK
  <2> QED BY <1>2, <2>2 DEF RoomStep
<1>3. CASE t \notin Deleting /\ (CreateMember(t) \/ CreateAnnounce(t) \/ CreateFinished(t))
  BY <1>3 DEF RoomStep, CreateMember, CreateAnnounce, CreateFinished, tables, rooms
<1>4. CASE t \notin Deleting /\ (\A other \in Announced : ~CreateChannel(t, other))
           /\ ~CreateMember(t) /\ ~CreateAnnounce(t) /\ ~CreateFinished(t)
  <2>1. Roomless(t)
    BY <1>4, RoomlessSteps
  <2> QED BY <1>4, <2>1 DEF Roomless, RoomStep
<1> QED BY <1>1, <1>2, <1>3, <1>4

\* Who has been registered is not stored again once it is gone.
LEMMA SettledUsers ==
    ASSUME TypeInv, NEW t \in Conn, Ask(t) \/ Continue(t), NEW u \in Uid, Settled(u), u \notin users
    PROVE  u \notin users'
<1>1. CASE \E n \in Name, p \in Password : Register(t, n, p)
  BY <1>1 DEF Register
<1>2. CASE RegisterPassword(t)
  BY <1>2 DEF RegisterPassword
<1>3. CASE RegisterUser(t)
  BY <1>3 DEF RegisterUser, AddUser, Settled, Registers, Registering, At
<1>4. CASE AccountsStay
  BY <1>4 DEF AccountsStay
<1> QED BY <1>1, <1>2, <1>3, <1>4, OtherAsks, OtherContinues

\* A member stays one, or leaves with its account.
LEMMA BelongsStays ==
    ASSUME TypeInv, NEW t \in Conn, Ask(t) \/ Continue(t), NEW u \in Uid, NEW c \in channels,
           Settled(u), Belongs(u, c)
    PROVE  Settled(u)' /\ Belongs(u, c)'
<1>1. RoomStep(t) /\ Others(t) /\ Settled(u)'
  BY RoomSteps, OtherThreads, SettledStays
<1>2. CASE u \notin users
  BY <1>1, <1>2, SettledUsers DEF Belongs
<1>3. ASSUME NEW s \in Deleting, frame[s].uid = u PROVE Belongs(u, c)'
  <2>1. CASE s = t
    BY <1>1, <1>3, <2>1 DEF RoomStep, Belongs
  <2>2. CASE s # t
    <3>1. s \in Conn /\ s \in Deleting' /\ frame'[s].uid = u
      BY <1>1, <1>3, <2>2 DEF Others, Still, Deleting
    <3> QED BY <3>1 DEF Belongs
  <2> QED BY <2>1, <2>2
<1>4. ASSUME u \in Live(membersOf[c]) PROVE Belongs(u, c)'
  <2>1. CASE membersOf'[c] = membersOf[c]
    BY <1>4, <2>1 DEF Belongs
  <2>2. CASE LeavesRoom(t, c)
    <3>1. membersOf[c] \in Vectors(Uid)
      BY DEF TypeInv, TablesTypeOK
    <3>2. Live(membersOf'[c]) = Live(membersOf[c]) \ {frame[t].uid}
      BY <2>2, <3>1, EraseLive DEF LeavesRoom
    <3>3. CASE frame[t].uid = u
      <4>1. t \in Deleting
        BY <2>2 DEF LeavesRoom, Deleting
      <4> QED BY <1>3, <3>3, <4>1
    <3>4. CASE frame[t].uid # u
      BY <1>4, <3>2, <3>4 DEF Belongs
    <3> QED BY <3>3, <3>4
  <2> QED BY <1>1, <2>1, <2>2 DEF RoomStep
<1> QED BY <1>1, <1>2, <1>3, <1>4 DEF Belongs

\* A thread that goes on with what it was minding, or turns to something else.
Bides(t) ==
    /\ Reads(t)' => /\ Reads(t) /\ frame'[t].cid = frame[t].cid
                    /\ frame'[t].uid = frame[t].uid
    /\ frame'[t].at = "create announce" =>
           /\ frame[t].at = "create announce" /\ frame'[t].cid = frame[t].cid
           /\ frame'[t].uid = frame[t].uid
    /\ Spreads(t)' => /\ Spreads(t) /\ frame'[t].cid = frame[t].cid
                      /\ frame'[t].pos["members"] >= frame[t].pos["members"]
                      /\ frame'[t].end["members"] = frame[t].end["members"]
    /\ frame'[t].at \in {"append", "send notify"} =>
           frame[t].at \in {"append", "send notify"} /\ frame'[t].cid = frame[t].cid

LEMMA SameBides ==
    ASSUME TypeInv, NEW s \in Conn, frame'[s].at = frame[s].at, frame'[s].cid = frame[s].cid,
           frame'[s].uid = frame[s].uid, frame'[s].pos = frame[s].pos, frame'[s].end = frame[s].end
    PROVE  Bides(s)
<1>1. frame[s].pos["members"] \in Nat
  BY DEF TypeInv, FramesOK, Frames, Level
<1>2. frame[s].pos["members"] >= frame[s].pos["members"]
  BY <1>1
<1> QED BY <1>2 DEF Bides, Reads, Spreads

\* A thread that is at nothing it could mind.
LEMMA FreeBides ==
    ASSUME NEW s, frame'[s].at \notin Creates \cup {"login messages", "append", "send notify"}
    PROVE  Bides(s)
BY DEF Bides, Reads, Spreads, Creates

\* The cells a loop over members was to visit are still there.
LEMMA SpreadsOn ==
    ASSUME TypeInv, TypeInv', NEW t \in Conn, RoomStep(t), NEW s \in Conn, SpreadsIn(s),
           Spreads(s)', Spreads(s), frame[s].cid \in channels, frame'[s].cid = frame[s].cid,
           frame'[s].pos["members"] >= frame[s].pos["members"],
           frame'[s].end["members"] = frame[s].end["members"]
    PROVE  SpreadsIn(s)'
<1>1. PICK c, p, q, e : /\ c = frame[s].cid /\ p = frame[s].pos["members"]
                        /\ q = frame'[s].pos["members"] /\ e = frame[s].end["members"]
  OBVIOUS
<1>2. p \in Nat /\ q \in Nat /\ e \in Nat
  BY <1>1 DEF TypeInv, FramesOK, Frames, Level
<1>3. q >= 1
  <2>1. p >= 1 /\ q >= p
    BY <1>1 DEF SpreadsIn
  <2> QED BY ONLY <1>2, <2>1
<1>4. Len(membersOf'[c].cells) \in Nat /\ Len(membersOf[c].cells) \in Nat
      /\ membersOf[c] \in Vectors(Uid)
  <2>1. membersOf[c] \in Vectors(Uid) /\ membersOf'[c] \in Vectors(Uid)
    BY <1>1 DEF TypeInv, TablesTypeOK
  <2>2. membersOf[c].cells \in Seq(Uid) /\ membersOf'[c].cells \in Seq(Uid)
    BY <2>1 DEF Vectors
  <2> QED BY <2>1, <2>2
<1>5. Len(membersOf'[c].cells) >= Len(membersOf[c].cells)
  <2>1. CASE membersOf'[c] = membersOf[c]
    BY <1>4, <2>1
  <2>2. CASE LeavesRoom(t, c)
    BY <1>4, <2>2, BufferKept DEF LeavesRoom
  <2> QED BY <1>1, <2>1, <2>2 DEF RoomStep
<1>6. e <= Len(membersOf'[c].cells)
  <2>1. PICK n \in Nat, m \in Nat : n = Len(membersOf[c].cells) /\ m = Len(membersOf'[c].cells)
    BY <1>4
  <2>2. e <= n /\ m >= n
    BY <1>1, <1>5, <2>1 DEF SpreadsIn
  <2>3. e <= m
    BY ONLY <1>2, <2>1, <2>2
  <2> QED BY <2>1, <2>3
<1> QED BY <1>1, <1>3, <1>6 DEF SpreadsIn

\* What a thread minded it goes on minding.
LEMMA MindsKept ==
    ASSUME TypeInv, TypeInv', Founded, NEW t \in Conn, Ask(t) \/ Continue(t),
           NEW s \in Conn, Minds(s), Bides(s)
    PROVE  Minds(s)'
<1>1. RoomStep(t) /\ Others(t)
  BY RoomSteps, OtherThreads
<1>2. channels \subseteq channels' /\ disturbed \subseteq disturbed' /\ channels \subseteq Cid
  BY <1>1 DEF RoomStep, Others, TypeInv, TablesTypeOK
<1>3. Replays(s)'
  <2> SUFFICES ASSUME Reads(s)', s \notin disturbed'
               PROVE  /\ frame'[s].cid \in channels' /\ frame'[s].uid \in Uid
                      /\ Settled(frame[s].uid)' /\ Belongs(frame[s].uid, frame[s].cid)'
    BY DEF Replays
  <2>1. PICK u, c : u = frame[s].uid /\ c = frame[s].cid
    OBVIOUS
  <2>2. Reads(s) /\ frame'[s].uid = u /\ frame'[s].cid = c
    BY <2>1 DEF Bides
  <2>3. c \in channels /\ u \in Uid /\ Settled(u) /\ Belongs(u, c)
    BY <1>2, <2>1, <2>2 DEF Minds, Replays
  <2>4. Settled(u)' /\ Belongs(u, c)'
    BY <2>3, BelongsStays
  <2> QED BY <1>2, <2>2, <2>3, <2>4 DEF Settled, Belongs
<1>4. Invites(s)'
  <2> SUFFICES ASSUME frame'[s].at = "create announce"
               PROVE  Settled(frame[s].uid)' /\ Belongs(frame[s].uid, frame[s].cid)'
    BY DEF Invites
  <2>1. PICK u, c : u = frame[s].uid /\ c = frame[s].cid
    OBVIOUS
  <2>2. frame[s].at = "create announce" /\ frame'[s].uid = u /\ frame'[s].cid = c
    BY <2>1 DEF Bides
  <2>3. c \in channels /\ u \in Uid /\ Settled(u) /\ Belongs(u, c)
    <3>1. Settled(u) /\ Belongs(u, c)
      BY <2>1, <2>2 DEF Minds, Invites
    <3>2. c \in channels
      BY <2>1, <2>2 DEF Founded, Creating, Creates
    <3>3. u \in Uid
      BY <2>1, <2>2 DEF TypeInv, FramesOK, Whole, HasUid
    <3> QED BY <3>1, <3>2, <3>3
  <2>4. Settled(u)' /\ Belongs(u, c)'
    BY <2>3, BelongsStays
  <2> QED BY <2>2, <2>4 DEF Settled, Belongs
<1>5. SpreadsIn(s)'
  <2>1. CASE Spreads(s)'
    <3>1. /\ Spreads(s) /\ frame'[s].cid = frame[s].cid
          /\ frame'[s].pos["members"] >= frame[s].pos["members"]
          /\ frame'[s].end["members"] = frame[s].end["members"]
      BY <2>1 DEF Bides
    <3>2. frame[s].cid \in channels
      BY <3>1 DEF Spreads, Founded, Creating, Minds, SendsHome
    <3>3. SpreadsIn(s)
      BY DEF Minds
    <3> QED BY <1>1, <2>1, <3>1, <3>2, <3>3, SpreadsOn
  <2>2. CASE ~Spreads(s)'
    BY <2>2 DEF SpreadsIn
  <2> QED BY <2>1, <2>2
<1>6. SendsHome(s)'
  BY <1>2 DEF Bides, Minds, SendsHome
<1> QED BY <1>3, <1>4, <1>5, <1>6 DEF Minds

\* Every step that makes no loop, no announcement and no message bides.
LEMMA BidesSteps ==
    ASSUME TypeInv, NEW t \in Conn, Ask(t) \/ Continue(t),
           ~LoginChannel(t), ~CreateMember(t), \A other \in Announced : ~CreateChannel(t, other),
           ~AppendMessage(t), \A c \in Cid : ~SendMessage(t, c)
    PROVE  Bides(t)
<1>a. frame \in [Conn -> Frames] /\ frame[t] \in Frames
  BY DEF TypeInv, FramesOK
<1>b. ASSUME UNCHANGED frame PROVE Bides(t)
  BY <1>b, SameBides
<1>c. ASSUME frame'[t].at \notin Creates \cup {"login messages", "append", "send notify"}
      PROVE  Bides(t)
  BY <1>c, FreeBides
<1>d. ASSUME NEW posted, Return(t, posted) PROVE Bides(t)
  <2>1. frame'[t].at \in {"idle", "sweep"}
    BY <1>a, <1>d DEF Return, Idle
  <2> QED BY <1>c, <2>1 DEF Creates
<1>e. ASSUME NEW p \in {"login channels", "unlist"}, Goto(t, p) PROVE Bides(t)
  <2>1. frame'[t].at = p
    BY <1>a, <1>e DEF Goto, Frames
  <2> QED BY <1>c, <2>1 DEF Creates
<1>1. CASE \/ \E n \in Name, p \in Password : Register(t, n, p) \/ Login(t, n, p) \/ DeleteAccount(t, n, p)
           \/ \E regex \in (SUBSET Name) \cup {Nil} : ListAccounts(t, regex)
           \/ Accept(t) \/ Disconnect(t) \/ DisconnectFinished(t) \/ QuitThread(t)
           \/ RegisterPassword(t) \/ RegisterUser(t) \/ ListAccount(t) \/ ListFinished(t)
           \/ DeleteUser(t)
  <2>1. UNCHANGED frame \/ frame'[t].at \notin Busy
    BY <1>1, PlainStep DEF Plain
  <2> QED BY <1>b, <1>c, <2>1 DEF Busy, Creates, Replaying
<1>2. ASSUME NEW m \in Mid, DeleteMessage(t, m) PROVE Bides(t)
  <2>1. CASE frame' = [frame EXCEPT ![t].at = "remove text", ![t].cid = channelOf[m],
                                    ![t].mid = m]
    <3>1. frame'[t].at = "remove text"
      BY <1>a, <2>1 DEF Frames
    <3> QED BY <1>c, <3>1 DEF Creates
  <2> QED BY <1>b, <1>2, <2>1 DEF DeleteMessage
<1>3. ASSUME LoginUser(t) PROVE Bides(t)
  <2> DEFINE f == Loop([frame[t] EXCEPT !.at = "login channels"], "channels",
                       chansOf[frame[t].uid])
  <2>1. f.at = "login channels"
    BY <1>a DEF Loop, Frames
  <2>2. UNCHANGED frame \/ frame'[t] = f
    BY <1>a, <1>3 DEF LoginUser
  <2> HIDE DEF f
  <2> QED BY <1>b, <1>c, <2>1, <2>2 DEF Creates
<1>4. ASSUME LoginMessage(t) PROVE Bides(t)
  <2> DEFINE g == Advance(frame[t], "messages")
  <2>1. g.at = frame[t].at /\ g.cid = frame[t].cid /\ g.uid = frame[t].uid
    BY <1>a, AdvanceFacts DEF Level
  <2>2. frame'[t] = g /\ frame[t].at = "login messages"
    BY <1>a, <1>4 DEF LoginMessage, At
  <2> HIDE DEF g
  <2> QED BY <2>1, <2>2 DEF Bides, Reads, Spreads, Creates
<1>5. CASE LoginChannelReplayed(t)
  BY <1>5, <1>e DEF LoginChannelReplayed
<1>6. CASE LoginFinished(t) \/ CreateFinished(t) \/ Unlist(t)
  BY <1>6, <1>d DEF LoginFinished, CreateFinished, Unlist, Done
<1>7. ASSUME CreateAnnounce(t) PROVE Bides(t)
  <2> DEFINE f == [frame[t] EXCEPT !.at = "create members"]
             g == Advance(f, "members")
  <2>1. f \in Frames /\ f.at = "create members" /\ f.cid = frame[t].cid /\ f.pos = frame[t].pos
        /\ f.end = frame[t].end
    BY <1>a DEF Frames, Places
  <2>2. frame'[t] = g /\ frame[t].at = "create announce"
    BY <1>a, <1>7 DEF CreateAnnounce, At
  <2> HIDE DEF f
  <2>3. g.at = f.at /\ g.cid = f.cid /\ g.end = f.end /\ g.pos["members"] = f.pos["members"] + 1
    BY <2>1, AdvanceFacts DEF Level
  <2>4. f.pos["members"] \in Nat
    BY <2>1 DEF Frames, Level
  <2> HIDE DEF g
  <2>5. f.pos["members"] + 1 >= f.pos["members"]
    BY <2>4
  <2> QED BY <2>1, <2>2, <2>3, <2>5 DEF Bides, Reads, Spreads, Creates
<1>8. ASSUME SendNotify(t) PROVE Bides(t)
  <2>1. CASE frame' = [frame EXCEPT ![t] = Advance(@, "members")]
    <3> DEFINE g == Advance(frame[t], "members")
    <3>1. g.at = frame[t].at /\ g.cid = frame[t].cid /\ g.end = frame[t].end
          /\ g.pos["members"] = frame[t].pos["members"] + 1
      BY <1>a, AdvanceFacts DEF Level
    <3>2. frame'[t] = g /\ frame[t].at = "send notify"
      BY <1>a, <1>8, <2>1 DEF SendNotify, At
    <3>3. frame[t].pos["members"] \in Nat
      BY <1>a DEF Frames, Level
    <3> HIDE DEF g
    <3>4. frame[t].pos["members"] + 1 >= frame[t].pos["members"]
      BY <3>3
    <3> QED BY <3>1, <3>2, <3>4 DEF Bides, Reads, Spreads, Creates
  <2> QED BY <1>8, <1>d, <2>1 DEF SendNotify, NotifyMember, Done
<1>9. ASSUME RemoveNotify(t) PROVE Bides(t)
  <2>1. CASE frame' = [frame EXCEPT ![t] = Advance(@, "members")]
    <3>1. frame'[t].at = frame[t].at /\ frame[t].at = "remove notify"
      BY <1>a, <1>9, <2>1 DEF RemoveNotify, At, Advance, Frames
    <3> QED BY <1>c, <3>1 DEF Creates
  <2> QED BY <1>9, <1>e, <2>1 DEF RemoveNotify, NotifyMember
<1>10. ASSUME RemoveText(t) PROVE Bides(t)
  <2>1. frame'[t].at = "remove notify"
    BY <1>a, <1>10 DEF RemoveText, Loop, Frames
  <2> QED BY <1>c, <2>1 DEF Creates
<1>11. CASE Dispatch(t)
  BY <1>11, <1>d DEF Dispatch
<1>12. CASE DeleteFromChannel(t) \/ DeleteFindMessage(t) \/ DeleteListedMessage(t) \/ DeleteNotify(t)
         \/ DeleteChannelFinished(t) \/ DeleteAccountFinished(t)
  <2>1. t \in Deleting
    BY <1>12 DEF DeleteFromChannel, DeleteFindMessage, DeleteListedMessage, DeleteNotify,
       DeleteChannelFinished, DeleteAccountFinished, At, Deleting
  <2>2. RoomStep(t)
    BY RoomSteps
  <2>3. frame'[t].at \in {"idle", "sweep", "delete channels", "delete messages", "delete text",
                          "delete notify"}
    BY <2>1, <2>2 DEF RoomStep, Deleting
  <2> QED BY <1>c, <2>3 DEF Creates
<1> QED
  BY <1>1, <1>2, <1>3, <1>4, <1>5, <1>6, <1>7, <1>8, <1>9, <1>10, <1>11, <1>12 DEF Ask, Continue

\* Members that belonged before a step belong after it; so do channels that stay listed.
LEMMA MembersStay ==
    ASSUME TypeInv, BelongInv, NEW t \in Conn, Ask(t) \/ Continue(t), NEW c \in channels,
           NEW u \in Cells(membersOf'[c])
    PROVE  Settled(u)' /\ Belongs(u, c)'
<1>1. RoomStep(t)
  BY RoomSteps
<1>2. membersOf[c] \in Vectors(Uid)
  BY DEF TypeInv, TablesTypeOK
<1>3. u \in Cells(membersOf[c])
  <2>1. CASE membersOf'[c] = membersOf[c]
    BY <2>1
  <2>2. CASE LeavesRoom(t, c)
    BY <1>2, <2>2, EraseCells DEF LeavesRoom
  <2> QED BY <1>1, <2>1, <2>2 DEF RoomStep
<1>4. u \in Uid /\ Settled(u) /\ Belongs(u, c)
  BY <1>2, <1>3, LiveCells DEF BelongInv, MembersBelong
<1> QED BY <1>4, BelongsStays

LEMMA ListsStay ==
    ASSUME TypeInv, ChansWhole, BelongInv, NEW t \in Conn, Ask(t) \/ Continue(t),
           NEW u \in Uid, NEW c \in Live(chansOf[u])
    PROVE  Settled(u)' /\ Belongs(u, c)'
<1>1. c \in channels /\ Settled(u) /\ Belongs(u, c)
  BY DEF BelongInv, ListsBelong, ChansWhole
<1> QED BY <1>1, BelongsStays

\* The other threads mind what they minded.
LEMMA OthersMind ==
    ASSUME TypeInv, TypeInv', Founded, BelongInv, NEW t \in Conn, Ask(t) \/ Continue(t),
           NEW s \in Conn \ {t}
    PROVE  Minds(s)'
<1>1. Still(s) /\ Minds(s)
  BY OtherThreads DEF Others, BelongInv
<1>2. Bides(s)
  BY <1>1, SameBides DEF Still
<1> QED BY <1>1, <1>2, MindsKept

\* A step that makes no channel and lists none.
LEMMA BelongKept ==
    ASSUME TypeInv, TypeInv', ShowInv, BelongInv, NEW t \in Conn, Ask(t) \/ Continue(t),
           UNCHANGED <<chansOf, channels>>, Minds(t)'
    PROVE  BelongInv'
<1>1. MembersBelong'
  BY MembersStay DEF MembersBelong
<1>2. ListsBelong'
  BY ListsStay DEF ListsBelong, ShowInv
<1>3. \A s \in Conn : Minds(s)'
  BY OthersMind DEF ShowInv
<1> QED BY <1>1, <1>2, <1>3 DEF BelongInv

\* What a login reads from its user's list, unless its loop had the vector changed.
LEMMA CellListed ==
    ASSUME TypeInv, ShowInv, NEW t \in Conn \ disturbed, LoginChannel(t),
           NEW c \in Cell(t, "channels", chansOf, frame[t].uid)
    PROVE  frame[t].uid \in Uid /\ auth[t] = frame[t].uid /\ c \in Live(chansOf[frame[t].uid])
<1>0. PICK u, p, v : u = frame[t].uid /\ p = frame[t].pos["channels"] /\ v = chansOf[u]
  OBVIOUS
<1>1. Following(t) /\ More(t, "channels") /\ u \in Uid
  <2>1. frame[t].at = "login channels"
    BY DEF LoginChannel, At
  <2>2. Following(t)
    BY <2>1 DEF ShowInv, AllFollowing, Replaying
  <2> QED BY <1>0, <2>1, <2>2 DEF LoginChannel, TypeInv, FramesOK, Whole, HasUid
<1>2. p \in 1..v.len
  <2>1. PICK e : e = frame[t].end["channels"]
    OBVIOUS
  <2>2. p >= 1 /\ p <= e /\ e <= v.len
    BY <1>0, <1>1, <2>1 DEF Following, More
  <2>3. p \in Nat /\ e \in Nat
    BY <1>0, <2>1 DEF TypeInv, FramesOK, Frames, Level
  <2>4. v.len \in Nat
    BY <1>0, <1>1 DEF TypeInv, TablesTypeOK, Vectors
  <2>5. PICK n \in Nat : n = v.len
    BY <2>4
  <2>6. p \in 1..n
    BY <2>2, <2>3, <2>5
  <2> QED BY <2>5, <2>6
<1>3. frame[t].loose = {}
  BY DEF ShowInv, LooseInv
<1>4. c = v.cells[p]
  BY <1>0, <1>3 DEF Cell
<1> QED BY <1>0, <1>1, <1>2, <1>4 DEF Live, Following

\* A login turns to a channel of its user.
LEMMA LoginChannelBelongs ==
    ASSUME TypeInv, TypeInv', ShowInv, BelongInv, NEW t \in Conn, LoginChannel(t)
    PROVE  BelongInv'
<1>0. PICK u : u = frame[t].uid
  OBVIOUS
<1>1. /\ frame[t].at = "login channels" /\ u \in Uid /\ frame[t] \in Frames
      /\ UNCHANGED <<chansOf, channels, membersOf, nameOf, users, disturbed>>
      /\ Continue(t)
  <2>1. frame[t].at = "login channels"
    BY DEF LoginChannel, At
  <2>2. u \in Uid /\ frame[t] \in Frames
    BY <1>0, <2>1 DEF TypeInv, FramesOK, Whole, HasUid
  <2> QED BY <2>1, <2>2 DEF LoginChannel, tables, rooms, accounts, Continue
<1>3. PICK c \in Cell(t, "channels", chansOf, u) :
        \/ c \notin channels /\ frame'[t] = Advance(frame[t], "channels")
        \/ c \in channels /\ frame'[t] = Replay(frame[t], c)
  BY <1>0 DEF LoginChannel, Replay, TypeInv, FramesOK
<1>4. CASE c \notin channels /\ frame'[t] = Advance(frame[t], "channels")
  <2>1. Advance(frame[t], "channels").at = frame[t].at
    BY <1>1, AdvanceFacts DEF Level
  <2>2. Bides(t)
    BY <1>1, <1>4, <2>1, FreeBides DEF Creates
  <2>3. Minds(t)'
    BY <1>1, <2>2, MindsKept DEF ShowInv, BelongInv
  <2> QED BY <1>1, <2>3, BelongKept
<1>5. CASE c \in channels /\ frame'[t] = Replay(frame[t], c)
  <2> DEFINE g == Replay(frame[t], c)
  <2>1. g.at = "login messages" /\ g.cid = c /\ g.uid = u
    BY <1>0, <1>1, ReplayFacts
  <2>2. frame'[t] = g
    BY <1>5
  <2> HIDE DEF g
  <2>3. ASSUME t \notin disturbed PROVE Settled(u)' /\ Belongs(u, c)'
    <3>1. c \in Live(chansOf[u])
      BY <1>0, <1>3, <2>3, CellListed
    <3> QED BY <1>1, <3>1, ListsStay DEF ShowInv
  <2>4. frame'[t].uid = u /\ frame'[t].cid = c /\ frame'[t].at = "login messages"
    BY <2>1, <2>2
  <2>5. Replays(t)'
    BY <1>1, <1>5, <2>3, <2>4 DEF Replays, Settled, Belongs
  <2>6. Invites(t)' /\ SpreadsIn(t)' /\ SendsHome(t)'
    BY <2>4 DEF Invites, SpreadsIn, SendsHome, Spreads, Creates
  <2> QED BY <1>1, <2>5, <2>6, BelongKept DEF Minds
<1> QED BY <1>3, <1>4, <1>5

\* A channel is made, of the maker and of one whose registration is over.
LEMMA CreateChannelBelongs ==
    ASSUME TypeInv, TypeInv', SettledInv, ShowInv, BelongInv, NEW t \in Conn,
           NEW other \in Announced, CreateChannel(t, other)
    PROVE  BelongInv'
<1>0. PICK d \in Cid \ channels : d = Fresh(Cid \ channels)
  BY DEF CreateChannel, Fresh, TypeInv, TablesTypeOK
<1> DEFINE uids == <<auth[t], other>>
           v == VectorOf(uids)
           f == Loop([frame[t] EXCEPT !.at = "create members", !.cid = d], "members", v)
<1>1. /\ UNCHANGED <<chansOf, users, nameOf>> /\ channels' = channels \cup {d}
      /\ membersOf'[d] = v
  BY <1>0 DEF CreateChannel, AddChannel, accounts, TypeInv, TablesTypeOK
<1>2. frame'[t] = f
  BY <1>0 DEF CreateChannel, TypeInv, FramesOK
<1>3. /\ f.at = "create members" /\ f.cid = d
      /\ f.pos["members"] = 1 /\ f.end["members"] = v.len
  BY DEF Loop, TypeInv, FramesOK, Frames, Level
<1>4. v.len = Len(v.cells) /\ v.len \in Nat /\ Live(v) = {auth[t], other} /\ Cells(v) = {auth[t], other}
  BY DEF VectorOf, Live, Cells
<1>5. Ask(t)
  BY DEF Ask
<1>6. auth[t] \in Uid /\ Settled(auth[t]) /\ other \in Uid /\ Settled(other)
  <2>1. auth[t] \in Uid
    BY LoggedInUser DEF CreateChannel, Request, TypeInv
  <2>2. Settled(auth[t])
    BY <2>1, NilAssumption DEF SettledInv
  <2>3. other \in Uid /\ Settled(other)
    BY DEF Announced, Settled, Registers, Registering
  <2> QED BY <2>1, <2>2, <2>3
<1> HIDE DEF f, v, uids
<1>7. ASSUME NEW u \in Cells(membersOf'[d]) PROVE Settled(u)' /\ Belongs(u, d)'
  <2>1. u \in {auth[t], other}
    BY <1>1, <1>4, <1>7
  <2>2. Settled(u)'
    BY <1>5, <1>6, <2>1, SettledStays
  <2>3. u \in Live(membersOf'[d])
    BY <1>1, <1>4, <2>1
  <2> QED BY <2>2, <2>3 DEF Belongs
<1>8. MembersBelong'
  BY <1>1, <1>5, <1>7, MembersStay DEF MembersBelong
<1>9. ListsBelong'
  BY <1>1, <1>5, ListsStay DEF ListsBelong, ShowInv
<1>10. Minds(t)'
  <2>1. frame'[t].at = "create members" /\ frame'[t].cid = d
        /\ frame'[t].pos["members"] = 1 /\ frame'[t].end["members"] = v.len
    BY <1>2, <1>3
  <2>2. Len(membersOf'[frame'[t].cid].cells) = v.len
    BY <1>1, <1>4, <2>1
  <2>3. v.len \in Nat
    BY <1>4
  <2>4. v.len <= v.len /\ 1 >= 1
    BY <2>3
  <2>5. SpreadsIn(t)'
    BY <2>1, <2>2, <2>4 DEF SpreadsIn
  <2>6. Replays(t)' /\ Invites(t)' /\ SendsHome(t)'
    BY <2>1 DEF Replays, Reads, Invites, SendsHome
  <2> QED BY <2>5, <2>6 DEF Minds
<1>11. \A s \in Conn : Minds(s)'
  BY <1>5, <1>10, OthersMind DEF ShowInv
<1> QED BY <1>8, <1>9, <1>11 DEF BelongInv

\* A member lists the channel.
LEMMA CreateMemberBelongs ==
    ASSUME TypeInv, TypeInv', ShowInv, BelongInv, NEW t \in Conn, CreateMember(t)
    PROVE  BelongInv'
<1>0. PICK c, p, e, u : /\ c = frame[t].cid /\ p = frame[t].pos["members"]
                        /\ e = frame[t].end["members"] /\ u = membersOf[c].cells[p]
  OBVIOUS
<1>1. frame[t].at = "create members" /\ c \in channels /\ c \in Cid /\ Continue(t)
      /\ frame[t] \in Frames /\ UNCHANGED <<channels, membersOf>>
  <2>1. frame[t].at = "create members"
    BY DEF CreateMember, At
  <2>2. c \in channels
    BY <1>0, <2>1 DEF ShowInv, Founded, Creating, Creates
  <2> QED BY <2>1, <2>2 DEF TypeInv, TablesTypeOK, FramesOK, Continue, CreateMember
<1>2. u \in Cells(membersOf[c])
  <2>1. p >= 1 /\ p <= e /\ e <= Len(membersOf[c].cells)
    BY <1>0, <1>1 DEF BelongInv, Minds, SpreadsIn, Spreads, Creates, CreateMember, More
  <2>2. p \in Nat /\ e \in Nat
    BY <1>0 DEF TypeInv, FramesOK, Frames, Level
  <2>3. Len(membersOf[c].cells) \in Nat
    <3>1. membersOf[c] \in Vectors(Uid)
      BY <1>1 DEF TypeInv, TablesTypeOK
    <3>2. membersOf[c].cells \in Seq(Uid)
      BY <3>1 DEF Vectors
    <3> QED BY <3>2
  <2>4. PICK n \in Nat : n = Len(membersOf[c].cells)
    BY <2>3
  <2>5. p \in 1..n
    BY ONLY <2>1, <2>2, <2>4
  <2> QED BY <1>0, <2>4, <2>5 DEF Cells
<1>3. u \in Uid /\ Settled(u)' /\ Belongs(u, c)'
  <2>1. membersOf[c] \in Vectors(Uid)
    BY <1>1 DEF TypeInv, TablesTypeOK
  <2>2. u \in Uid
    BY <1>2, <2>1, LiveCells
  <2>3. Settled(u)' /\ Belongs(u, c)'
    BY <1>1, <1>2, MembersStay
  <2> QED BY <2>2, <2>3
<1>4. CASE frame' = [frame EXCEPT ![t] = Advance(@, "members")] /\ UNCHANGED chansOf
  <2> DEFINE g == Advance(frame[t], "members")
  <2>1. g.at = frame[t].at /\ g.cid = frame[t].cid /\ g.end = frame[t].end
        /\ g.pos["members"] = p + 1
    BY <1>0, <1>1, AdvanceFacts DEF Level
  <2>2. frame'[t] = g
    BY <1>4 DEF TypeInv, FramesOK
  <2>3. p \in Nat
    BY <1>0, <1>1 DEF Frames, Level
  <2> HIDE DEF g
  <2>4. p + 1 >= p
    BY <2>3
  <2>5. Bides(t)
    BY <1>0, <1>1, <2>1, <2>2, <2>4 DEF Bides, Reads, Spreads, Creates
  <2>6. Minds(t)'
    BY <1>1, <2>5, MindsKept DEF ShowInv, BelongInv
  <2> QED BY <1>1, <1>4, <2>6, BelongKept
<1>5. ASSUME UserAddChannel(u, c), frame'[t] = [frame[t] EXCEPT !.at = "create announce", !.uid = u]
      PROVE  BelongInv'
  <2>1. /\ frame'[t].at = "create announce" /\ frame'[t].uid = u /\ frame'[t].cid = c
        /\ frame'[t].pos = frame[t].pos /\ frame'[t].end = frame[t].end
    BY <1>0, <1>1, <1>5 DEF Frames
  <2>2. Live(chansOf'[u]) = Live(chansOf[u]) \cup {c} /\ \A w \in Uid \ {u} : chansOf'[w] = chansOf[w]
    <3>1. chansOf[u] \in Vectors(Cid)
      BY <1>3 DEF TypeInv, TablesTypeOK
    <3>2. chansOf'[u] = Push(chansOf[u], c) /\ \A w \in Uid \ {u} : chansOf'[w] = chansOf[w]
      BY <1>3, <1>5 DEF UserAddChannel, TypeInv, TablesTypeOK
    <3>3. c \in Cid /\ chansOf[u] \in Vectors(Cid)
      BY <1>1, <3>1
    <3>4. Live(Push(chansOf[u], c)) = Live(chansOf[u]) \cup {c}
      BY ONLY <3>3, PushLive
    <3> QED BY <3>2, <3>4
  <2>3. MembersBelong'
    BY <1>1, MembersStay DEF MembersBelong
  <2>4. ListsBelong'
    <3>1. ASSUME NEW w \in Uid, NEW d \in Live(chansOf'[w])
          PROVE  d \in Live(chansOf[w]) \/ (w = u /\ d = c)
      BY <2>2, <3>1
    <3>2. ASSUME NEW w \in Uid, NEW d \in Live(chansOf[w]) PROVE Settled(w)' /\ Belongs(w, d)'
      BY <1>1, ListsStay DEF ShowInv
    <3> QED BY <1>3, <3>1, <3>2 DEF ListsBelong
  <2>5. Minds(t)'
    <3>1. Replays(t)' /\ SendsHome(t)'
      BY <2>1 DEF Replays, Reads, SendsHome
    <3>2. Invites(t)'
      BY <1>3, <2>1 DEF Invites, Settled, Belongs
    <3>3. SpreadsIn(t)'
      BY <1>0, <1>1, <2>1 DEF BelongInv, Minds, SpreadsIn, Spreads, Creates
    <3> QED BY <3>1, <3>2, <3>3 DEF Minds
  <2>6. \A s \in Conn : Minds(s)'
    BY <1>1, <2>5, OthersMind DEF ShowInv
  <2> QED BY <2>3, <2>4, <2>6 DEF BelongInv
<1> QED BY <1>0, <1>4, <1>5 DEF CreateMember, Pushed

\* A sent message is on its way to the members of a channel that was made.
LEMMA SendingBelongs ==
    ASSUME TypeInv, TypeInv', ShowInv, BelongInv, NEW t \in Conn,
           AppendMessage(t) \/ \E c \in Cid : SendMessage(t, c)
    PROVE  BelongInv'
<1>a. frame[t] \in Frames /\ frame \in [Conn -> Frames]
  BY DEF TypeInv, FramesOK
<1>1. ASSUME NEW c \in Cid, SendMessage(t, c) PROVE BelongInv'
  <2>1. c \in channels /\ UNCHANGED <<chansOf, channels>> /\ Ask(t)
    BY <1>1 DEF SendMessage, rooms, Ask
  <2>2. frame'[t].at = "append" /\ frame'[t].cid = c
    <3>1. PICK m : frame' = [frame EXCEPT ![t].at = "append", ![t].cid = c, ![t].mid = m]
      BY <1>1 DEF SendMessage
    <3> QED BY <1>a, <3>1 DEF Frames
  <2>3. Minds(t)'
    BY <2>1, <2>2 DEF Minds, Replays, Reads, Invites, SpreadsIn, Spreads, Creates, SendsHome
  <2> QED BY <2>1, <2>3, BelongKept
<1>2. ASSUME AppendMessage(t) PROVE BelongInv'
  <2> DEFINE c == frame[t].cid
             v == membersOf[c]
             f == Loop([frame[t] EXCEPT !.at = "send notify"], "members", v)
  <2>1. /\ f.at = "send notify" /\ f.cid = c
        /\ f.pos["members"] = 1 /\ f.end["members"] = v.len
    BY <1>a DEF Loop, Frames, Level
  <2>2. frame'[t] = f /\ UNCHANGED <<chansOf, channels, membersOf>> /\ Continue(t)
    BY <1>2 DEF AppendMessage, Pushed, Continue
  <2>3. c \in channels /\ c \in Cid
    <3>1. frame[t].at = "append"
      BY <1>2 DEF AppendMessage, At
    <3> QED BY <3>1 DEF BelongInv, Minds, SendsHome, TypeInv, TablesTypeOK
  <2> HIDE DEF f
  <2>4. v.len <= Len(v.cells)
    <3>1. v \in Vectors(Uid)
      BY <2>3 DEF TypeInv, TablesTypeOK
    <3> QED BY <3>1 DEF Vectors
  <2>5. frame'[t].at = "send notify" /\ frame'[t].cid = c /\ frame'[t].pos["members"] = 1
        /\ frame'[t].end["members"] = v.len /\ membersOf'[frame'[t].cid] = v
    BY <2>1, <2>2
  <2> HIDE DEF c, v
  <2>6. SpreadsIn(t)'
    <3>1. 1 >= 1
      OBVIOUS
    <3> QED BY <2>4, <2>5, <3>1 DEF SpreadsIn
  <2>7. Replays(t)' /\ Invites(t)' /\ SendsHome(t)'
    BY <2>2, <2>3, <2>5 DEF Replays, Reads, Invites, SendsHome
  <2> QED BY <2>2, <2>6, <2>7, BelongKept DEF Minds
<1> QED BY <1>1, <1>2

\* No other step makes a channel or lists one.
LEMMA ListsSame ==
    ASSUME TypeInv, NEW t \in Conn, Ask(t) \/ Continue(t),
           ~CreateMember(t), \A other \in Announced : ~CreateChannel(t, other)
    PROVE  UNCHANGED <<chansOf, channels>>
<1>1. CASE DeleteFromChannel(t) \/ DeleteFindMessage(t) \/ DeleteListedMessage(t) \/ DeleteNotify(t)
         \/ DeleteChannelFinished(t) \/ DeleteAccountFinished(t)
  BY <1>1 DEF DeleteFromChannel, DeleteFindMessage, DeleteListedMessage, DeleteNotify,
     DeleteChannelFinished, DeleteAccountFinished, tables, rooms
<1>2. CASE CreateAnnounce(t) \/ CreateFinished(t) \/ Accept(t)
  BY <1>2 DEF CreateAnnounce, CreateFinished, Accept, tables, rooms
<1>3. CASE t \notin Deleting /\ ~CreateAnnounce(t) /\ ~CreateFinished(t)
  <2>1. Roomless(t)
    BY <1>3, RoomlessSteps
  <2> QED BY <2>1 DEF Roomless
<1>4. CASE t \in Deleting /\ ~Accept(t)
           /\ ~(\/ DeleteFromChannel(t) \/ DeleteFindMessage(t) \/ DeleteListedMessage(t)
                \/ DeleteNotify(t) \/ DeleteChannelFinished(t) \/ DeleteAccountFinished(t))
  <2>1. frame[t].at # "idle"
    BY <1>4 DEF Deleting
  <2>2. Continue(t)
    BY <1>4, <2>1 DEF Ask, Request, Register, Login, DeleteAccount, ListAccounts,
                CreateChannel, SendMessage, DeleteMessage, Disconnect
  <2>3. frame[t].at \in {"delete channels", "delete messages", "delete text", "delete notify"}
    BY <1>4 DEF Deleting
  <2> QED
    BY <1>4, <2>2, <2>3, Zenon DEF Continue, RegisterPassword, RegisterUser, LoginUser, LoginChannel,
       LoginMessage, LoginChannelReplayed, LoginFinished, ListAccount, ListFinished, DeleteUser,
       CreateMember, CreateAnnounce, CreateFinished, AppendMessage, SendNotify, RemoveText,
       RemoveNotify, Unlist, DisconnectFinished, QuitThread, Dispatch, At
<1> QED BY <1>1, <1>2, <1>3, <1>4

LEMMA BelongNext ==
    ASSUME TypeInv, TypeInv', SettledInv, ShowInv, BelongInv, [Next]_vars
    PROVE  BelongInv'
<1>1. ASSUME NEW t \in Conn, Ask(t) \/ Continue(t) PROVE BelongInv'
  <2>1. CASE LoginChannel(t)
    BY <2>1, LoginChannelBelongs
  <2>2. CASE CreateMember(t)
    BY <2>2, CreateMemberBelongs
  <2>3. ASSUME NEW other \in Announced, CreateChannel(t, other) PROVE BelongInv'
    BY <2>3, CreateChannelBelongs
  <2>4. CASE AppendMessage(t) \/ \E c \in Cid : SendMessage(t, c)
    BY <2>4, SendingBelongs
  <2>5. CASE /\ ~LoginChannel(t) /\ ~CreateMember(t)
             /\ \A other \in Announced : ~CreateChannel(t, other)
             /\ ~AppendMessage(t) /\ \A c \in Cid : ~SendMessage(t, c)
    <3>1. Bides(t)
      BY <1>1, <2>5, BidesSteps
    <3>2. Minds(t)'
      BY <1>1, <3>1, MindsKept DEF ShowInv, BelongInv
    <3>3. UNCHANGED <<chansOf, channels>>
      BY <1>1, <2>5, ListsSame
    <3> QED BY <1>1, <3>2, <3>3, BelongKept
  <2> QED BY <2>1, <2>2, <2>3, <2>4, <2>5
<1>2. CASE UNCHANGED vars
  <2>1. UNCHANGED <<nameOf, users, chansOf, channels, membersOf, frame, disturbed>>
    BY <1>2 DEF vars, tables, accounts, rooms, threads
  <2>2. \A u : Settled(u)' <=> Settled(u)
    BY <2>1 DEF Settled, Registers
  <2>3. \A u, c : Belongs(u, c)' <=> Belongs(u, c)
    BY <2>1 DEF Belongs, Deleting
  <2>4. MembersBelong' /\ ListsBelong'
    BY <2>1, <2>2, <2>3 DEF BelongInv, MembersBelong, ListsBelong
  <2>5. ASSUME NEW s \in Conn PROVE Minds(s)'
    <3>1. Minds(s)
      BY DEF BelongInv
    <3>2. Replays(s)'
      BY <2>1, <2>2, <2>3, <3>1 DEF Minds, Replays, Reads
    <3>3. Invites(s)'
      BY <2>1, <2>2, <2>3, <3>1 DEF Minds, Invites
    <3>4. SpreadsIn(s)' /\ SendsHome(s)'
      BY <2>1, <3>1 DEF Minds, SpreadsIn, Spreads, SendsHome
    <3> QED BY <3>2, <3>3, <3>4 DEF Minds
  <2> QED BY <2>4, <2>5 DEF BelongInv
<1> QED BY <1>1, <1>2 DEF Next, Rest

LEMMA BelongInit == Init => BelongInv
<1> SUFFICES ASSUME Init PROVE BelongInv
  OBVIOUS
<1>1. channels = {} /\ \A t \in Conn : frame[t].at = "idle"
  BY DEF Init, TablesInit, Idle
<1>2. \A u \in Uid : Live(chansOf[u]) = {}
  <2>1. \A u \in Uid : chansOf[u] = VectorOf(<<>>)
    BY DEF Init, TablesInit
  <2>2. Live(VectorOf(<<>>)) = {}
    BY DEF VectorOf, Live
  <2> QED BY <2>1, <2>2
<1>3. MembersBelong /\ ListsBelong
  BY <1>1, <1>2 DEF MembersBelong, ListsBelong
<1>4. \A t \in Conn : Minds(t)
  BY <1>1 DEF Minds, Replays, Reads, Invites, SpreadsIn, Spreads, Creates, SendsHome
<1> QED BY <1>3, <1>4 DEF BelongInv

-----------------------------------------------------------------------------
(* What one step has for a connection                                       *)

LEMMA LastOnly ==
    ASSUME NEW S, NEW w \in Seq(S), NEW x \in S
    PROVE  /\ \A i \in (Len(w) + 1)..Len(Append(w, x)) : Append(w, x)[i] = x
           /\ (Len(w) + 1)..Len(w) = {}
           /\ (Len(w) + 1)..Len(<<>>) = {}
           /\ w # <<>> => (Len(w) + 1)..Len(Tail(w)) = {} /\ ~(Len(Tail(w)) >= Len(w))
<1>1. PICK n \in Nat : n = Len(w)
  OBVIOUS
<1>2. Len(Append(w, x)) = n + 1 /\ Append(w, x)[n + 1] = x
  BY <1>1
<1>3. \A i \in (n + 1)..(n + 1) : i = n + 1
  BY <1>1
<1>4. (n + 1)..n = {} /\ (n + 1)..0 = {} /\ (n + 1)..(n - 1) = {} /\ ~(n - 1 >= n)
  BY <1>1
<1>5. w # <<>> => Len(Tail(w)) = n - 1
  BY <1>1
<1> QED BY <1>1, <1>2, <1>3, <1>4, <1>5

\* Of what is appended, only that is new.
LEMMA NewOnly ==
    ASSUME TypeInv, NEW s \in Conn, NEW p \in Packets, NEW q \in Packets,
           out'[s] = out[s] \/ out'[s] = Append(out[s], p),
           \/ queue'[s] = queue[s] \/ queue'[s] = <<>> \/ queue'[s] = Append(queue[s], q)
           \/ queue[s] # <<>> /\ queue'[s] = Tail(queue[s]),
           NEW packet \in NewFor(s)
    PROVE  \/ packet = q /\ queue'[s] = Append(queue[s], q)
           \/ packet = p /\ out'[s] = Append(out[s], p)
                         /\ ~(queue[s] # <<>> /\ queue'[s] = Tail(queue[s]))
<1>1. out[s] \in Seq(Packets) /\ queue[s] \in Seq(Packets)
  BY DEF TypeInv, WiresOK
<1>2. ASSUME NEW i \in (Len(queue[s]) + 1)..Len(queue'[s]), packet = queue'[s][i]
      PROVE  packet = q /\ queue'[s] = Append(queue[s], q)
  <2>1. queue'[s] = Append(queue[s], q)
    BY <1>1, <1>2, LastOnly
  <2> QED BY <1>1, <1>2, <2>1, LastOnly
<1>3. ASSUME NEW i \in (Len(out[s]) + 1)..Len(out'[s]), Len(queue'[s]) >= Len(queue[s]),
             packet = out'[s][i]
      PROVE  packet = p /\ out'[s] = Append(out[s], p)
             /\ ~(queue[s] # <<>> /\ queue'[s] = Tail(queue[s]))
  <2>1. out'[s] = Append(out[s], p)
    BY <1>1, <1>3, LastOnly
  <2>2. packet = p
    BY <1>1, <1>3, <2>1, LastOnly
  <2>3. ~(queue[s] # <<>> /\ queue'[s] = Tail(queue[s]))
    BY <1>1, <1>3, LastOnly
  <2> QED BY <2>1, <2>2, <2>3
<1> QED BY <1>2, <1>3 DEF NewFor

LEMMA NothingNewFor ==
    ASSUME TypeInv, NEW s \in Conn, out'[s] = out[s], queue'[s] = queue[s]
    PROVE  NewFor(s) = {}
<1>1. out[s] \in Seq(Packets) /\ queue[s] \in Seq(Packets)
  BY DEF TypeInv, WiresOK
<1>2. Len(out[s]) \in Nat /\ Len(queue[s]) \in Nat
  BY <1>1
<1>3. (Len(out[s]) + 1)..Len(out[s]) = {} /\ (Len(queue[s]) + 1)..Len(queue[s]) = {}
  BY <1>2
<1> QED BY <1>3 DEF NewFor

\* The kinds of step there are, by what they have for whom.
LEMMA QuietNews ==
    ASSUME TypeInv, NEW t \in Conn, QuietWires(t), NEW s \in Conn, NEW packet \in NewFor(s)
    PROVE  packet.kind \notin Pushes
<1>1. CASE s # t
  BY <1>1, NothingNewFor DEF QuietWires
<1>2. CASE s = t
  <2>0. PICK d \in Packets : Dull(d)
    BY DullPackets DEF Kinds, Pushes
  <2>1. PICK p \in Packets : Dull(p) /\ (out'[s] = out[s] \/ out'[s] = Append(out[s], p))
    BY <1>2, <2>0 DEF QuietWires
  <2>2. PICK q \in Packets : /\ Dull(q)
                             /\ \/ queue'[s] = queue[s] \/ queue'[s] = <<>>
                                \/ queue'[s] = Append(queue[s], q)
                                \/ queue[s] # <<>> /\ queue'[s] = Tail(queue[s])
    BY <1>2, <2>0 DEF QuietWires
  <2>3. packet = q \/ packet = p
    BY <2>1, <2>2, NewOnly
  <2> QED BY <2>1, <2>2, <2>3 DEF Dull
<1> QED BY <1>1, <1>2

LEMMA PassesNews ==
    ASSUME TypeInv, NEW t \in Conn, Passes(t), NEW s \in Conn
    PROVE  NewFor(s) = {}
<1>1. CASE s # t
  <2>1. out'[s] = out[s] /\ queue'[s] = queue[s]
    BY <1>1 DEF Passes, Write, TypeInv, WiresOK
  <2> QED BY <2>1, NothingNewFor
<1>2. ASSUME s = t, NEW packet \in NewFor(s) PROVE FALSE
  <2>1. queue[s] \in Seq(Packets) /\ out[s] \in Seq(Packets) /\ queue[s] # <<>>
        /\ Head(queue[s]) \in Packets
    BY <1>2 DEF Passes, TypeInv, WiresOK
  <2>2. out'[s] = Append(out[s], Head(queue[s])) /\ queue'[s] = Tail(queue[s])
    BY <1>2 DEF Passes, Write, TypeInv, WiresOK
  <2>3. queue'[s] # Append(queue[s], Head(queue[s]))
    <3>1. PICK n \in Nat : n = Len(queue[s])
      BY <2>1
    <3>2. Len(Tail(queue[s])) = n - 1 /\ Len(Append(queue[s], Head(queue[s]))) = n + 1
      BY <2>1, <3>1
    <3>3. n - 1 # n + 1
      BY <3>1
    <3> QED BY <2>2, <3>2, <3>3
  <2> QED BY <1>2, <2>1, <2>2, <2>3, NewOnly
<1> QED BY <1>1, <1>2

LEMMA WritesNews ==
    ASSUME TypeInv, NEW t \in Conn, NEW p \in Packets, Write(t, p), UNCHANGED queue,
           NEW s \in Conn, NEW packet \in NewFor(s)
    PROVE  s = t /\ packet = p
<1>1. s = t
  <2>1. CASE s # t
    <3>1. out'[s] = out[s] /\ queue'[s] = queue[s]
      BY <2>1 DEF Write, TypeInv, WiresOK
    <3> QED BY <3>1, NothingNewFor
  <2> QED BY <2>1
<1>2. out'[s] = Append(out[s], p) /\ queue'[s] = queue[s]
  BY <1>1 DEF Write, TypeInv, WiresOK
<1> QED BY <1>1, <1>2, NewOnly

LEMMA EmitsNews ==
    ASSUME TypeInv, NEW t \in Conn, NEW u, NEW p \in Packets, Emits(t, u, p),
           NEW s \in Conn, NEW packet \in NewFor(s)
    PROVE  auth[s] = u /\ packet = p
<1>1. /\ out'[s] = IF s = t /\ auth[s] = u THEN Append(out[s], p) ELSE out[s]
      /\ queue'[s] = IF s # t /\ auth[s] = u THEN Append(queue[s], p) ELSE queue[s]
  BY DEF Emits, Emit, TypeInv, WiresOK
<1>2. auth[s] = u
  <2>1. CASE auth[s] # u
    BY <1>1, <2>1, NothingNewFor
  <2> QED BY <2>1
<1>3. packet = p
  <2>1. CASE s = t
    <3>1. out'[s] = Append(out[s], p) /\ queue'[s] = queue[s]
      BY <1>1, <1>2, <2>1
    <3> QED BY <3>1, NewOnly
  <2>2. CASE s # t
    <3>1. out'[s] = out[s] /\ queue'[s] = Append(queue[s], p)
      BY <1>1, <1>2, <2>2
    <3> QED BY <3>1, NewOnly
  <2> QED BY <2>1, <2>2
<1> QED BY <1>2, <1>3

\* A step that has news of no channel and no message for anyone.
Mute(t) == \A s \in Conn : \A packet \in NewFor(s) : packet.kind \notin Tidings

LEMMA MuteWires ==
    ASSUME TypeInv, NEW t \in Conn, QuietWires(t) \/ Passes(t)
    PROVE  Mute(t)
BY QuietNews, PassesNews DEF Mute, Tidings, Pushes

LEMMA RetractionMute ==
    ASSUME TypeInv, NEW t \in Conn, frame[t].mid \in Mid, UNCHANGED <<link, auth>>,
           NotifyMember(t, Packet("deleted", {frame[t].mid}))
    PROVE  Mute(t)
<1> DEFINE p == Packet("deleted", {frame[t].mid})
           u == membersOf[frame[t].cid].cells[frame[t].pos["members"]]
<1>1. p \in Packets /\ p.kind = "deleted"
  BY OneType DEF Kinds
<1>2. Emits(t, u, p) \/ QuietWires(t)
  BY NotifyWires
<1> HIDE DEF p, u
<1>3. CASE Emits(t, u, p)
  BY <1>1, <1>3, EmitsNews DEF Mute, Tidings
<1> QED BY <1>2, <1>3, MuteWires

\* Every step but those of a replay, of an announcement and of a notification.
LEMMA MuteSteps ==
    ASSUME TypeInv, NEW t \in Conn, Ask(t) \/ Continue(t),
           ~LoginChannel(t), ~LoginMessage(t), ~CreateAnnounce(t), ~SendNotify(t)
    PROVE  Mute(t)
<1>a. ASSUME UNCHANGED <<queue, out>> PROVE Mute(t)
  BY <1>a, NothingNewFor DEF Mute
<1>1. CASE \/ \E n \in Name, p \in Password : Register(t, n, p) \/ Login(t, n, p) \/ DeleteAccount(t, n, p)
           \/ \E regex \in (SUBSET Name) \cup {Nil} : ListAccounts(t, regex)
           \/ Accept(t) \/ Disconnect(t) \/ DisconnectFinished(t) \/ QuitThread(t)
           \/ RegisterPassword(t) \/ RegisterUser(t) \/ ListAccount(t) \/ ListFinished(t)
           \/ DeleteUser(t)
  BY <1>1, PlainStep, MuteWires DEF Plain
<1>2. CASE \/ \E other \in Announced : CreateChannel(t, other)
           \/ \E c \in Cid : SendMessage(t, c)
           \/ \E m \in Mid : DeleteMessage(t, m)
  BY <1>2, <1>a DEF CreateChannel, SendMessage, DeleteMessage
<1>3. CASE \/ LoginChannelReplayed(t) \/ LoginFinished(t) \/ CreateMember(t) \/ CreateFinished(t)
           \/ AppendMessage(t) \/ RemoveText(t) \/ Unlist(t) \/ DeleteFromChannel(t)
           \/ DeleteFindMessage(t) \/ DeleteListedMessage(t) \/ DeleteChannelFinished(t)
  BY <1>3, <1>a
  DEF LoginChannelReplayed, LoginFinished, CreateMember, CreateFinished, AppendMessage, RemoveText,
      Unlist, DeleteFromChannel, DeleteFindMessage, DeleteListedMessage, DeleteChannelFinished
<1>4. ASSUME RemoveNotify(t) \/ DeleteNotify(t) PROVE Mute(t)
  <2>1. frame[t].mid \in Mid /\ UNCHANGED <<link, auth>>
    BY <1>4 DEF RemoveNotify, DeleteNotify, At, TypeInv, FramesOK, Whole, HasMid
  <2>2. NotifyMember(t, Packet("deleted", {frame[t].mid})) \/ UNCHANGED <<queue, out>>
    BY <1>4 DEF RemoveNotify, DeleteNotify
  <2> QED BY <1>a, <2>1, <2>2, RetractionMute
<1>5. ASSUME LoginUser(t) PROVE Mute(t)
  <2> DEFINE u == frame[t].uid
             p == Packet("login", {u})
  <2>1. UNCHANGED <<queue, out>> \/ (Write(t, p) /\ UNCHANGED queue)
    BY <1>5 DEF LoginUser
  <2>2. p \in Packets /\ p.kind = "login"
    <3>1. u \in Uid /\ "login" \in Kinds
      BY <1>5 DEF LoginUser, At, TypeInv, FramesOK, Whole, HasUid, Kinds
    <3> QED BY <3>1, OneType
  <2> HIDE DEF p
  <2>3. CASE Write(t, p) /\ UNCHANGED queue
    BY <2>2, <2>3, WritesNews DEF Mute, Tidings
  <2> QED BY <1>a, <2>1, <2>3
<1>6. CASE Dispatch(t)
  BY <1>6, DispatchWires, MuteWires
<1>7. ASSUME DeleteAccountFinished(t) PROVE Mute(t)
  <2> DEFINE p == Packet("delete account", {frame[t].uid} \cap users)
  <2>1. Write(t, p) /\ UNCHANGED queue
    BY <1>7 DEF DeleteAccountFinished
  <2>2. p \in Packets /\ p.kind = "delete account"
    <3>1. ({frame[t].uid} \cap users) \in SUBSET (Uid \cup Cid \cup Mid)
      BY DEF TypeInv, TablesTypeOK
    <3> QED BY <3>1, PacketType DEF Kinds
  <2> HIDE DEF p
  <2> QED BY <2>1, <2>2, WritesNews DEF Mute, Tidings
<1> QED BY <1>1, <1>2, <1>3, <1>4, <1>5, <1>6, <1>7 DEF Ask, Continue

LEMMA MuteTells ==
    ASSUME NEW t \in Conn, Mute(t)
    PROVE  TellsMembers
BY DEF Mute, Tidings, TellsMembers

\* A login tells its user of a channel.
LEMMA LoginChannelTells ==
    ASSUME TypeInv, ShowInv, BelongInv, NEW t \in Conn, LoginChannel(t)
    PROVE  TellsMembers
<1>1. PICK c \in Cell(t, "channels", chansOf, frame[t].uid) :
         \/ UNCHANGED out
         \/ c \in channels /\ Write(t, Packet("channel", {c}))
  BY DEF LoginChannel
<1>2. UNCHANGED queue
  BY DEF LoginChannel
<1>3. CASE UNCHANGED out
  BY <1>2, <1>3, NothingNewFor, MuteTells DEF Mute
<1>4. CASE c \in channels /\ Write(t, Packet("channel", {c}))
  <2> DEFINE p == Packet("channel", {c})
  <2>1. p \in Packets /\ p.kind = "channel" /\ p.ids = {c}
    <3>1. c \in Uid \cup Cid \cup Mid /\ "channel" \in Kinds
      BY <1>4 DEF TypeInv, TablesTypeOK, Kinds
    <3> QED BY <3>1, OneType
  <2>2. Write(t, p)
    BY <1>4
  <2> HIDE DEF p
  <2>3. ASSUME t \notin disturbed PROVE Belongs(auth[t], c)
    BY <1>1, <2>3, CellListed DEF BelongInv, ListsBelong
  <2>4. ASSUME NEW s \in Conn \ disturbed, NEW packet \in NewFor(s)
        PROVE  packet = p /\ s = t
    BY <1>2, <2>1, <2>2, WritesNews
  <2> QED BY <2>1, <2>3, <2>4 DEF TellsMembers
<1> QED BY <1>1, <1>3, <1>4

\* A login tells its user of a message.
LEMMA LoginMessageTells ==
    ASSUME TypeInv, ShowInv, ListInv, BelongInv, NEW t \in Conn, LoginMessage(t)
    PROVE  TellsMembers
<1>0. PICK c, p, w : c = frame[t].cid /\ p = frame[t].pos["messages"] /\ w = logOf[c].cells
  OBVIOUS
<1>1. frame[t].at = "login messages" /\ c \in Cid /\ UNCHANGED queue /\ Following(t)
  <2>1. frame[t].at = "login messages"
    BY DEF LoginMessage, At
  <2> QED BY <1>0, <2>1 DEF LoginMessage, TypeInv, FramesOK, Whole, HasCid, ShowInv, AllFollowing,
                            Replaying
<1>2. PICK m \in Cell(t, "messages", logOf, c) :
        (m \in messages /\ Write(t, Packet("message", {m}))) \/ UNCHANGED out
  BY <1>0 DEF LoginMessage
<1>3. CASE UNCHANGED out
  BY <1>1, <1>3, NothingNewFor, MuteTells DEF Mute
<1>4. CASE m \in messages /\ Write(t, Packet("message", {m}))
  <2> DEFINE packet == Packet("message", {m})
  <2>1. packet \in Packets /\ packet.kind = "message" /\ packet.ids = {m}
    <3>1. m \in Uid \cup Cid \cup Mid /\ "message" \in Kinds
      BY <1>4 DEF TypeInv, TablesTypeOK, Kinds
    <3> QED BY <3>1, OneType
  <2>2. Write(t, packet)
    BY <1>4
  <2> HIDE DEF packet
  <2>3. ASSUME t \notin disturbed PROVE Belongs(auth[t], channelOf[m])
    <3>1. m = w[p]
      <4>1. frame[t].loose = {}
        BY <2>3 DEF ShowInv, LooseInv
      <4> QED BY <1>0, <1>2, <4>1 DEF Cell
    <3>2. p \in 1..Len(w)
      <4>1. p >= 1 /\ p <= frame[t].end["messages"] /\ frame[t].end["messages"] <= Len(w)
        BY <1>0, <1>1 DEF ListInv, Reading, Reads, LoginMessage, More
      <4>2. p \in Nat /\ frame[t].end["messages"] \in Nat
        BY <1>0 DEF TypeInv, FramesOK, Frames, Level
      <4>3. w \in Seq(Mid)
        BY <1>0, <1>1 DEF TypeInv, TablesTypeOK, Vectors
      <4>4. PICK e \in Nat : e = frame[t].end["messages"]
        BY <4>2
      <4>5. PICK n \in Nat : n = Len(w)
        BY <4>3
      <4> QED BY <4>1, <4>2, <4>4, <4>5
    <3>3. m \in Cells(logOf[c])
      BY <1>0, <3>1, <3>2 DEF Cells
    <3>4. channelOf[m] = c
      BY <1>1, <3>3 DEF ListInv, SecretInv, Housed
    <3>5. Belongs(frame[t].uid, c)
      BY <1>0, <1>1, <2>3 DEF BelongInv, Minds, Replays, Reads
    <3> QED BY <1>1, <3>4, <3>5 DEF Following
  <2>4. ASSUME NEW s \in Conn \ disturbed, NEW q \in NewFor(s)
        PROVE  q = packet /\ s = t
    BY <1>1, <2>1, <2>2, WritesNews
  <2> QED BY <2>1, <2>3, <2>4 DEF TellsMembers
<1> QED BY <1>2, <1>3, <1>4

\* What a signal to a user tells its connections.
LEMMA EmitTellsMembers ==
    ASSUME TypeInv, NEW t \in Conn, NEW u, NEW x, NEW p \in Packets, Emits(t, u, p), p.ids = {x},
           p.kind = "channel" => Belongs(u, x), p.kind = "message" => Belongs(u, channelOf[x])
    PROVE  TellsMembers
<1>1. ASSUME NEW s \in Conn \ disturbed, NEW packet \in NewFor(s)
      PROVE  auth[s] = u /\ packet = p
  BY EmitsNews
<1> QED BY <1>1 DEF TellsMembers

\* A creation tells a member of the channel.
LEMMA CreateAnnounceTells ==
    ASSUME TypeInv, BelongInv, NEW t \in Conn, CreateAnnounce(t)
    PROVE  TellsMembers
<1> DEFINE u == frame[t].uid
           c == frame[t].cid
           p == Packet("channel", {c})
<1>1. frame[t].at = "create announce" /\ c \in Cid /\ Emits(t, u, p)
  BY DEF CreateAnnounce, At, TypeInv, FramesOK, Whole, HasCid, Emits
<1>2. Belongs(u, c)
  BY <1>1 DEF BelongInv, Minds, Invites
<1>3. p \in Packets /\ p.kind = "channel" /\ p.ids = {c}
  BY <1>1, OneType DEF Kinds
<1> HIDE DEF u, c, p
<1> QED BY <1>1, <1>2, <1>3, EmitTellsMembers

\* A sent message is told to a member of its channel.
LEMMA SendNotifyTells ==
    ASSUME TypeInv, ShowInv, ListInv, BelongInv, NEW t \in Conn, SendNotify(t)
    PROVE  TellsMembers
<1>0. PICK c, m, p, e, u : /\ c = frame[t].cid /\ m = frame[t].mid
                           /\ p = frame[t].pos["members"] /\ e = frame[t].end["members"]
                           /\ u = membersOf[c].cells[p]
  OBVIOUS
<1>1. /\ frame[t].at = "send notify" /\ c \in channels /\ c \in Cid /\ m \in Mid
      /\ channelOf[m] = c /\ UNCHANGED <<link, auth>>
  <2>1. frame[t].at = "send notify"
    BY DEF SendNotify, At
  <2>2. c \in channels
    BY <1>0, <2>1 DEF BelongInv, Minds, SendsHome
  <2>3. m \in Mid
    BY <1>0, <2>1 DEF TypeInv, FramesOK, Whole, HasMid
  <2>4. channelOf[m] = c
    BY <1>0, <2>1 DEF ListInv, SecretInv, Carried, Holding
  <2> QED BY <2>1, <2>2, <2>3, <2>4 DEF SendNotify, TypeInv, TablesTypeOK
<1>2. CASE UNCHANGED <<out, queue>>
  BY <1>2, NothingNewFor, MuteTells DEF Mute
<1>3. CASE NotifyMember(t, Packet("message", {m}))
  <2> DEFINE packet == Packet("message", {m})
  <2>1. packet \in Packets /\ packet.kind = "message" /\ packet.ids = {m}
    BY <1>1, OneType DEF Kinds
  <2>2. Emits(t, u, packet) \/ QuietWires(t)
    BY <1>0, <1>1, <1>3, NotifyWires
  <2> HIDE DEF packet
  <2>3. u \in Cells(membersOf[c])
    <3>1. p >= 1 /\ p <= e /\ e <= Len(membersOf[c].cells)
      BY <1>0, <1>1, <1>3 DEF BelongInv, Minds, SpreadsIn, Spreads, NotifyMember, More
    <3>2. p \in Nat /\ e \in Nat
      BY <1>0 DEF TypeInv, FramesOK, Frames, Level
    <3>3. membersOf[c].cells \in Seq(Uid)
      BY <1>1 DEF TypeInv, TablesTypeOK, Vectors
    <3>4. PICK n \in Nat : n = Len(membersOf[c].cells)
      BY <3>3
    <3>5. p \in 1..n
      BY ONLY <3>1, <3>2, <3>4
    <3> QED BY <1>0, <3>4, <3>5 DEF Cells
  <2>4. Belongs(u, c)
    BY <1>1, <2>3 DEF BelongInv, MembersBelong
  <2>5. CASE Emits(t, u, packet)
    BY <1>1, <2>1, <2>4, <2>5, EmitTellsMembers
  <2> QED BY <2>2, <2>5, MuteWires, MuteTells
<1> QED BY <1>0, <1>2, <1>3 DEF SendNotify

LEMMA TellsNext ==
    ASSUME TypeInv, ShowInv, ListInv, BelongInv, [Next]_vars
    PROVE  [TellsMembers]_vars
<1>1. ASSUME NEW t \in Conn, Ask(t) \/ Continue(t) PROVE TellsMembers
  BY <1>1, MuteSteps, MuteTells, LoginChannelTells, LoginMessageTells, CreateAnnounceTells,
     SendNotifyTells
<1> QED BY <1>1 DEF Next, Rest

\* Whatever the instance: what a thread posts to a connection or replays over it is of a channel
\* of the account logged in over it at that moment, however many accounts were logged in over it
\* before.  A connection whose loop had its vector changed is excepted.
THEOREM OwnChannels == Spec => OwnChannelsOnly
<1>1. /\ TypeInv /\ TypeInv' /\ Placed /\ DeleterInv /\ ListInv /\ LooseInv /\ StoreInv
      /\ [Next]_vars
      => DeleterInv' /\ ListInv' /\ LooseInv' /\ StoreInv'
  BY DeleterNext, ListNext, LooseNext, StoreNext DEF TypeInv, DeleterInv
<1>2. TypeInv /\ ShowInv /\ [Next]_vars => ShowInv'
  BY ShowNext
<1>3. TypeInv /\ TypeInv' /\ StoreInv /\ ShowInv /\ BelongInv /\ [Next]_vars => BelongInv'
  BY BelongNext DEF StoreInv
<1>4. TypeInv /\ ListInv /\ ShowInv /\ BelongInv /\ [Next]_vars => [TellsMembers]_vars
  BY TellsNext
<1>5. Init => DeleterInv /\ ListInv /\ LooseInv /\ StoreInv /\ ShowInv /\ BelongInv
  BY DeleterInit, ListInit, StoreInit, ShowInit, BelongInit DEF ShowInv
<1> QED BY <1>1, <1>2, <1>3, <1>4, <1>5, Typed, PTL DEF Spec, OwnChannelsOnly

-----------------------------------------------------------------------------
(* Members of an established channel miss nothing                           *)

\* The login under way in t has still to come to message m in the list it walks.
WillRead(t, m) ==
    /\ Reads(t) /\ frame[t].cid = channelOf[m]
    /\ \E i \in frame[t].pos["messages"]..frame[t].end["messages"] :
          logOf[frame[t].cid].cells[i] = m

\* The sender has still to list m, or to come to u among the members of its channel.
WillTell(s, m, u) ==
    /\ frame[s].mid = m
    /\ \/ frame[s].at = "append"
       \/ /\ frame[s].at = "send notify"
          /\ \E i \in frame[s].pos["members"]..frame[s].end["members"] :
                membersOf[frame[s].cid].cells[i] = u

Coming(t, m) ==
    \/ m \in Reached(t, "message")
    \/ \E s \in Conn : WillTell(s, m, auth[t])
    \/ WillSee(t, channelOf[m])
    \/ WillRead(t, m)

AllComing ==
    \A t \in Conn \ disturbed : Served(t) =>
        \A m \in messages : auth[t] \in Live(membersOf[channelOf[m]]) => Coming(t, m)

\* While no account is deleted, what is not listed is about to be.
NewOrListed ==
    \A m \in messages : m \in Live(logOf[channelOf[m]]) \/ \E t \in Conn : Appends(t, m)

\* No message is sent into a channel that is still being created.
NoneEarly == \A t \in Conn : Creating(t) => \A m \in messages : channelOf[m] # frame[t].cid

\* What a replay has still to read is where it was.
LogsHold ==
    \A s \in Conn \ disturbed' : Reads(s) =>
        \A i \in frame[s].pos["messages"]..frame[s].end["messages"] :
            logOf'[frame[s].cid].cells[i] = logOf[frame[s].cid].cells[i]

ChansHold ==
    \A s \in Conn : frame[s].at \in Replaying =>
        \A i \in frame[s].pos["channels"]..frame[s].end["channels"] :
            chansOf'[frame[s].uid].cells[i] = chansOf[frame[s].uid].cells[i]

\* Connections only come to know more.
MoreKnown ==
    \A s \in Conn : Served(s)' =>
        /\ Served(s) /\ auth'[s] = auth[s]
        /\ Reached(s, "message") \subseteq Reached(s, "message")'

\* A step of t that leaves nothing out of a replay or of a notification.
Apart(t) ==
    /\ messages' \subseteq messages
    /\ Stable /\ LogsHold /\ ChansHold /\ MoreKnown
    /\ frame[t].at = "append" => UNCHANGED frame
    /\ frame[t].at = "send notify" => UNCHANGED frame \/ ~More(t, "members")
    /\ frame[t].at \in Replaying =>
          \/ ~More(t, "channels")
          \/ /\ frame'[t].at \in Replaying /\ frame'[t].uid = frame[t].uid
             /\ frame'[t].pos["channels"] = frame[t].pos["channels"]
             /\ frame'[t].end["channels"] = frame[t].end["channels"]
    /\ Reads(t) => UNCHANGED frame \/ ~More(t, "messages")

\* A loop that is over has no position left.
LEMMA NoMore ==
    ASSUME TypeInv, NEW t \in Conn, NEW l \in Level, ~More(t, l)
    PROVE  frame[t].pos[l]..frame[t].end[l] = {}
<1>1. PICK p, e : p = frame[t].pos[l] /\ e = frame[t].end[l]
  OBVIOUS
<1>2. p \in Nat /\ e \in Nat /\ ~(p <= e)
  BY <1>1 DEF TypeInv, FramesOK, Frames, More
<1>3. p..e = {}
  BY ONLY <1>2
<1> QED BY <1>1, <1>3

\* The channel of a stored message was made.
LEMMA StoredHomed ==
    ASSUME TypeInv, Placed, Homed, NEW m \in messages
    PROVE  m \in Mid /\ channelOf[m] \in channels /\ channelOf[m] \in Cid
BY DEF TypeInv, TablesTypeOK, Placed, Homed

\* Another thread goes on telling.
LEMMA TellStill ==
    ASSUME TypeInv, Homed, Carried, Stable, NEW s \in Conn, Still(s), NEW m, NEW u,
           WillTell(s, m, u)
    PROVE  WillTell(s, m, u)'
<1>1. CASE frame[s].at = "append"
  BY <1>1 DEF Still, WillTell
<1>2. CASE frame[s].at = "send notify"
  <2>1. frame[s].mid \in Mid /\ frame[s].cid \in Cid /\ channelOf[frame[s].mid] = frame[s].cid
    BY <1>2 DEF TypeInv, FramesOK, Whole, HasMid, HasCid, Carried, Holding
  <2>2. frame[s].cid \in channels
    BY <2>1, NilAssumption DEF Homed
  <2>3. membersOf'[frame[s].cid] = membersOf[frame[s].cid]
    BY <2>2 DEF Stable
  <2> QED BY <1>2, <2>3 DEF Still, WillTell
<1> QED BY <1>1, <1>2 DEF WillTell

\* A replay goes on to the channels it has not come to.
LEMMA SeeStill ==
    ASSUME ChansHold, NEW s \in Conn, NEW c, WillSee(s, c),
           frame'[s].at \in Replaying, frame'[s].uid = frame[s].uid,
           frame'[s].pos["channels"] = frame[s].pos["channels"],
           frame'[s].end["channels"] = frame[s].end["channels"]
    PROVE  WillSee(s, c)'
BY DEF WillSee, ChansHold

\* So does the replay of a channel.
LEMMA ReadStill ==
    ASSUME LogsHold, NEW s \in Conn \ disturbed', NEW m, channelOf'[m] = channelOf[m],
           WillRead(s, m), frame'[s].at = frame[s].at, frame'[s].cid = frame[s].cid,
           frame'[s].pos = frame[s].pos, frame'[s].end = frame[s].end
    PROVE  WillRead(s, m)'
BY DEF WillRead, LogsHold, Reads

\* What was due to a connection is due to it still, as long as t leaves nothing out.
LEMMA ComingOthers ==
    ASSUME TypeInv, Placed, Homed, Carried, AllComing, Stable, LogsHold, ChansHold,
           NEW t \in Conn, Others(t), NEW s \in Conn \ disturbed',
           Served(s), auth'[s] = auth[s], Reached(s, "message") \subseteq Reached(s, "message")',
           NEW m \in messages, auth[s] \in Live(membersOf[channelOf[m]]),
           WillTell(t, m, auth[s]) => Coming(s, m)',
           s = t => (WillSee(t, channelOf[m]) \/ WillRead(t, m) => Coming(t, m)')
    PROVE  Coming(s, m)'
<1>1. Coming(s, m)
  BY DEF AllComing, Others
<1>2. PICK c : c = channelOf[m] /\ channelOf'[m] = c
  BY StoredHomed, NilAssumption DEF Stable
<1>3. CASE m \in Reached(s, "message")
  BY <1>3 DEF Coming
<1>4. ASSUME NEW r \in Conn, WillTell(r, m, auth[s]) PROVE Coming(s, m)'
  <2>1. CASE r = t
    BY <1>4, <2>1
  <2>2. CASE r # t
    <3>1. Still(r)
      BY <2>2 DEF Others
    <3>2. WillTell(r, m, auth[s])'
      BY <1>4, <3>1, TellStill
    <3> QED BY <3>2 DEF Coming
  <2> QED BY <2>1, <2>2
<1>5. CASE s # t
  <2>1. Still(s)
    BY <1>5 DEF Others
  <2>2. CASE WillSee(s, channelOf[m])
    <3>1. /\ frame'[s].at \in Replaying /\ frame'[s].uid = frame[s].uid
          /\ frame'[s].pos["channels"] = frame[s].pos["channels"]
          /\ frame'[s].end["channels"] = frame[s].end["channels"]
      BY <2>1, <2>2 DEF Still, WillSee
    <3>2. WillSee(s, c)'
      BY <1>2, <2>2, <3>1, SeeStill
    <3> QED BY <1>2, <3>2 DEF Coming
  <2>3. CASE WillRead(s, m)
    <3>1. WillRead(s, m)'
      BY <1>2, <2>1, <2>3, ReadStill DEF Still
    <3> QED BY <3>1 DEF Coming
  <2> QED BY <1>1, <1>3, <1>4, <2>2, <2>3 DEF Coming
<1>6. CASE s = t
  BY <1>1, <1>3, <1>4, <1>6 DEF Coming
<1> QED BY <1>5, <1>6

\* Members stay members.
LEMMA ComingKept ==
    ASSUME TypeInv, Placed, Homed, Stable,
           \A m \in messages' \ messages : \A s \in Conn : Coming(s, m)',
           \A s \in Conn \ disturbed' : Served(s)' => \A m \in messages :
               auth'[s] \in Live(membersOf[channelOf[m]]) => Coming(s, m)'
    PROVE  AllComing'
<1> SUFFICES ASSUME NEW s \in Conn \ disturbed', Served(s)', NEW m \in messages',
                    auth'[s] \in Live(membersOf'[channelOf'[m]])
             PROVE  Coming(s, m)'
  BY DEF AllComing
<1>1. CASE m \in messages
  <2>1. m \in Mid /\ channelOf[m] \in channels /\ channelOf[m] # Nil
    BY <1>1, StoredHomed, NilAssumption
  <2>2. channelOf'[m] = channelOf[m] /\ membersOf'[channelOf[m]] = membersOf[channelOf[m]]
    BY <2>1 DEF Stable
  <2> QED BY <1>1, <2>2
<1>2. CASE m \notin messages
  BY <1>2
<1> QED BY <1>1, <1>2

\* A step that leaves nothing out.
LEMMA ApartKeeps ==
    ASSUME TypeInv, Placed, Homed, Carried, AllComing, NEW t \in Conn, Apart(t), Others(t)
    PROVE  AllComing'
<1> SUFFICES ASSUME NEW s \in Conn \ disturbed', Served(s)', NEW m \in messages,
                    auth'[s] \in Live(membersOf[channelOf[m]])
             PROVE  Coming(s, m)'
  <2>1. Stable /\ messages' \ messages = {}
    BY DEF Apart
  <2> QED BY <2>1, ComingKept
<1>1. /\ Stable /\ LogsHold /\ ChansHold /\ Served(s) /\ auth'[s] = auth[s]
      /\ Reached(s, "message") \subseteq Reached(s, "message")'
  BY DEF Apart, MoreKnown
<1>2. PICK c : c = channelOf[m] /\ channelOf'[m] = c
  BY <1>1, StoredHomed, NilAssumption DEF Stable
<1>3. ASSUME WillTell(t, m, auth[s]) PROVE Coming(s, m)'
  <2>1. UNCHANGED frame
    <3>1. CASE frame[t].at = "append"
      BY <3>1 DEF Apart
    <3>2. CASE frame[t].at = "send notify"
      <4>1. More(t, "members")
        BY <1>3, <3>2, NoMore DEF WillTell, Level
      <4> QED BY <3>2, <4>1 DEF Apart
    <3> QED BY <1>3, <3>1, <3>2 DEF WillTell
  <2>2. Still(t)
    BY <2>1 DEF Still
  <2>3. WillTell(t, m, auth[s])'
    BY <1>1, <1>3, <2>2, TellStill
  <2> QED BY <1>1, <2>3 DEF Coming
<1>4. ASSUME s = t, WillSee(t, channelOf[m]) PROVE Coming(t, m)'
  <2>1. frame[t].at \in Replaying /\ More(t, "channels")
    BY <1>4, NoMore DEF WillSee, Level
  <2>2. /\ frame'[t].at \in Replaying /\ frame'[t].uid = frame[t].uid
        /\ frame'[t].pos["channels"] = frame[t].pos["channels"]
        /\ frame'[t].end["channels"] = frame[t].end["channels"]
    BY <2>1 DEF Apart
  <2>3. WillSee(t, c)'
    BY <1>1, <1>2, <1>4, <2>2, SeeStill
  <2> QED BY <1>2, <2>3 DEF Coming
<1>5. ASSUME s = t, WillRead(t, m) PROVE Coming(t, m)'
  <2>1. Reads(t) /\ More(t, "messages")
    BY <1>5, NoMore DEF WillRead, Level
  <2>2. UNCHANGED frame
    BY <2>1 DEF Apart
  <2>3. WillRead(t, m)'
    BY <1>1, <1>2, <1>5, <2>2, ReadStill
  <2> QED BY <2>3 DEF Coming
<1> QED BY <1>1, <1>3, <1>4, <1>5, ComingOthers

\* Who acts where a message is listed or told of, or where a replay reads.
LEMMA WhoActs ==
    ASSUME NEW t \in Conn, Ask(t) \/ Continue(t),
           frame[t].at \in {"append", "send notify", "login messages"}
    PROVE  \/ UNCHANGED frame
           \/ AppendMessage(t) \/ SendNotify(t) \/ LoginMessage(t)
           \/ Reads(t) /\ ~More(t, "messages")
<1>1. CASE Ask(t)
  BY <1>1 DEF Ask, Register, Login, DeleteAccount, ListAccounts, CreateChannel, SendMessage,
              DeleteMessage, Accept, Disconnect, Request
<1>2. CASE RegisterPassword(t) \/ RegisterUser(t) \/ LoginUser(t) \/ LoginChannel(t)
           \/ LoginFinished(t) \/ ListAccount(t) \/ ListFinished(t)
  BY <1>2 DEF RegisterPassword, RegisterUser, LoginUser, LoginChannel, LoginFinished,
              ListAccount, ListFinished, At
<1>3. CASE DeleteUser(t) \/ DeleteFromChannel(t) \/ DeleteFindMessage(t)
           \/ DeleteListedMessage(t) \/ DeleteNotify(t) \/ DeleteChannelFinished(t)
           \/ DeleteAccountFinished(t)
  BY <1>3 DEF DeleteUser, DeleteFromChannel, DeleteFindMessage, DeleteListedMessage,
              DeleteNotify, DeleteChannelFinished, DeleteAccountFinished, At
<1>4. CASE CreateMember(t) \/ CreateAnnounce(t) \/ CreateFinished(t) \/ RemoveText(t)
           \/ RemoveNotify(t) \/ Unlist(t)
  BY <1>4 DEF CreateMember, CreateAnnounce, CreateFinished, RemoveText, RemoveNotify, Unlist, At
<1>5. CASE DisconnectFinished(t) \/ QuitThread(t) \/ Dispatch(t)
  BY <1>5 DEF DisconnectFinished, QuitThread, Dispatch, At
<1>6. CASE LoginChannelReplayed(t)
  BY <1>6 DEF LoginChannelReplayed, At, Reads
<1> QED BY <1>1, <1>2, <1>3, <1>4, <1>5, <1>6 DEF Continue

\* No message is made, and what a replay has still to read stays.
LEMMA LogsKept ==
    ASSUME TypeInv, Deleting = {}, NEW t \in Conn, Ask(t) \/ Continue(t),
           ~AppendMessage(t), \A c \in Cid : ~SendMessage(t, c)
    PROVE  messages' \subseteq messages /\ LogsHold
<1>1. CASE Modest(t)
  BY <1>1 DEF Modest, texts, LogsHold
<1>2. CASE RegisterUser(t) \/ DeleteUser(t) \/ RemoveNotify(t)
  BY <1>2 DEF RegisterUser, DeleteUser, RemoveNotify, tables, rooms, texts, LogsHold
<1>3. CASE RemoveText(t)
  BY <1>3 DEF RemoveText, RemoveMessage, rooms, LogsHold
<1>4. CASE Unlist(t)
  <2>1. PICK c, x : c = frame[t].cid /\ x = frame[t].mid
    OBVIOUS
  <2>2. /\ frame[t].at = "unlist" /\ UNCHANGED messages /\ c \in Cid
        /\ ChannelRemoveMessage(c, x) /\ Erased(t, "messages", c, logOf[c], x)
    BY <1>4, <2>1 DEF Unlist, At, texts, TypeInv, FramesOK, Whole, HasCid
  <2>3. logOf[c] \in Vectors(Mid) /\ logOf'[c] = Erase(logOf[c], x)
        /\ \A d \in Cid \ {c} : logOf'[d] = logOf[d]
    BY <2>2 DEF ChannelRemoveMessage, TypeInv, TablesTypeOK
  <2>4. ASSUME NEW s \in Conn \ disturbed', Reads(s)
        PROVE  logOf'[frame[s].cid].cells = logOf[frame[s].cid].cells
    <3>1. frame[s].cid \in Cid /\ s # t
      BY <2>2, <2>4 DEF Reads, TypeInv, FramesOK, Whole, HasCid
    <3>2. CASE frame[s].cid # c
      BY <2>3, <3>1, <3>2
    <3>3. CASE frame[s].cid = c
      <4>1. s \in Walking("messages", c)
        BY <2>4, <3>3 DEF Walking, Reads
      <4>2. x \notin Live(logOf[c])
        BY <2>2, <2>4, <3>1, <4>1 DEF Erased
      <4>3. Erase(logOf[c], x).cells = logOf[c].cells
        BY <2>3, <4>2, EraseSame
      <4> QED BY <2>3, <3>3, <4>3
    <3> QED BY <3>2, <3>3
  <2> QED BY <2>2, <2>4 DEF LogsHold
<1>5. ~(\/ DeleteFromChannel(t) \/ DeleteFindMessage(t) \/ DeleteListedMessage(t)
        \/ DeleteNotify(t) \/ DeleteChannelFinished(t) \/ DeleteAccountFinished(t))
  BY DEF DeleteFromChannel, DeleteFindMessage, DeleteListedMessage, DeleteNotify,
         DeleteChannelFinished, DeleteAccountFinished, At, Deleting
<1>6. \/ Modest(t) \/ RegisterUser(t) \/ DeleteUser(t) \/ RemoveText(t) \/ RemoveNotify(t)
      \/ Unlist(t)
  BY <1>5, ModestSteps DEF Ask, Continue
<1> QED BY <1>1, <1>2, <1>3, <1>4, <1>6

\* A replay goes on where it was among the channels.
LEMMA ChansKept ==
    ASSUME TypeInv, ShowInv, NEW t \in Conn, CreateMember(t)
    PROVE  ChansHold
<1>0. PICK c, u : c = frame[t].cid /\ u = membersOf[c].cells[frame[t].pos["members"]]
  OBVIOUS
<1>1. CASE UNCHANGED chansOf
  BY <1>1 DEF ChansHold
<1>2. CASE u \in users /\ UserAddChannel(u, c)
  <2>1. u \in Uid /\ c \in Cid
    <3>1. frame[t].at = "create members"
      BY DEF CreateMember, At
    <3>2. c \in channels
      BY <1>0, <3>1 DEF ShowInv, Founded, Creating, Creates
    <3> QED BY <1>2, <3>2 DEF TypeInv, TablesTypeOK
  <2>2. chansOf'[u] = Push(chansOf[u], c) /\ chansOf[u] \in Vectors(Cid)
        /\ \A w \in Uid \ {u} : chansOf'[w] = chansOf[w]
    BY <1>2, <2>1 DEF UserAddChannel, TypeInv, TablesTypeOK
  <2> SUFFICES ASSUME NEW s \in Conn, frame[s].at \in Replaying,
                      NEW i \in frame[s].pos["channels"]..frame[s].end["channels"]
               PROVE  chansOf'[frame[s].uid].cells[i] = chansOf[frame[s].uid].cells[i]
    BY DEF ChansHold
  <2>3. PICK w, p, e : /\ w = frame[s].uid /\ p = frame[s].pos["channels"]
                       /\ e = frame[s].end["channels"]
    OBVIOUS
  <2>4. /\ w \in Uid /\ p \in Nat /\ e \in Nat /\ p >= 1 /\ e <= chansOf[w].len
        /\ chansOf[w].len \in Nat
    <3>1. Following(s)
      BY DEF ShowInv, AllFollowing
    <3>2. w \in Uid /\ p \in Nat /\ e \in Nat
      BY <2>3 DEF TypeInv, FramesOK, Frames, Level, Whole, HasUid, Replaying
    <3> QED BY <2>3, <3>1, <3>2 DEF Following, TypeInv, TablesTypeOK, Vectors
  <2>5. i \in 1..chansOf[w].len
    <3>1. PICK n \in Nat : n = chansOf[w].len
      BY <2>4
    <3>2. i \in p..e /\ p \in Nat /\ e \in Nat /\ p >= 1 /\ e <= n
      BY <2>3, <2>4, <3>1
    <3>3. i \in 1..n
      BY ONLY <3>1, <3>2
    <3> QED BY <3>1, <3>3
  <2>6. CASE w = u
    <3>1. Push(chansOf[u], c).cells[i] = chansOf[u].cells[i]
      BY <2>1, <2>2, <2>5, <2>6, PushKeeps
    <3> QED BY <2>2, <2>3, <2>6, <3>1
  <2>7. CASE w # u
    BY <2>2, <2>3, <2>4, <2>7
  <2> QED BY <2>6, <2>7
<1> QED BY <1>0, <1>1, <1>2 DEF CreateMember

\* What t writes or posts makes connections know more.
LEMMA WiresTell ==
    ASSUME TypeInv, NEW t \in Conn, Wires(t)
    PROVE  MoreKnown
BY WiresGrow DEF MoreKnown, Pushes

\* Every step but those of a login and of the sending of a message.
LEMMA ApartSteps ==
    ASSUME TypeInv, ShowInv, PrivInv, Deleting = {}, NEW t \in Conn, Ask(t) \/ Continue(t),
           LoginUser(t) => UNCHANGED frame,
           ~LoginChannel(t), ~LoginMessage(t), ~SendNotify(t), ~AppendMessage(t),
           \A c \in Cid : ~SendMessage(t, c)
    PROVE  Apart(t)
<1>1. messages' \subseteq messages /\ LogsHold
  BY LogsKept
<1>2. /\ frame[t].at = "append" => UNCHANGED frame
      /\ frame[t].at = "send notify" => UNCHANGED frame
      /\ Reads(t) => UNCHANGED frame \/ ~More(t, "messages")
  BY WhoActs DEF Reads
<1>3. CASE ~CreateMember(t) /\ ~CreateAnnounce(t)
  <2>1. Aside(t)
    BY <1>3, AsideSteps
  <2>2. Stable
    BY <1>3, DiscreetSteps DEF Discreet
  <2>3. MoreKnown /\ ChansHold
    BY <2>1, WiresTell DEF Aside, ChansHold
  <2>4. frame[t].at \in Replaying =>
          \/ ~More(t, "channels")
          \/ /\ frame'[t].at \in Replaying /\ frame'[t].uid = frame[t].uid
             /\ frame'[t].pos["channels"] = frame[t].pos["channels"]
             /\ frame'[t].end["channels"] = frame[t].end["channels"]
    BY <2>1 DEF Aside
  <2> QED BY <1>1, <1>2, <2>2, <2>3, <2>4 DEF Apart
<1>4. CASE CreateMember(t)
  <2>1. frame[t].at = "create members" /\ UNCHANGED <<link, auth, queue, out>>
    BY <1>4 DEF CreateMember, At
  <2>2. MoreKnown
    BY <2>1, NoWireQuiet, WiresTell DEF Wires
  <2>3. Stable /\ ChansHold
    BY <1>4, RoomsStable, ChansKept DEF CreateMember, texts
  <2> QED BY <1>1, <1>2, <2>1, <2>2, <2>3 DEF Apart, Replaying
<1>5. CASE CreateAnnounce(t)
  <2>1. PICK c, u : c = frame[t].cid /\ u = frame[t].uid
    OBVIOUS
  <2>2. /\ frame[t].at = "create announce" /\ c \in channels /\ u \in Uid
        /\ UNCHANGED <<chansOf, channels, membersOf, channelOf>>
    <3>1. frame[t].at = "create announce"
      BY <1>5 DEF CreateAnnounce, At
    <3> QED BY <1>5, <2>1, <3>1
            DEF CreateAnnounce, tables, rooms, texts, ShowInv, Founded, Creating, Creates,
                TypeInv, FramesOK, Whole, HasUid
  <2> DEFINE packet == Packet("channel", {c})
  <2>3. packet \in Packets /\ packet.kind \in Pushes
    <3>1. c \in Uid \cup Cid \cup Mid /\ "channel" \in Kinds
      BY <2>2 DEF TypeInv, TablesTypeOK, Kinds
    <3> QED BY <3>1, OneType DEF Packet, Pushes
  <2>4. Emits(t, u, packet)
    BY <1>5, <2>1 DEF CreateAnnounce, Emits
  <2> HIDE DEF packet
  <2>5. MoreKnown
    BY <2>2, <2>3, <2>4, WiresTell DEF Wires
  <2>6. Stable /\ ChansHold
    BY <2>2, RoomsStable DEF ChansHold
  <2> QED BY <1>1, <1>2, <2>2, <2>5, <2>6 DEF Apart, Replaying
<1> QED BY <1>3, <1>4, <1>5

\* What is in the table and in no list is about to be listed.
LEMMA NewKept ==
    ASSUME NewOrListed, NEW t \in Conn, Others(t), messages' \subseteq messages,
           UNCHANGED channelOf, UNCHANGED frame \/ frame[t].at # "append",
           \A m \in messages' : m \in Live(logOf[channelOf[m]]) => m \in Live(logOf'[channelOf[m]])
    PROVE  NewOrListed'
<1> SUFFICES ASSUME NEW m \in messages'
             PROVE  m \in Live(logOf'[channelOf[m]]) \/ \E s \in Conn : Appends(s, m)'
  BY DEF NewOrListed
<1>1. ASSUME NEW s \in Conn, Appends(s, m) PROVE Appends(s, m)'
  BY <1>1 DEF Appends, Others, Still
<1> QED BY <1>1 DEF NewOrListed

\* Every step, while no account is deleted.
LEMMA NewNext ==
    ASSUME TypeInv, Placed, ListInv, StoreInv, NewOrListed, Deleting = {}, [Next]_vars
    PROVE  NewOrListed'
<1>1. ASSUME NEW t \in Conn, Ask(t) \/ Continue(t) PROVE NewOrListed'
  <2>1. Others(t)
    BY <1>1, OtherThreads
  <2>2. CASE Modest(t)
    BY <2>1, <2>2, NewKept DEF Modest, texts, Lists
  <2>3. CASE RegisterUser(t) \/ DeleteUser(t) \/ RemoveNotify(t)
    <3>1. UNCHANGED <<logOf, messages, channelOf>> /\ frame[t].at # "append"
      BY <2>3 DEF RegisterUser, DeleteUser, RemoveNotify, At, tables, rooms, texts
    <3> QED BY <2>1, <3>1, NewKept
  <2>4. CASE RemoveText(t)
    <3>1. UNCHANGED <<logOf, channelOf>> /\ messages' \subseteq messages /\ frame[t].at # "append"
      BY <2>4 DEF RemoveText, RemoveMessage, At, rooms
    <3> QED BY <2>1, <3>1, NewKept
  <2>5. CASE Unlist(t)
    <3>1. PICK c, x : c = frame[t].cid /\ x = frame[t].mid
      OBVIOUS
    <3>2. /\ frame[t].at = "unlist" /\ UNCHANGED <<messages, channelOf>> /\ c \in Cid
          /\ ChannelRemoveMessage(c, x) /\ x \notin messages
      BY <2>5, <3>1 DEF Unlist, At, texts, TypeInv, FramesOK, Whole, HasCid, StoreInv, Gone, Removing
    <3>3. logOf[c] \in Vectors(Mid) /\ logOf'[c] = Erase(logOf[c], x)
          /\ \A d \in Cid \ {c} : logOf'[d] = logOf[d]
      BY <3>2 DEF ChannelRemoveMessage, TypeInv, TablesTypeOK
    <3>4. Live(logOf'[c]) = Live(logOf[c]) \ {x}
      BY <3>3, EraseLive
    <3>5. ASSUME NEW m \in messages', m \in Live(logOf[channelOf[m]])
          PROVE  m \in Live(logOf'[channelOf[m]])
      <4>1. channelOf[m] \in Cid /\ m # x
        BY <3>2 DEF TypeInv, TablesTypeOK, Placed
      <4> QED BY <3>3, <3>4, <3>5, <4>1
    <3> QED BY <2>1, <3>2, <3>5, NewKept
  <2>6. ASSUME NEW c \in Cid, SendMessage(t, c) PROVE NewOrListed'
    <3>1. PICK x \in NextSnowflake :
              /\ AddMessage(x, auth[t], c)
              /\ frame' = [frame EXCEPT ![t].at = "append", ![t].cid = c, ![t].mid = x]
      BY <2>6 DEF SendMessage
    <3>2. /\ x \in Mid /\ channelOf[x] = Nil /\ messages' = messages \cup {x} /\ UNCHANGED logOf
          /\ \A m \in Mid \ {x} : channelOf'[m] = channelOf[m]
          /\ frame[t].at = "idle"
      BY <2>6, <3>1 DEF NextSnowflake, FreeMids, AddMessage, SendMessage, Request, rooms, TypeInv,
                        TablesTypeOK
    <3>3. Appends(t, x)'
      BY <3>1 DEF Appends, TypeInv, FramesOK, Frames
    <3>4. ASSUME NEW m \in messages, m # x
          PROVE  m \in Live(logOf'[channelOf'[m]]) \/ \E s \in Conn : Appends(s, m)'
      <4>1. channelOf'[m] = channelOf[m]
        BY <3>2, <3>4 DEF TypeInv, TablesTypeOK
      <4>2. ASSUME NEW s \in Conn, Appends(s, m) PROVE Appends(s, m)'
        BY <2>1, <3>2, <4>2 DEF Appends, Others, Still
      <4> QED BY <3>2, <4>1, <4>2 DEF NewOrListed
    <3> QED BY <3>2, <3>3, <3>4 DEF NewOrListed
  <2>7. CASE AppendMessage(t)
    <3>1. PICK c, x : c = frame[t].cid /\ x = frame[t].mid
      OBVIOUS
    <3>2. /\ frame[t].at = "append" /\ UNCHANGED <<messages, channelOf>> /\ c \in Cid /\ x \in Mid
          /\ ChannelAddMessage(c, x) /\ channelOf[x] = c
      BY <2>7, <3>1 DEF AppendMessage, At, texts, TypeInv, FramesOK, Whole, HasCid, HasMid,
                        ListInv, SecretInv, Carried
    <3>3. logOf[c] \in Vectors(Mid) /\ logOf'[c] = Push(logOf[c], x)
          /\ \A d \in Cid \ {c} : logOf'[d] = logOf[d]
      BY <3>2 DEF ChannelAddMessage, TypeInv, TablesTypeOK
    <3>4. Live(logOf'[c]) = Live(logOf[c]) \cup {x}
      BY <3>2, <3>3, PushLive
    <3> SUFFICES ASSUME NEW m \in messages
                 PROVE  m \in Live(logOf'[channelOf[m]]) \/ \E s \in Conn : Appends(s, m)'
      BY <3>2 DEF NewOrListed
    <3>5. channelOf[m] \in Cid
      BY DEF TypeInv, TablesTypeOK, Placed
    <3>6. CASE m \in Live(logOf[channelOf[m]])
      BY <3>3, <3>4, <3>5, <3>6
    <3>7. ASSUME NEW s \in Conn, Appends(s, m), s # t PROVE Appends(s, m)'
      BY <2>1, <3>7 DEF Appends, Others, Still
    <3>8. CASE m = x
      BY <3>2, <3>4, <3>8
    <3> QED BY <3>1, <3>6, <3>7, <3>8 DEF NewOrListed, Appends
  <2>8. ~(\/ DeleteFromChannel(t) \/ DeleteFindMessage(t) \/ DeleteListedMessage(t)
          \/ DeleteNotify(t) \/ DeleteChannelFinished(t) \/ DeleteAccountFinished(t))
    BY DEF DeleteFromChannel, DeleteFindMessage, DeleteListedMessage, DeleteNotify,
           DeleteChannelFinished, DeleteAccountFinished, At, Deleting
  <2>9. \/ Modest(t) \/ RegisterUser(t) \/ DeleteUser(t) \/ RemoveText(t) \/ RemoveNotify(t)
        \/ Unlist(t) \/ AppendMessage(t) \/ \E c \in Cid : SendMessage(t, c)
    BY <1>1, <2>8, ModestSteps DEF Ask, Continue
  <2> QED BY <2>2, <2>3, <2>4, <2>5, <2>6, <2>7, <2>9
<1>2. CASE UNCHANGED vars
  BY <1>2 DEF vars, tables, rooms, texts, threads, NewOrListed, Appends
<1> QED BY <1>1, <1>2 DEF Next, Rest

\* A new message: its sender has still to list it.
LEMMA SendMessageComing ==
    ASSUME TypeInv, Placed, ListInv, PrivInv, AllComing, Deleting = {}, NEW t \in Conn,
           NEW c \in Cid, SendMessage(t, c), Others(t)
    PROVE  AllComing'
<1>1. PICK x \in NextSnowflake :
          /\ AddMessage(x, auth[t], c)
          /\ frame' = [frame EXCEPT ![t].at = "append", ![t].cid = c, ![t].mid = x]
  BY DEF SendMessage
<1>2. /\ frame[t].at = "idle" /\ UNCHANGED <<link, auth, queue, out>> /\ messages' = messages \cup {x}
      /\ UNCHANGED <<chansOf, logOf>>
  BY <1>1 DEF SendMessage, Request, AddMessage, rooms
<1>3. Stable
  <2>1. ~LoginUser(t) /\ ~LoginChannel(t) /\ ~LoginMessage(t) /\ ~CreateAnnounce(t) /\ ~SendNotify(t)
    BY <1>2 DEF LoginUser, LoginChannel, LoginMessage, CreateAnnounce, SendNotify, At
  <2> QED BY <2>1, DiscreetSteps DEF Ask, Discreet
<1>4. Homed /\ Carried /\ MoreKnown /\ LogsHold /\ ChansHold
  BY <1>2, NoWireQuiet, WiresTell DEF PrivInv, ListInv, SecretInv, Wires, LogsHold, ChansHold
<1>5. ASSUME NEW m \in messages' \ messages, NEW s \in Conn PROVE Coming(s, m)'
  <2>1. m = x /\ frame'[t].at = "append" /\ frame'[t].mid = x
    BY <1>1, <1>2 DEF TypeInv, FramesOK, Frames
  <2>2. WillTell(t, m, auth[s])'
    BY <2>1 DEF WillTell
  <2> QED BY <2>2 DEF Coming
<1>6. ASSUME NEW s \in Conn \ disturbed', Served(s)', NEW m \in messages,
             auth'[s] \in Live(membersOf[channelOf[m]])
      PROVE  Coming(s, m)'
  <2>1. /\ Served(s) /\ auth'[s] = auth[s]
        /\ Reached(s, "message") \subseteq Reached(s, "message")'
    BY <1>4, <1>6 DEF MoreKnown
  <2>2. ~WillTell(t, m, auth[s]) /\ ~WillSee(t, channelOf[m]) /\ ~WillRead(t, m)
    BY <1>2 DEF WillTell, WillSee, Replaying, WillRead, Reads
  <2> QED BY <1>3, <1>4, <1>6, <2>1, <2>2, ComingOthers
<1> QED BY <1>3, <1>4, <1>5, <1>6, ComingKept

\* push_back leaves a replay what it has still to read, or disturbs it.
LEMMA AppendedLogs ==
    ASSUME TypeInv, ListInv, NEW t \in Conn, AppendMessage(t)
    PROVE  LogsHold
<1>1. PICK c, x, v : c = frame[t].cid /\ x = frame[t].mid /\ v = logOf[c]
  OBVIOUS
<1>2. /\ frame[t].at = "append" /\ c \in Cid /\ x \in Mid
      /\ ChannelAddMessage(c, x)
  BY <1>1 DEF AppendMessage, At, TypeInv, FramesOK, Whole, HasCid, HasMid
<1>3. v \in Vectors(Mid) /\ logOf'[c] = Push(v, x) /\ v.len \in Nat
      /\ \A d \in Cid \ {c} : logOf'[d] = logOf[d]
  BY <1>1, <1>2 DEF ChannelAddMessage, TypeInv, TablesTypeOK, Vectors
<1>4. PICK f : Pushed(t, f, "messages", c, v)
  BY <1>1 DEF AppendMessage
<1> SUFFICES ASSUME NEW s \in Conn \ disturbed', Reads(s),
                    NEW i \in frame[s].pos["messages"]..frame[s].end["messages"]
             PROVE  logOf'[frame[s].cid].cells[i] = logOf[frame[s].cid].cells[i]
  BY DEF LogsHold
<1>5. PICK d, p, e : d = frame[s].cid /\ p = frame[s].pos["messages"] /\ e = frame[s].end["messages"]
  OBVIOUS
<1>6. d \in Cid /\ p \in Nat /\ e \in Nat /\ p >= 1
  BY <1>5 DEF Reads, TypeInv, FramesOK, Frames, Level, Whole, HasCid, ListInv, Reading
<1>7. CASE d = c
  <2>1. s \in Walking("messages", c)
    BY <1>5, <1>7 DEF Walking, Reads
  <2>2. ~(e > v.len)
    BY <1>4, <1>5, <2>1 DEF Pushed
  <2>3. i \in 1..v.len
    <3>1. PICK n \in Nat : n = v.len
      BY <1>3
    <3>2. i \in p..e /\ ~(e > n)
      BY <1>5, <2>2, <3>1
    <3>3. i \in 1..n
      BY ONLY <1>6, <3>1, <3>2
    <3> QED BY <3>1, <3>3
  <2>4. Push(v, x).cells[i] = v.cells[i]
    BY <1>2, <1>3, <2>3, PushKeeps
  <2> QED BY <1>1, <1>3, <1>5, <1>7, <2>4
<1>8. CASE d # c
  BY <1>3, <1>5, <1>6, <1>8
<1> QED BY <1>7, <1>8

\* The message is listed, and the loop over the members of its channel begins.
LEMMA AppendMessageComing ==
    ASSUME TypeInv, Placed, ListInv, PrivInv, AllComing, Deleting = {}, NEW t \in Conn,
           AppendMessage(t), Others(t)
    PROVE  AllComing'
<1>1. PICK c, x, v : c = frame[t].cid /\ x = frame[t].mid /\ v = membersOf[c]
  OBVIOUS
<1> DEFINE f == Loop([frame[t] EXCEPT !.at = "send notify"], "members", membersOf[frame[t].cid])
<1>2. /\ frame[t].at = "append" /\ c \in Cid /\ x \in Mid /\ channelOf[x] = c
      /\ UNCHANGED <<messages, channels, membersOf, channelOf, chansOf, link, auth, queue, out>>
  BY <1>1 DEF AppendMessage, At, texts, TypeInv, FramesOK, Whole, HasCid, HasMid, ListInv,
              SecretInv, Carried
<1>3. /\ f.at = "send notify" /\ f.cid = c /\ f.mid = x
      /\ f.pos["members"] = 1 /\ f.end["members"] = v.len
  BY <1>1 DEF Loop, TypeInv, FramesOK, Frames, Level
<1>4. frame'[t] = f
  BY DEF AppendMessage, Pushed
<1> HIDE DEF f
<1>5. /\ Stable /\ Homed /\ Carried /\ MoreKnown /\ LogsHold /\ ChansHold
  BY <1>2, RoomsStable, NoWireQuiet, WiresTell, AppendedLogs
  DEF PrivInv, ListInv, SecretInv, Wires, ChansHold
<1>6. ASSUME NEW s \in Conn \ disturbed', Served(s)', NEW m \in messages,
             auth'[s] \in Live(membersOf[channelOf[m]])
      PROVE  Coming(s, m)'
  <2>1. /\ Served(s) /\ auth'[s] = auth[s]
        /\ Reached(s, "message") \subseteq Reached(s, "message")'
    BY <1>5, <1>6 DEF MoreKnown
  <2>2. ~WillSee(t, channelOf[m]) /\ ~WillRead(t, m)
    BY <1>2 DEF WillSee, Replaying, WillRead, Reads
  <2>3. ASSUME WillTell(t, m, auth[s]) PROVE Coming(s, m)'
    <3>1. m = x
      BY <1>1, <2>3 DEF WillTell
    <3>2. PICK i \in 1..v.len : auth[s] = v.cells[i]
      BY <1>1, <1>2, <1>6, <3>1 DEF Live
    <3>3. WillTell(t, m, auth[s])'
      BY <1>1, <1>2, <1>3, <1>4, <3>1, <3>2 DEF WillTell
    <3> QED BY <3>3 DEF Coming
  <2> QED BY <1>5, <1>6, <2>1, <2>2, <2>3, ComingOthers
<1>7. messages' \ messages = {}
  BY <1>2
<1> QED BY <1>5, <1>6, <1>7, ComingKept

\* The next member of the channel is told, or the loop is over.
LEMMA SendNotifyComing ==
    ASSUME TypeInv, Placed, AccountInv, ListInv, PrivInv, AllComing, NEW t \in Conn,
           SendNotify(t), Others(t)
    PROVE  AllComing'
<1>1. PICK c, x, p, e, v : /\ c = frame[t].cid /\ x = frame[t].mid /\ v = membersOf[c]
                           /\ p = frame[t].pos["members"] /\ e = frame[t].end["members"]
  OBVIOUS
<1>2. /\ frame[t].at = "send notify" /\ c \in Cid /\ x \in Mid
      /\ p \in Nat /\ e \in Nat
      /\ UNCHANGED <<messages, channels, membersOf, channelOf, chansOf, logOf, link, auth, disturbed>>
  <2>1. frame[t].at = "send notify"
    BY DEF SendNotify, At
  <2>2. UNCHANGED <<messages, channels, membersOf, channelOf, chansOf, logOf, link, auth, disturbed>>
    BY DEF SendNotify, tables, rooms, texts
  <2> QED BY <1>1, <2>1, <2>2 DEF TypeInv, FramesOK, Frames, Level, Whole, HasCid, HasMid
<1>3. Stable /\ Homed /\ Carried /\ LogsHold /\ ChansHold
  BY <1>2, RoomsStable DEF PrivInv, ListInv, SecretInv, LogsHold, ChansHold
<1>4. CASE ~More(t, "members") /\ UNCHANGED <<out, queue>>
  <2>1. MoreKnown
    BY <1>2, <1>4, NoWireQuiet, WiresTell DEF Wires
  <2>2. Apart(t)
    BY <1>2, <1>3, <1>4, <2>1 DEF Apart, Replaying, Reads
  <2> QED BY <1>3, <2>2, ApartKeeps
<1> DEFINE packet == Packet("message", {x})
           h == Advance(frame[t], "members")
<1>5. CASE NotifyMember(t, packet)
  <2>1. MoreKnown
    <3>1. Wires(t)
      BY <1>1, <1>2, <1>5, NotifyAside DEF Pushes
    <3> QED BY <3>1, WiresTell
  <2>2. PICK u : u = v.cells[p]
    OBVIOUS
  <2>3. /\ h.at = frame[t].at /\ h.cid = c /\ h.mid = x /\ h.end = frame[t].end
        /\ h.pos["members"] = p + 1
    <3>1. frame[t] \in Frames /\ "members" \in Level
      BY DEF TypeInv, FramesOK, Level
    <3> QED BY <1>1, <3>1, AdvanceFacts
  <2>4. frame'[t] = h
    BY <1>5 DEF NotifyMember, TypeInv, FramesOK
  <2> HIDE DEF h
  <2>5. u \in users => u \in Uid /\ Emits(t, u, packet)
    BY <1>1, <1>2, <1>5, <2>2 DEF NotifyMember, Emits, TypeInv, TablesTypeOK
  <2>6. packet \in Packets /\ Adds(packet, "message") = {x}
    BY <1>2, OneType DEF Kinds, Packet, Adds
  <2> HIDE DEF packet
  <2>7. ASSUME NEW s \in Conn \ disturbed', Served(s)', NEW m \in messages,
               auth'[s] \in Live(membersOf[channelOf[m]])
        PROVE  Coming(s, m)'
    <3>1. /\ Served(s) /\ auth'[s] = auth[s]
          /\ Reached(s, "message") \subseteq Reached(s, "message")'
      BY <2>1, <2>7 DEF MoreKnown
    <3>2. ~WillSee(t, channelOf[m]) /\ ~WillRead(t, m)
      BY <1>2 DEF WillSee, Replaying, WillRead, Reads
    <3>3. ASSUME WillTell(t, m, auth[s]) PROVE Coming(s, m)'
      <4>1. m = x
        BY <1>1, <3>3 DEF WillTell
      <4>2. PICK i \in p..e : v.cells[i] = auth[s]
        BY <1>1, <1>2, <3>3 DEF WillTell
      <4>3. CASE i = p
        <5>1. u = auth[s] /\ u \in users
          BY <2>2, <3>1, <4>2, <4>3 DEF AccountInv, Served
        <5>2. Reached(s, "message")' = Reached(s, "message")
                                        \cup (IF auth[s] = u THEN Adds(packet, "message") ELSE {})
          BY <2>5, <2>6, <5>1, EmitsFacts
        <5> QED BY <2>6, <4>1, <5>1, <5>2 DEF Coming
      <4>4. CASE i # p
        <5>1. i \in (p + 1)..e
          <6>1. p \in Nat /\ e \in Nat /\ i \in p..e /\ i # p
            BY <1>2, <4>2, <4>4
          <6> QED BY ONLY <6>1
        <5>2. WillTell(t, m, auth[s])'
          BY <1>1, <1>2, <2>3, <2>4, <4>1, <4>2, <5>1 DEF WillTell
        <5> QED BY <5>2 DEF Coming
      <4> QED BY <4>3, <4>4
    <3> QED BY <1>3, <2>7, <3>1, <3>2, <3>3, ComingOthers
  <2>8. messages' \ messages = {}
    BY <1>2
  <2> QED BY <1>3, <2>7, <2>8, ComingKept
<1> QED BY <1>1, <1>4, <1>5 DEF SendNotify

\* A login that finds its user: every channel of the user is still to be replayed.
LEMMA LoginUserComing ==
    ASSUME TypeInv, Placed, ListInv, RoomInv, PrivInv, NoneEarly, AllComing, NEW t \in Conn,
           LoginUser(t), ~UNCHANGED frame, Others(t)
    PROVE  AllComing'
<1>1. PICK u : u = frame[t].uid
  OBVIOUS
<1> DEFINE f == Loop([frame[t] EXCEPT !.at = "login channels"], "channels", chansOf[u])
<1>2. /\ u \in users /\ u \in Uid /\ auth' = [auth EXCEPT ![t] = u] /\ frame'[t] = f
      /\ Write(t, Packet("login", {u})) /\ frame[t].at = "login user"
      /\ UNCHANGED <<messages, channels, membersOf, channelOf, chansOf, logOf, link, queue>>
  BY <1>1 DEF LoginUser, At, tables, rooms, texts, TypeInv, FramesOK, TablesTypeOK
<1>3. /\ f.at = "login channels" /\ f.uid = u
      /\ f.pos["channels"] = 1 /\ f.end["channels"] = chansOf[u].len
  BY <1>1 DEF Loop, TypeInv, FramesOK, Frames, Level
<1> HIDE DEF f
<1>4. Stable /\ Homed /\ Carried /\ LogsHold /\ ChansHold
  BY <1>2, RoomsStable DEF PrivInv, ListInv, SecretInv, LogsHold, ChansHold
<1>5. ASSUME NEW s \in Conn \ disturbed', Served(s)', NEW m \in messages,
             auth'[s] \in Live(membersOf[channelOf[m]])
      PROVE  Coming(s, m)'
  <2>1. CASE s # t
    <3>1. out'[s] = out[s] /\ queue'[s] = queue[s] /\ auth'[s] = auth[s] /\ link'[s] = link[s]
      BY <1>2, <2>1 DEF Write, TypeInv, WiresOK
    <3>2. Served(s) /\ Reached(s, "message")' = Reached(s, "message")
      BY <1>5, <3>1, ReachedSame DEF Served, On
    <3>3. ~WillTell(t, m, auth[s])
      BY <1>2 DEF WillTell
    <3> QED BY <1>4, <1>5, <2>1, <3>1, <3>2, <3>3, ComingOthers
  <2>2. CASE s = t
    <3>1. PICK c : c = channelOf[m] /\ c \in channels /\ channelOf'[m] = c
      BY <1>2, <1>4, StoredHomed
    <3>2. u \in Live(membersOf[c])
      BY <1>2, <1>5, <2>2, <3>1 DEF TypeInv, WiresOK
    <3>3. c \in Live(chansOf[u])
      <4>1. \A r \in Conn : ~Joins(r, c, u)
        BY <3>1 DEF NoneEarly, Joins
      <4> QED BY <3>1, <3>2, <4>1 DEF RoomInv, HallInv, Joined
    <3>4. PICK i \in 1..chansOf[u].len : chansOf[u].cells[i] = c
      BY <3>3 DEF Live
    <3>5. WillSee(t, c)'
      BY <1>2, <1>3, <3>4 DEF WillSee, Replaying
    <3> QED BY <2>2, <3>1, <3>5 DEF Coming
  <2> QED BY <2>1, <2>2
<1>6. messages' \ messages = {}
  BY <1>2
<1> QED BY <1>4, <1>5, <1>6, ComingKept

\* A login turns to its next channel: every message of it is still to be read, or told of.
LEMMA LoginChannelComing ==
    ASSUME TypeInv, Placed, ListInv, ShowInv, PrivInv, NewOrListed, AllComing, NEW t \in Conn,
           LoginChannel(t), Others(t)
    PROVE  AllComing'
<1>1. PICK u, p, e, v : /\ u = frame[t].uid /\ v = chansOf[u]
                        /\ p = frame[t].pos["channels"] /\ e = frame[t].end["channels"]
  OBVIOUS
<1>2. /\ frame[t].at = "login channels" /\ p <= e /\ p \in Nat /\ e \in Nat /\ u \in Uid
      /\ p >= 1 /\ e <= v.len /\ v.len \in Nat
      /\ UNCHANGED <<messages, channels, membersOf, channelOf, chansOf, logOf, link, auth, queue>>
  <2>1. frame[t].at = "login channels" /\ p <= e
    BY <1>1 DEF LoginChannel, At, More
  <2>2. u \in Uid /\ p \in Nat /\ e \in Nat
    BY <1>1, <2>1 DEF TypeInv, FramesOK, Frames, Level, Whole, HasUid
  <2>3. p >= 1 /\ e <= v.len
    BY <1>1, <2>1 DEF ShowInv, AllFollowing, Replaying, Following
  <2>4. v.len \in Nat
    BY <1>1, <2>2 DEF TypeInv, TablesTypeOK, Vectors
  <2> QED BY <2>1, <2>2, <2>3, <2>4 DEF LoginChannel, tables, rooms, texts
<1>3. PICK c \in Cell(t, "channels", chansOf, u) :
        \/ c \notin channels /\ frame'[t] = Advance(frame[t], "channels") /\ UNCHANGED out
        \/ c \in channels /\ frame'[t] = Replay(frame[t], c) /\ Write(t, Packet("channel", {c}))
  BY <1>1 DEF LoginChannel, Replay, TypeInv, FramesOK
<1>4. Stable /\ Homed /\ Carried /\ LogsHold /\ ChansHold
  BY <1>2, RoomsStable DEF PrivInv, ListInv, SecretInv, LogsHold, ChansHold
<1>5. MoreKnown
  <2>1. CASE UNCHANGED out
    BY <1>2, <2>1, NoWireQuiet, WiresTell DEF Wires
  <2>2. CASE c \in channels /\ Write(t, Packet("channel", {c}))
    <3> DEFINE packet == Packet("channel", {c})
    <3>1. packet \in Packets /\ packet.kind \in Pushes
      <4>1. c \in Uid \cup Cid \cup Mid /\ "channel" \in Kinds
        BY <2>2 DEF TypeInv, TablesTypeOK, Kinds
      <4> QED BY <4>1, OneType DEF Packet, Pushes
    <3>2. Sends(t, packet)
      BY <1>2, <2>2 DEF Sends
    <3> HIDE DEF packet
    <3> QED BY <3>1, <3>2, WiresTell DEF Wires
  <2> QED BY <1>3, <2>1, <2>2
<1>6. ASSUME t \notin disturbed
      PROVE  c = v.cells[p] /\ c \in channels
  <2>1. frame[t].loose = {}
    BY <1>6 DEF ShowInv, LooseInv
  <2>2. c = v.cells[p]
    BY <1>1, <1>3, <2>1 DEF Cell
  <2>3. p \in 1..v.len
    <3>1. PICK n \in Nat : n = v.len
      BY <1>2
    <3>2. p \in Nat /\ e \in Nat /\ p >= 1 /\ p <= e /\ e <= n
      BY <1>2, <3>1
    <3>3. p \in 1..n
      BY ONLY <3>1, <3>2
    <3> QED BY <3>1, <3>3
  <2> QED BY <1>1, <1>2, <2>2, <2>3 DEF ShowInv, ChansWhole, Live
<1> DEFINE g == Replay(frame[t], c)
<1>7. /\ g.at = "login messages" /\ g.cid = c /\ g.uid = u
      /\ g.pos["channels"] = p + 1 /\ g.end["channels"] = e
      /\ g.pos["messages"] = 1 /\ g.end["messages"] = logOf[c].len
  <2>1. frame[t] \in Frames
    BY DEF TypeInv, FramesOK
  <2>2. /\ g.at = "login messages" /\ g.cid = c /\ g.uid = frame[t].uid
        /\ g.end["channels"] = frame[t].end["channels"]
    BY <2>1, ReplayFacts
  <2>3. g.pos["channels"] = frame[t].pos["channels"] + 1
    BY <2>1, ReplayFacts
  <2>4. g.pos["messages"] = 1
    BY <2>1, ReplayFacts
  <2>5. g.end["messages"] = logOf[c].len
    BY <2>1, ReplayEnd
  <2> HIDE DEF g
  <2> QED BY <1>1, <2>2, <2>3, <2>4, <2>5
<1>8. c \in channels => frame'[t] = g
  BY <1>3
<1> HIDE DEF g
<1>9. ASSUME NEW m \in messages, t \notin disturbed, WillSee(t, channelOf[m])
      PROVE  Coming(t, m)'
  <2>1. PICK d : d = channelOf[m] /\ channelOf'[m] = d
    BY <1>2
  <2>2. PICK i \in p..e : v.cells[i] = d
    BY <1>1, <1>9, <2>1 DEF WillSee
  <2>3. frame'[t] = g /\ c = v.cells[p]
    BY <1>6, <1>8, <1>9
  <2>4. CASE i = p
    <3>1. c = d
      BY <2>2, <2>3, <2>4
    <3>2. CASE m \in Live(logOf[c])
      <4>1. PICK j \in 1..logOf[c].len : logOf[c].cells[j] = m
        BY <3>2 DEF Live
      <4>2. WillRead(t, m)'
        BY <1>2, <1>7, <2>1, <2>3, <3>1, <4>1 DEF WillRead, Reads
      <4> QED BY <4>2 DEF Coming
    <3>3. ASSUME NEW s \in Conn, Appends(s, m) PROVE Coming(t, m)'
      <4>1. Still(s) /\ frame[s].at = "append" /\ frame[s].mid = m
        BY <1>2, <3>3 DEF Others, Appends
      <4>2. WillTell(s, m, auth[t])'
        BY <4>1 DEF Still, WillTell
      <4> QED BY <4>2 DEF Coming
    <3> QED BY <2>1, <3>1, <3>2, <3>3 DEF NewOrListed
  <2>5. CASE i # p
    <3>1. i \in (p + 1)..e
      <4>1. p \in Nat /\ e \in Nat /\ i \in p..e /\ i # p
        BY <1>2, <2>2, <2>5
      <4> QED BY ONLY <4>1
    <3>2. WillSee(t, d)'
      BY <1>1, <1>2, <1>7, <2>2, <2>3, <3>1 DEF WillSee, Replaying
    <3> QED BY <2>1, <3>2 DEF Coming
  <2> QED BY <2>4, <2>5
<1>10. ASSUME NEW s \in Conn \ disturbed', Served(s)', NEW m \in messages,
              auth'[s] \in Live(membersOf[channelOf[m]])
       PROVE  Coming(s, m)'
  <2>1. /\ Served(s) /\ auth'[s] = auth[s]
        /\ Reached(s, "message") \subseteq Reached(s, "message")'
    BY <1>5, <1>10 DEF MoreKnown
  <2>2. ~WillTell(t, m, auth[s]) /\ ~WillRead(t, m)
    BY <1>2 DEF WillTell, WillRead, Reads
  <2>3. s \notin disturbed
    BY DEF Others
  <2> QED BY <1>4, <1>9, <1>10, <2>1, <2>2, <2>3, ComingOthers
<1>11. messages' \ messages = {}
  BY <1>2
<1> QED BY <1>4, <1>10, <1>11, ComingKept

\* A login writes the message its loop is at.
LEMMA LoginMessageComing ==
    ASSUME TypeInv, Placed, ListInv, ShowInv, PrivInv, AllComing, NEW t \in Conn,
           LoginMessage(t), Others(t)
    PROVE  AllComing'
<1>1. PICK c, p, e, w : /\ c = frame[t].cid /\ w = logOf[c].cells
                        /\ p = frame[t].pos["messages"] /\ e = frame[t].end["messages"]
  OBVIOUS
<1>2. /\ frame[t].at = "login messages" /\ p \in Nat /\ e \in Nat
      /\ UNCHANGED <<messages, channels, membersOf, channelOf, chansOf, logOf, link, auth, queue>>
  BY <1>1 DEF LoginMessage, At, tables, rooms, texts, TypeInv, FramesOK, Frames, Level
<1>3. PICK x \in Cell(t, "messages", logOf, c) :
        \/ x \in messages /\ Write(t, Packet("message", {x}))
        \/ x \notin messages /\ UNCHANGED out
  BY <1>1 DEF LoginMessage
<1>4. Stable /\ Homed /\ Carried /\ LogsHold /\ ChansHold
  BY <1>2, RoomsStable DEF PrivInv, ListInv, SecretInv, LogsHold, ChansHold
<1> DEFINE packet == Packet("message", {x})
           h == Advance(frame[t], "messages")
<1>5. x \in messages =>
        packet \in Packets /\ Adds(packet, "message") = {x} /\ packet.kind \in Pushes
        /\ Sends(t, packet)
  <2> SUFFICES ASSUME x \in messages
               PROVE  packet \in Packets /\ Adds(packet, "message") = {x}
                      /\ packet.kind \in Pushes /\ Sends(t, packet)
    OBVIOUS
  <2>1. x \in Mid /\ "message" \in Kinds
    BY DEF TypeInv, TablesTypeOK, Kinds
  <2> QED BY <1>2, <1>3, <2>1, OneType DEF Packet, Adds, Pushes, Sends
<1> HIDE DEF packet
<1>6. MoreKnown
  <2>1. CASE UNCHANGED out
    BY <1>2, <2>1, NoWireQuiet, WiresTell DEF Wires
  <2>2. CASE x \in messages
    BY <1>5, <2>2, WiresTell DEF Wires
  <2> QED BY <1>3, <2>1, <2>2
<1>7. /\ h.at = frame[t].at /\ h.cid = c /\ h.uid = frame[t].uid /\ h.end = frame[t].end
      /\ h.pos["messages"] = p + 1 /\ h.pos["channels"] = frame[t].pos["channels"]
  <2>1. frame[t] \in Frames /\ "messages" \in Level /\ "channels" \in Level \ {"messages"}
    BY DEF TypeInv, FramesOK, Level
  <2> QED BY <1>1, <2>1, AdvanceFacts
<1>8. frame'[t] = h
  BY DEF LoginMessage, TypeInv, FramesOK
<1> HIDE DEF h
<1>9. ASSUME NEW m \in messages, WillSee(t, channelOf[m]) PROVE Coming(t, m)'
  <2>1. PICK d : d = channelOf[m] /\ channelOf'[m] = d
    BY <1>2
  <2>2. WillSee(t, d)'
    BY <1>2, <1>4, <1>7, <1>8, <1>9, <2>1, SeeStill DEF Replaying
  <2> QED BY <2>1, <2>2 DEF Coming
<1>10. ASSUME NEW m \in messages, t \notin disturbed, WillRead(t, m) PROVE Coming(t, m)'
  <2>1. PICK i \in p..e : w[i] = m
    BY <1>1, <1>10 DEF WillRead
  <2>2. c = channelOf[m]
    BY <1>1, <1>10 DEF WillRead
  <2>3. CASE i = p
    <3>1. frame[t].loose = {}
      BY <1>10 DEF ShowInv, LooseInv
    <3>2. x = m
      BY <1>1, <1>3, <2>1, <2>3, <3>1 DEF Cell
    <3>3. Got(t, "message")' = Got(t, "message") \cup Adds(packet, "message")
      BY <1>5, <3>2, SendsFacts
    <3> QED BY <1>5, <3>2, <3>3 DEF Coming, Reached
  <2>4. CASE i # p
    <3>1. i \in (p + 1)..e
      <4>1. p \in Nat /\ e \in Nat /\ i \in p..e /\ i # p
        BY <1>2, <2>1, <2>4
      <4> QED BY ONLY <4>1
    <3>2. WillRead(t, m)'
      BY <1>1, <1>2, <1>7, <1>8, <2>1, <2>2, <3>1 DEF WillRead, Reads
    <3> QED BY <3>2 DEF Coming
  <2> QED BY <2>3, <2>4
<1>11. ASSUME NEW s \in Conn \ disturbed', Served(s)', NEW m \in messages,
              auth'[s] \in Live(membersOf[channelOf[m]])
       PROVE  Coming(s, m)'
  <2>1. /\ Served(s) /\ auth'[s] = auth[s]
        /\ Reached(s, "message") \subseteq Reached(s, "message")'
    BY <1>6, <1>11 DEF MoreKnown
  <2>2. ~WillTell(t, m, auth[s])
    BY <1>2 DEF WillTell
  <2>3. s \notin disturbed
    BY DEF Others
  <2> QED BY <1>4, <1>9, <1>10, <1>11, <2>1, <2>2, <2>3, ComingOthers
<1>12. messages' \ messages = {}
  BY <1>2
<1> QED BY <1>4, <1>11, <1>12, ComingKept

\* Every step.
LEMMA ComingNext ==
    ASSUME TypeInv, Placed, Deleting = {}, NoneEarly, AccountInv, RoomInv, ListInv, ShowInv,
           PrivInv, NewOrListed, AllComing, [Next]_vars
    PROVE  AllComing'
<1>1. ASSUME NEW t \in Conn, Ask(t) \/ Continue(t) PROVE AllComing'
  <2>1. Others(t)
    BY <1>1, OtherThreads
  <2>2. CASE LoginUser(t) /\ ~UNCHANGED frame
    BY <2>1, <2>2, LoginUserComing
  <2>3. CASE LoginChannel(t)
    BY <2>1, <2>3, LoginChannelComing
  <2>4. CASE LoginMessage(t)
    BY <2>1, <2>4, LoginMessageComing
  <2>5. ASSUME NEW c \in Cid, SendMessage(t, c) PROVE AllComing'
    BY <2>1, <2>5, SendMessageComing
  <2>6. CASE AppendMessage(t)
    BY <2>1, <2>6, AppendMessageComing
  <2>7. CASE SendNotify(t)
    BY <2>1, <2>7, SendNotifyComing
  <2>8. CASE /\ LoginUser(t) => UNCHANGED frame
             /\ ~LoginChannel(t) /\ ~LoginMessage(t) /\ ~SendNotify(t) /\ ~AppendMessage(t)
             /\ \A c \in Cid : ~SendMessage(t, c)
    <3>1. Apart(t)
      BY <1>1, <2>8, ApartSteps
    <3>2. Homed /\ Carried
      BY DEF PrivInv, ListInv, SecretInv
    <3> QED BY <2>1, <3>1, <3>2, ApartKeeps
  <2> QED BY <2>2, <2>3, <2>4, <2>5, <2>6, <2>7, <2>8
<1>2. CASE UNCHANGED vars
  <2>1. UNCHANGED <<chansOf, messages, channelOf, membersOf, logOf, link, auth, frame, queue, out,
                    disturbed>>
    BY <1>2 DEF vars, tables, rooms, texts, threads
  <2>2. \A t \in Conn : Reached(t, "message")' = Reached(t, "message")
    BY <2>1, ReachedSame
  <2>3. \A t \in Conn : Served(t)' <=> Served(t)
    BY <2>1 DEF Served, On
  <2>4. ASSUME NEW t \in Conn, NEW m \in messages, Coming(t, m) PROVE Coming(t, m)'
    BY <2>1, <2>2, <2>4 DEF Coming, WillTell, WillSee, WillRead, Reads
  <2> QED BY <2>1, <2>3, <2>4 DEF AllComing
<1> QED BY <1>1, <1>2 DEF Next, Rest

\* The server starts without channels and without messages.
LEMMA ComingInit == Init => NewOrListed /\ AllComing
<1> SUFFICES ASSUME Init PROVE NewOrListed /\ AllComing
  OBVIOUS
<1>1. messages = {}
  BY DEF Init, TablesInit
<1> QED BY <1>1 DEF NewOrListed, AllComing

\* While no account is deleted and no message is sent into a channel still being created, the
\* members of a channel miss none of its messages, whether they log in before, while or after
\* it is sent (on_login, on_send_text), over undisturbed connections.
THEOREM NothingMissed == Spec /\ [](Deleting = {}) /\ []NoneEarly => []Delivered
<1>1. TypeInv /\ AllComing => Delivered
  <2> SUFFICES ASSUME TypeInv, AllComing, Quiet, NEW t \in Conn \ disturbed, link[t] = "open",
                      auth[t] \in users, NEW m \in messages,
                      auth[t] \in Live(membersOf[channelOf[m]])
               PROVE  m \in Got(t, "message")
    BY DEF Delivered, AllMessages
  <2>1. \A s \in Conn : frame[s].at = "idle" /\ queue[s] = <<>>
    BY DEF Quiet
  <2>2. Served(t)
    BY NilAssumption DEF Served, On, TypeInv, TablesTypeOK
  <2>3. Coming(t, m)
    BY <2>2 DEF AllComing
  <2> QED BY <2>1, <2>3, IdsEmpty
          DEF Coming, Reached, Posted, WillSee, Replaying, WillTell, WillRead, Reads
<1>2. /\ TypeInv /\ TypeInv' /\ Placed /\ DeleterInv /\ Deleting = {} /\ NoneEarly /\ AccountInv
      /\ RoomInv /\ ListInv /\ StoreInv /\ ShowInv /\ PrivInv /\ NewOrListed /\ AllComing
      /\ [Next]_vars
      => /\ DeleterInv' /\ ListInv' /\ StoreInv' /\ ShowInv' /\ PrivInv' /\ NewOrListed'
         /\ AllComing'
  <2> SUFFICES ASSUME TypeInv, TypeInv', Placed, DeleterInv, Deleting = {}, NoneEarly, AccountInv,
                      RoomInv, ListInv, StoreInv, ShowInv, PrivInv, NewOrListed, AllComing,
                      [Next]_vars
               PROVE  /\ DeleterInv' /\ ListInv' /\ StoreInv' /\ ShowInv' /\ PrivInv'
                      /\ NewOrListed' /\ AllComing'
    OBVIOUS
  <2>1. DeleterInv'
    BY DeleterNext DEF TypeInv, DeleterInv
  <2>2. ListInv'
    BY ListNext DEF TypeInv
  <2>3. ShowInv'
    BY ShowNext
  <2>4. StoreInv'
    BY StoreNext DEF DeleterInv, ShowInv
  <2>5. PrivInv'
    BY PrivNext
  <2>6. NewOrListed'
    BY NewNext
  <2>7. AllComing'
    BY ComingNext
  <2> QED BY <2>1, <2>2, <2>3, <2>4, <2>5, <2>6, <2>7
<1> QED BY <1>1, <1>2, DeleterInit, ListInit, StoreInit, ShowInit, PrivInit, ComingInit, Roomed,
           Typed, PTL DEF Spec
=============================================================================
