----------------------------- MODULE ClientProofs -----------------------------
(***************************************************************************)
(* Theorems about Client, for any sets of users, channels and messages, any   *)
(* behaviour of the server and the network, and any budget.                   *)
(***************************************************************************)
EXTENDS Client, TLAPS

-----------------------------------------------------------------------------
(* Session: what its operators return                                       *)

LEMMA NilApart == Nil \notin Uid /\ Nil \notin Cid /\ Nil \notin Mid
BY SessionAssumption

LEMMA NoSessionType == NoSession \in Sessions
<1>1. <<>> \in Seq(Mid)
  OBVIOUS
<1> QED BY <1>1 DEF NoSession, Sessions

LEMMA AddMessageType ==
    ASSUME NEW s \in Sessions, NEW m \in Mid, NEW c \in Cid
    PROVE  AddMessage(s, m, c) \in Sessions
<1>1. s.log \in [Cid -> Seq(Mid)] /\ s.log[c] \in Seq(Mid)
  BY DEF Sessions
<1>2. Append(s.log[c], m) \in Seq(Mid)
  BY <1>1
<1> QED BY <1>1, <1>2 DEF AddMessage, Sessions

LEMMA AddChannelType ==
    ASSUME NEW s \in Sessions, NEW c \in Cid
    PROVE  AddChannel(s, c) \in Sessions
<1>1. s.log \in [Cid -> Seq(Mid)] /\ s.channels \in SUBSET Cid
  BY DEF Sessions
<1>2. <<>> \in Seq(Mid)
  OBVIOUS
<1> QED BY <1>1, <1>2 DEF AddChannel, Sessions

LEMMA SetActiveChannelType ==
    ASSUME NEW s \in Sessions, NEW c \in Cid
    PROVE  SetActiveChannel(s, c) \in Sessions
BY DEF SetActiveChannel, Sessions

LEMMA ActiveMessagesType ==
    ASSUME NEW s \in Sessions
    PROVE  ActiveMessages(s) \in Seq(Mid)
<1>1. s.log \in [Cid -> Seq(Mid)] /\ s.open \in Cid \cup {Nil}
  BY DEF Sessions
<1>2. <<>> \in Seq(Mid)
  OBVIOUS
<1> QED BY <1>1, <1>2 DEF ActiveMessages

-----------------------------------------------------------------------------
(* The invariant                                                            *)

\* The page shows whether there is a connection, and only a connection is served.
Fits ==
    /\ page = "connection" <=> socket \in {"unconnected", "connecting"}
    /\ socket \in {"unconnected", "connecting"} => served = Nil

\* Whoever hears, or will hear, of a login that succeeded is served; the last answer of that
\* kind names whom.
Greeted ==
    /\ welcomed => served # Nil
    /\ \A i \in 1..Len(answers) :
          answers[i].user # Nil =>
              /\ served # Nil
              /\ \/ answers[i].user = served
                 \/ \E j \in (i + 1)..Len(answers) : answers[j].user # Nil

\* A session without a user is empty; the open channel and the listed chats are known.
Owned(s, list) ==
    /\ s.user = Nil => s.channels = {}
    /\ s.open # Nil => s.open \in s.channels
    /\ \A i \in 1..Len(list) : list[i] \in s.channels

\* The chat page of a live connection is served and has a user, the one it serves unless the
\* answer to another login is under way; while the connection closes it has no results to click.
Serving ==
    /\ (page = "main" /\ socket = "connected") =>
           /\ session.user # Nil /\ served # Nil
           /\ session.user = served \/ LoginUnderWay
    /\ (page = "main" /\ socket = "closing") => results = {}

Inv == TypeOK /\ Fits /\ Greeted /\ Owned(session, chats) /\ Serving /\ DiesOnlyAtLogin

LEMMA InvInit == Init => Inv
<1> SUFFICES ASSUME Init PROVE Inv
  OBVIOUS
<1>1. TypeOK
  <2>1. <<>> \in Seq(Cid) /\ <<>> \in Seq(Mid) /\ <<>> \in Seq(Requests)
         /\ <<>> \in Seq(Answers)
    OBVIOUS
  <2>2. budget \in [Effort -> Nat]
    BY ClientAssumption DEF Init
  <2> QED BY <2>1, <2>2, NoSessionType
          DEF Init, TypeOK, Sockets, PageNames, Kept, Fates
<1>2. Fits /\ Greeted /\ Owned(session, chats) /\ Serving /\ DiesOnlyAtLogin
  BY DEF Init, Fits, Greeted, Owned, Serving, DiesOnlyAtLogin, NoSession
<1> QED BY <1>1, <1>2 DEF Inv

LEMMA SpendType ==
    ASSUME TypeOK, NEW effort \in Effort, Spend(effort)
    PROVE  budget' \in [Effort -> Nat]
BY DEF TypeOK, Spend

LEMMA SendType ==
    ASSUME TypeOK, NEW kind \in Requests, Send(kind)
    PROVE  /\ pending' \in Seq(Requests)
           /\ UNCHANGED <<answers, served, welcomed, stalled>>
BY DEF TypeOK, Send

LEMMA ResetType ==
    ASSUME TypeOK, Reset
    PROVE  /\ session' \in Sessions /\ chats' \in Seq(Cid) /\ shown' \in Seq(Mid)
           /\ results' \in SUBSET Uid /\ loading' \in SUBSET Spinners
           /\ stranded' \in SUBSET Spinners /\ fate' \in [Mid -> Fates]
<1>1. <<>> \in Seq(Cid)
  OBVIOUS
<1> QED BY <1>1, NoSessionType DEF TypeOK, Reset, Kept, Fates

LEMMA ResetOwned == Reset => Owned(session, chats)' /\ results' = {} /\ session'.user = Nil
BY DEF Reset, Owned, NoSession

\* What a step leaves that leaves the answers alone.
LEMMA SameAnswers ==
    ASSUME Greeted, UNCHANGED <<answers, served, welcomed>>
    PROVE  Greeted' /\ (LoginUnderWay' <=> LoginUnderWay)
BY DEF Greeted, LoginUnderWay

LEMMA SameConnection ==
    ASSUME TypeOK, Greeted, UNCHANGED connection
    PROVE  /\ Greeted' /\ (LoginUnderWay' <=> LoginUnderWay)
           /\ UNCHANGED <<pending, answers, served, welcomed, stalled>>
BY SameAnswers DEF connection

LEMMA GoneInv ==
    ASSUME Gone
    PROVE  /\ Greeted'
           /\ pending' \in Seq(Requests) /\ answers' \in Seq(Answers)
           /\ served' = Nil /\ welcomed' = FALSE /\ stalled' = FALSE
<1>1. <<>> \in Seq(Requests) /\ <<>> \in Seq(Answers) /\ Len(<<>>) = 0
  OBVIOUS
<1> QED BY <1>1 DEF Gone, Greeted

-----------------------------------------------------------------------------
(* The connection                                                           *)

LEMMA ConnectInv == Inv /\ Connect => Inv'
<1> SUFFICES ASSUME Inv, Connect PROVE Inv'
  OBVIOUS
<1>1. budget' \in [Effort -> Nat]
  BY SpendType DEF Inv, Connect, Effort
<1>2. Greeted' /\ UNCHANGED <<pending, answers, served, welcomed, stalled>>
  BY SameConnection DEF Inv, Connect
<1>3. TypeOK'
  BY <1>1, <1>2 DEF Inv, Connect, TypeOK, windows, Sockets
<1> QED BY <1>2, <1>3 DEF Inv, Connect, On, windows, Fits, Owned, Serving, DiesOnlyAtLogin

LEMMA ConnectFailsInv == Inv /\ ConnectFails => Inv'
<1> SUFFICES ASSUME Inv, ConnectFails PROVE Inv'
  OBVIOUS
<1>1. Greeted' /\ UNCHANGED <<pending, answers, served, welcomed, stalled>>
  BY SameConnection DEF Inv, ConnectFails
<1>2. TypeOK'
  BY <1>1 DEF Inv, ConnectFails, TypeOK, windows, Sockets
<1> QED BY <1>1, <1>2 DEF Inv, ConnectFails, windows, Fits, Owned, Serving, DiesOnlyAtLogin

LEMMA ConnectedInv == Inv /\ Connected => Inv'
<1> SUFFICES ASSUME Inv, Connected PROVE Inv'
  OBVIOUS
<1>1. Greeted' /\ UNCHANGED <<pending, answers, served, welcomed, stalled>>
  BY SameConnection DEF Inv, Connected
<1>2. TypeOK'
  BY <1>1 DEF Inv, Connected, TypeOK, windows, Sockets, PageNames
<1> QED BY <1>1, <1>2 DEF Inv, Connected, windows, Fits, Owned, Serving, DiesOnlyAtLogin

LEMMA DropInv == Inv /\ Drop => Inv'
<1> SUFFICES ASSUME Inv, Drop PROVE Inv'
  OBVIOUS
<1>1. socket' = "unconnected" /\ page' = "connection" /\ Gone
  BY DEF Drop, Disconnected
<1>2. TypeOK'
  BY <1>1, GoneInv DEF Inv, Drop, TypeOK, Sockets, PageNames
<1> QED BY <1>1, <1>2, GoneInv DEF Inv, Drop, Fits, Owned, Serving, DiesOnlyAtLogin

\* The connection is over, or begins to close.
LEMMA DisconnectEffect ==
    ASSUME Inv, On("authentication") \/ On("main"), DisconnectFromServer
    PROVE  /\ up /\ socket' \in {"unconnected", "closing"} /\ page' \in PageNames
           /\ pending' \in Seq(Requests) /\ answers' \in Seq(Answers)
           /\ served' \in Uid \cup {Nil} /\ welcomed' \in BOOLEAN /\ stalled' \in BOOLEAN
           /\ Fits' /\ Greeted'
<1>1. up /\ page \in {"authentication", "main"}
  BY DEF On
<1>2. CASE Disconnected
  BY <1>1, <1>2, GoneInv DEF Disconnected, Fits, PageNames
<1>3. CASE socket' = "closing" /\ pending' = <<>> /\ answers' = <<>>
           /\ UNCHANGED <<page, served, welcomed, stalled>>
  <2>1. <<>> \in Seq(Requests) /\ <<>> \in Seq(Answers) /\ Len(<<>>) = 0
    OBVIOUS
  <2> QED BY <1>1, <1>3, <2>1 DEF Inv, TypeOK, Fits, Greeted
<1> QED BY <1>2, <1>3 DEF DisconnectFromServer

LEMMA DisconnectInv == Inv /\ Disconnect => Inv'
<1> SUFFICES ASSUME Inv, Disconnect PROVE Inv'
  OBVIOUS
<1>1. TypeOK'
  BY DisconnectEffect, ResetType DEF Inv, Disconnect, TypeOK, Sockets
<1> QED BY <1>1, DisconnectEffect, ResetOwned DEF Inv, Disconnect, Serving, DiesOnlyAtLogin

LEMMA DisconnectFromRegistrationInv == Inv /\ DisconnectFromRegistration => Inv'
<1> SUFFICES ASSUME Inv, DisconnectFromRegistration PROVE Inv'
  OBVIOUS
<1>1. TypeOK'
  BY DisconnectEffect DEF Inv, DisconnectFromRegistration, TypeOK, Sockets
<1>2. page' # "main"
  BY DEF DisconnectFromRegistration, On, DisconnectFromServer, Disconnected
<1> QED BY <1>1, <1>2, DisconnectEffect
        DEF Inv, DisconnectFromRegistration, Owned, Serving, DiesOnlyAtLogin

-----------------------------------------------------------------------------
(* Forms and buttons                                                        *)

LEMMA FormInv ==
    ASSUME Inv, NEW kind \in Spinners, Submit(kind), Spend("request"),
           UNCHANGED <<up, socket, page, dialog, session, chats, shown, results, fate>>
    PROVE  Inv'
<1>1. /\ budget' \in [Effort -> Nat] /\ pending' \in Seq(Requests)
      /\ UNCHANGED <<answers, served, welcomed, stalled>>
  BY SpendType, SendType DEF Inv, Effort, Submit, Requests
<1>2. TypeOK'
  BY <1>1 DEF Inv, Submit, TypeOK
<1> QED BY <1>1, <1>2, SameAnswers DEF Inv, Fits, Owned, Serving, DiesOnlyAtLogin

LEMMA DialogInv ==
    ASSUME Inv, OpenDialog \/ DeleteAccount \/ CancelDialog
    PROVE  Inv'
<1>1. budget' \in [Effort -> Nat]
  BY SpendType DEF Inv, TypeOK, OpenDialog, DeleteAccount, CancelDialog, Effort
<1>2. pending' \in Seq(Requests) /\ UNCHANGED <<answers, served, welcomed, stalled>>
  BY SendType, SameConnection
     DEF Inv, TypeOK, OpenDialog, DeleteAccount, CancelDialog, Requests
<1>3. TypeOK'
  BY <1>1, <1>2 DEF Inv, TypeOK, OpenDialog, DeleteAccount, CancelDialog, windows
<1> QED BY <1>2, <1>3, SameAnswers
        DEF Inv, OpenDialog, DeleteAccount, CancelDialog, windows, Fits, Owned, Serving,
            DiesOnlyAtLogin

LEMMA MessageUserInv ==
    ASSUME Inv, NEW u \in Uid, MessageUser(u)
    PROVE  Inv'
<1>1. budget' \in [Effort -> Nat]
  BY SpendType DEF Inv, MessageUser, Effort
<1>2. /\ Greeted' /\ (LoginUnderWay' <=> LoginUnderWay)
      /\ UNCHANGED <<pending, answers, served, welcomed, stalled>>
  BY SameConnection DEF Inv, MessageUser
<1>3. socket \in {"connected", "closing"}
  BY DEF Inv, MessageUser, On, Fits, TypeOK, Sockets
<1>4. session.user # Nil
  BY <1>3 DEF Inv, MessageUser, On, Serving
<1>5. TypeOK'
  BY <1>1, <1>2 DEF Inv, MessageUser, TypeOK, windows
<1> QED BY <1>2, <1>4, <1>5
        DEF Inv, MessageUser, windows, Fits, Owned, Serving, DiesOnlyAtLogin

LEMMA SendTextInv == Inv /\ SendText => Inv'
<1> SUFFICES ASSUME Inv, SendText PROVE Inv'
  OBVIOUS
<1>1. budget' \in [Effort -> Nat]
  BY SpendType DEF Inv, SendText, Effort
<1>2. /\ Greeted' /\ (LoginUnderWay' <=> LoginUnderWay)
      /\ UNCHANGED <<pending, answers, served, welcomed, stalled>>
  BY SameConnection DEF Inv, SendText
<1>3. session.user # Nil
  BY DEF Inv, SendText, Owned
<1>4. TypeOK'
  BY <1>1, <1>2 DEF Inv, SendText, TypeOK, windows
<1> QED BY <1>2, <1>3, <1>4
        DEF Inv, SendText, windows, Fits, Owned, Serving, DiesOnlyAtLogin

LEMMA SelectChatInv ==
    ASSUME Inv, NEW i \in 1..Len(chats), SelectChat(i)
    PROVE  Inv'
<1>1. budget' \in [Effort -> Nat]
  BY SpendType DEF Inv, SelectChat, Effort
<1>2. chats[i] \in Cid /\ chats[i] \in session.channels /\ session.user # Nil
  BY DEF Inv, TypeOK, Owned
<1>3. session' \in Sessions /\ session'.user = session.user
      /\ session'.channels = session.channels /\ session'.open = chats[i]
  BY <1>2, SetActiveChannelType DEF Inv, TypeOK, SelectChat, SetActiveChannel, Sessions
<1>4. up'
  BY <1>2, <1>3 DEF SelectChat, Redraw, ActiveMessagesFound
<1>5. shown' \in Seq(Mid)
  BY <1>3, ActiveMessagesType DEF SelectChat, Redraw
<1>6. /\ Greeted' /\ (LoginUnderWay' <=> LoginUnderWay)
      /\ UNCHANGED <<pending, answers, served, welcomed, stalled>>
  BY SameConnection DEF Inv, SelectChat
<1>7. TypeOK'
  BY <1>1, <1>3, <1>4, <1>5, <1>6 DEF Inv, SelectChat, TypeOK
<1>8. Owned(session, chats)'
  BY <1>2, <1>3 DEF Inv, SelectChat, Owned
<1> QED BY <1>3, <1>4, <1>6, <1>7, <1>8 DEF Inv, SelectChat, Fits, Serving, DiesOnlyAtLogin

-----------------------------------------------------------------------------
(* The server's end of the connection                                       *)

LEMMA HandleLoginInv ==
    ASSUME Inv, NEW u \in Uid, HandleLogin(u)
    PROVE  Inv'
<1> DEFINE a == [kind |-> "login", user |-> u]
<1>1. a \in Answers /\ a.user = u /\ u # Nil /\ served' = u
  BY NilApart DEF Answers, Requests, Spinners, HandleLogin
<1>2. answers \in Seq(Answers) /\ answers' = Append(answers, a)
  BY DEF Inv, TypeOK, HandleLogin
<1> HIDE DEF a
<1>3. /\ answers' \in Seq(Answers) /\ Len(answers) \in Nat /\ Len(answers') = Len(answers) + 1
      /\ \A i \in 1..Len(answers) : answers'[i] = answers[i]
      /\ answers'[Len(answers) + 1] = a
  BY <1>1, <1>2
<1>4. Greeted'
  <2>1. ASSUME NEW i \in 1..(Len(answers) + 1)
        PROVE  \/ answers'[i].user = served'
               \/ \E j \in (i + 1)..(Len(answers) + 1) : answers'[j].user # Nil
    <3>1. CASE i = Len(answers) + 1
      BY <1>1, <1>3, <3>1
    <3>2. CASE i # Len(answers) + 1
      <4>1. Len(answers) + 1 \in (i + 1)..(Len(answers) + 1)
        BY <1>3, <3>2
      <4> QED BY <1>1, <1>3, <4>1
    <3> QED BY <3>1, <3>2
  <2> QED BY <1>1, <1>3, <2>1 DEF Greeted
<1>5. LoginUnderWay'
  <2>1. Len(answers) + 1 \in 1..Len(answers')
    BY <1>3
  <2> QED BY <1>1, <1>3, <2>1 DEF LoginUnderWay
<1>6. pending' \in Seq(Requests)
  BY DEF Inv, TypeOK, HandleLogin
<1>7. TypeOK'
  BY <1>1, <1>3, <1>6 DEF Inv, TypeOK, HandleLogin, windows
<1>8. socket = "connected" /\ UNCHANGED <<up, socket, page, session, chats, results>>
  BY DEF HandleLogin, windows
<1> QED BY <1>1, <1>4, <1>5, <1>7, <1>8 DEF Inv, Fits, Owned, Serving, DiesOnlyAtLogin

LEMMA HandleRequestInv == Inv /\ HandleRequest => Inv'
<1> SUFFICES ASSUME Inv, HandleRequest PROVE Inv'
  OBVIOUS
<1> DEFINE a == [kind |-> Head(pending), user |-> Nil]
<1>1. Head(pending) \in Requests /\ pending' \in Seq(Requests)
  BY DEF Inv, TypeOK, HandleRequest
<1>2. a \in Answers /\ a.user = Nil
  BY <1>1 DEF Answers
<1>3. answers \in Seq(Answers) /\ answers' = Append(answers, a)
      /\ UNCHANGED <<served, welcomed, stalled>>
  BY DEF Inv, TypeOK, HandleRequest
<1> HIDE DEF a
<1>4. /\ answers' \in Seq(Answers) /\ Len(answers) \in Nat /\ Len(answers') = Len(answers) + 1
      /\ \A i \in 1..Len(answers) : answers'[i] = answers[i]
      /\ answers'[Len(answers) + 1] = a
  BY <1>2, <1>3
<1>5. Greeted'
  <2>1. ASSUME NEW i \in 1..(Len(answers) + 1), answers'[i].user # Nil
        PROVE  /\ served # Nil
               /\ \/ answers'[i].user = served
                  \/ \E j \in (i + 1)..(Len(answers) + 1) : answers'[j].user # Nil
    <3>1. i \in 1..Len(answers) /\ answers[i].user # Nil
      BY <1>2, <1>4, <2>1
    <3>2. CASE answers[i].user = served
      BY <1>4, <3>1, <3>2 DEF Inv, Greeted
    <3>3. CASE answers[i].user # served
      <4>1. served # Nil /\ \E j \in (i + 1)..Len(answers) : answers[j].user # Nil
        BY <3>1, <3>3 DEF Inv, Greeted
      <4>2. PICK j \in (i + 1)..Len(answers) : answers[j].user # Nil
        BY <4>1
      <4>3. j \in 1..Len(answers) /\ j \in (i + 1)..(Len(answers) + 1)
        BY <1>4, <3>1, <4>2
      <4> QED BY <1>4, <4>1, <4>2, <4>3
    <3> QED BY <3>2, <3>3
  <2> QED BY <1>3, <1>4, <2>1 DEF Inv, Greeted
<1>6. LoginUnderWay => LoginUnderWay'
  <2>1. SUFFICES ASSUME NEW i \in 1..Len(answers), answers[i].user # Nil PROVE LoginUnderWay'
    BY DEF LoginUnderWay
  <2>2. i \in 1..Len(answers')
    BY <1>4
  <2> QED BY <1>4, <2>1, <2>2 DEF LoginUnderWay
<1>7. TypeOK'
  BY <1>1, <1>3, <1>4 DEF Inv, TypeOK, HandleRequest, windows
<1>8. UNCHANGED <<up, socket, page, session, chats, results>>
  BY DEF HandleRequest, windows
<1> QED BY <1>3, <1>5, <1>6, <1>7, <1>8 DEF Inv, Fits, Owned, Serving, DiesOnlyAtLogin

LEMMA StallInv ==
    ASSUME Inv, Stall \/ Resume
    PROVE  Inv'
<1>1. TypeOK' /\ UNCHANGED <<up, socket, page, session, chats, results, answers, served, welcomed>>
  BY DEF Inv, TypeOK, Stall, Resume, windows
<1> QED BY <1>1, SameAnswers DEF Inv, Fits, Owned, Serving, DiesOnlyAtLogin

-----------------------------------------------------------------------------
(* Answers                                                                  *)

LEMMA AnsweredType ==
    ASSUME TypeOK, NEW kind, Answered(kind)
    PROVE  /\ up /\ socket = "connected"
           /\ pending' \in Seq(Requests) /\ answers' \in Seq(Answers) /\ socket' \in Sockets
           /\ served' \in Uid \cup {Nil} /\ welcomed' \in BOOLEAN /\ stalled' \in BOOLEAN
           /\ dialog' \in BOOLEAN /\ budget' \in [Effort -> Nat]
           /\ UNCHANGED <<socket, served>>
BY DEF TypeOK, Answered

\* The head of a non-empty queue of answers, and the rest of it.
LEMMA AnswersLeft ==
    ASSUME TypeOK, NEW kind, Answered(kind)
    PROVE  /\ Len(answers) \in Nat /\ 1 \in 1..Len(answers) /\ Head(answers) = answers[1]
           /\ answers[1] \in Answers
           /\ Len(answers') = Len(answers) - 1
           /\ \A i \in 1..Len(answers') : answers'[i] = answers[i + 1]
<1>1. answers \in Seq(Answers) /\ answers # <<>> /\ answers' = Tail(answers)
  BY DEF TypeOK, Answered
<1> QED BY <1>1

LEMMA AnsweredGreeted ==
    ASSUME Inv, NEW kind, Answered(kind)
    PROVE  /\ Greeted'
           /\ Head(answers).user = Nil => (LoginUnderWay' <=> LoginUnderWay)
           /\ Head(answers).user # Nil =>
                  served # Nil /\ (Head(answers).user = served \/ LoginUnderWay')
<1> USE AnswersLeft DEF Inv
<1>1. ASSUME NEW i \in 2..Len(answers)
      PROVE  i - 1 \in 1..Len(answers') /\ answers'[i - 1] = answers[i] /\ i \in 1..Len(answers)
  <2>1. i - 1 \in 1..Len(answers') /\ i \in 1..Len(answers) /\ (i - 1) + 1 = i
    OBVIOUS
  <2>2. answers'[i - 1] = answers[(i - 1) + 1]
    BY <2>1
  <2> QED BY <2>1, <2>2
<1>2. LoginUnderWay' => LoginUnderWay
  <2>1. SUFFICES ASSUME NEW i \in 1..Len(answers'), answers'[i].user # Nil PROVE LoginUnderWay
    BY DEF LoginUnderWay
  <2>2. i + 1 \in 1..Len(answers) /\ answers[i + 1].user # Nil
    BY <2>1
  <2> QED BY <2>2 DEF LoginUnderWay
<1>3. (\E j \in 2..Len(answers) : answers[j].user # Nil) => LoginUnderWay'
  <2>1. SUFFICES ASSUME NEW j \in 2..Len(answers), answers[j].user # Nil PROVE LoginUnderWay'
    OBVIOUS
  <2>2. j - 1 \in 1..Len(answers') /\ answers'[j - 1].user # Nil
    BY <1>1, <2>1
  <2> QED BY <2>2 DEF LoginUnderWay
<1>4. Head(answers).user = Nil /\ LoginUnderWay => LoginUnderWay'
  <2>1. SUFFICES ASSUME Head(answers).user = Nil, NEW i \in 1..Len(answers), answers[i].user # Nil
                 PROVE  LoginUnderWay'
    BY DEF LoginUnderWay
  <2>2. i # 1
    BY <2>1
  <2>3. i \in 2..Len(answers)
    BY <2>2
  <2> QED BY <1>3, <2>1, <2>3
<1>5. Head(answers).user # Nil =>
          served # Nil /\ (Head(answers).user = served \/ LoginUnderWay')
  <2>1. SUFFICES ASSUME Head(answers).user # Nil
                 PROVE  served # Nil /\ (Head(answers).user = served \/ LoginUnderWay')
    OBVIOUS
  <2>2. answers[1].user # Nil /\ 1 \in 1..Len(answers)
    BY <2>1
  <2>3. served # Nil /\ (answers[1].user = served
                            \/ \E j \in (1 + 1)..Len(answers) : answers[j].user # Nil)
    BY <2>2 DEF Greeted
  <2> QED BY <1>3, <2>3
<1>6. Greeted'
  <2>1. served' = served /\ welcomed' = (welcomed \/ Head(answers).user # Nil)
    BY DEF Answered
  <2>2. ASSUME NEW i \in 1..Len(answers'), answers'[i].user # Nil
        PROVE  /\ served # Nil
               /\ \/ answers'[i].user = served
                  \/ \E j \in (i + 1)..Len(answers') : answers'[j].user # Nil
    <3>1. i + 1 \in 1..Len(answers) /\ answers'[i] = answers[i + 1]
      OBVIOUS
    <3>2. CASE answers[i + 1].user = served
      BY <2>2, <3>1, <3>2 DEF Greeted
    <3>3. CASE answers[i + 1].user # served
      <4>1. served # Nil /\ \E j \in ((i + 1) + 1)..Len(answers) : answers[j].user # Nil
        BY <2>2, <3>1, <3>3 DEF Greeted
      <4>2. PICK j \in ((i + 1) + 1)..Len(answers) : answers[j].user # Nil
        BY <4>1
      <4>3. j \in 2..Len(answers) /\ j - 1 \in (i + 1)..Len(answers')
        BY <4>2
      <4> QED BY <1>1, <4>1, <4>2, <4>3
    <3> QED BY <3>2, <3>3
  <2>3. welcomed' => served' # Nil
    BY <1>5, <2>1 DEF Greeted
  <2> QED BY <2>1, <2>2, <2>3 DEF Greeted
<1> QED BY <1>2, <1>4, <1>5, <1>6

\* An answer that changes nothing but a spinner and what was found.
LEMMA SpinnerInv ==
    ASSUME Inv, NEW kind \in Spinners, Answered(kind), Head(answers).user = Nil,
           loading' \in SUBSET Spinners, stranded' \in SUBSET Spinners, results' \in SUBSET Uid,
           UNCHANGED <<up, page, session, chats, shown, fate>>
    PROVE  Inv'
<1>1. TypeOK'
  BY AnsweredType DEF Inv, TypeOK
<1>2. socket = "connected" /\ socket' = socket /\ served' = served
  BY DEF Answered
<1>3. Greeted' /\ (LoginUnderWay' <=> LoginUnderWay)
  BY AnsweredGreeted
<1> QED BY <1>1, <1>2, <1>3 DEF Inv, Fits, Owned, Serving, DiesOnlyAtLogin

LEMMA StopSpinnerType ==
    ASSUME TypeOK, NEW kind, StopSpinner(kind)
    PROVE  loading' \in SUBSET Spinners /\ stranded' \in SUBSET Spinners
BY DEF TypeOK, StopSpinner

\* Only a login's answer names a user.
LEMMA OthersNameNone ==
    ASSUME TypeOK, NEW kind, kind # "login", Answered(kind)
    PROVE  Head(answers).user = Nil
BY AnswersLeft DEF Answered, Answers

LEMMA RegisteredInv == Inv /\ Registered => Inv'
BY SpinnerInv, StopSpinnerType, OthersNameNone DEF Inv, TypeOK, Registered, Spinners

LEMMA LoginFailsInv == Inv /\ LoginFails => Inv'
BY SpinnerInv, StopSpinnerType DEF Inv, TypeOK, LoginFails, Spinners

LEMMA SearchFailsInv == Inv /\ SearchFails => Inv'
BY SpinnerInv, StopSpinnerType, OthersNameNone DEF Inv, TypeOK, SearchFails, Spinners

LEMMA SearchSucceedsInv ==
    ASSUME Inv, NEW found \in SUBSET Uid, SearchSucceeds(found)
    PROVE  Inv'
BY SpinnerInv, StopSpinnerType, OthersNameNone DEF Inv, SearchSucceeds, Spinners

LEMMA LoginSucceedsInv ==
    ASSUME Inv, NEW u \in Uid, LoginSucceeds(u)
    PROVE  Inv'
<1>1. session' \in Sessions /\ session'.user = u /\ session'.channels = session.channels
      /\ session'.open = session.open
  BY DEF Inv, TypeOK, LoginSucceeds, Sessions
<1>2. loading' \in SUBSET Spinners /\ stranded' \in SUBSET Spinners
  BY StopSpinnerType DEF Inv, LoginSucceeds
<1>3. TypeOK'
  BY <1>1, <1>2, AnsweredType DEF Inv, TypeOK, LoginSucceeds, PageNames
<1>4. socket = "connected" /\ socket' = socket /\ up /\ served' = served
  BY DEF LoginSucceeds, Answered
<1>5. Greeted' /\ served # Nil /\ (u = served \/ LoginUnderWay')
  BY AnsweredGreeted, NilApart DEF LoginSucceeds
<1> QED BY <1>1, <1>3, <1>4, <1>5, NilApart
        DEF Inv, LoginSucceeds, Fits, Owned, Serving, DiesOnlyAtLogin

LEMMA DeleteSucceedsInv == Inv /\ DeleteSucceeds => Inv'
<1> SUFFICES ASSUME Inv, DeleteSucceeds PROVE Inv'
  OBVIOUS
<1>1. TypeOK'
  BY AnsweredType, ResetType DEF Inv, TypeOK, DeleteSucceeds, PageNames
<1>2. socket = "connected" /\ socket' = socket /\ up /\ served' = served
  BY DEF DeleteSucceeds, Answered
<1>3. Greeted'
  BY AnsweredGreeted DEF DeleteSucceeds
<1> QED BY <1>1, <1>2, <1>3, ResetOwned DEF Inv, DeleteSucceeds, Fits, Serving, DiesOnlyAtLogin

LEMMA DeleteFailsInv == Inv /\ DeleteFails => Inv'
<1> SUFFICES ASSUME Inv, DeleteFails PROVE Inv'
  OBVIOUS
<1>1. TypeOK'
  BY AnsweredType DEF Inv, TypeOK, DeleteFails, windows
<1>2. socket' = socket /\ served' = served
  BY DEF DeleteFails, Answered
<1>3. Greeted' /\ (LoginUnderWay' <=> LoginUnderWay)
  BY AnsweredGreeted, OthersNameNone DEF Inv, DeleteFails
<1> QED BY <1>1, <1>2, <1>3
        DEF Inv, DeleteFails, windows, Fits, Owned, Serving, DiesOnlyAtLogin

-----------------------------------------------------------------------------
(* What the server sends                                                    *)

LEMMA PushedType ==
    ASSUME Inv, Pushed
    PROVE  up /\ socket = "connected" /\ served # Nil /\ budget' \in [Effort -> Nat]
BY SpendType DEF Inv, Greeted, Pushed, Effort

\* The one place where the client dies: by Serving it is not at the chat page.
LEMMA ChannelCreatedInv ==
    ASSUME Inv, NEW c \in Cid, ChannelCreated(c)
    PROVE  Inv'
<1>1. socket = "connected" /\ served # Nil /\ budget' \in [Effort -> Nat] /\ up
  BY PushedType DEF ChannelCreated
<1>2. /\ Greeted' /\ (LoginUnderWay' <=> LoginUnderWay)
      /\ UNCHANGED <<pending, answers, served, welcomed, stalled>>
  BY SameConnection DEF Inv, ChannelCreated
<1>3. CASE session.user = Nil
  <2>1. up' = FALSE /\ UNCHANGED <<session, chats, shown>>
    BY <1>3 DEF ChannelCreated
  <2>2. TypeOK'
    BY <1>2, <1>1, <2>1 DEF Inv, TypeOK, ChannelCreated
  <2>3. page = "authentication"
    BY <1>1, <1>3 DEF Inv, Serving, Fits, TypeOK, PageNames
  <2> QED BY <1>2, <1>1, <2>1, <2>2, <2>3
          DEF Inv, ChannelCreated, Fits, Owned, Serving, DiesOnlyAtLogin
<1>4. CASE session.user # Nil
  <2> DEFINE s == AddChannel(session, c)
  <2>1. s \in Sessions /\ s.user = session.user /\ s.channels = session.channels \cup {c}
    BY AddChannelType DEF Inv, TypeOK, AddChannel, Sessions
  <2>2. session' = SetActiveChannel(s, c) /\ Redraw(session') /\ chats' = Append(chats, c)
    BY <1>4 DEF ChannelCreated
  <2> HIDE DEF s
  <2>3. session' \in Sessions /\ session'.user = session.user /\ session'.open = c
        /\ session'.channels = session.channels \cup {c}
    BY <2>1, <2>2, SetActiveChannelType DEF SetActiveChannel, Sessions
  <2>4. up'
    BY <1>4, <2>2, <2>3 DEF Redraw, ActiveMessagesFound
  <2>5. shown' \in Seq(Mid)
    BY <2>2, <2>3, ActiveMessagesType DEF Redraw
  <2>6. TypeOK'
    BY <1>2, <1>1, <2>2, <2>3, <2>4, <2>5 DEF Inv, TypeOK, ChannelCreated
  <2>7. Owned(session, chats)'
    <3>1. chats \in Seq(Cid) /\ chats' = Append(chats, c)
      BY <2>2 DEF Inv, TypeOK
    <3>2. Len(chats) \in Nat /\ Len(chats') = Len(chats) + 1
          /\ (\A i \in 1..Len(chats) : chats'[i] = chats[i])
          /\ chats'[Len(chats) + 1] = c
      BY <3>1
    <3>3. \A i \in 1..Len(chats) : chats[i] \in session.channels
      BY DEF Inv, Owned
    <3>4. \A i \in 1..Len(chats') : chats'[i] \in session'.channels
      BY <2>3, <3>2, <3>3
    <3> QED BY <1>4, <2>3, <3>4 DEF Owned
  <2> QED BY <1>2, <2>3, <2>4, <2>6, <2>7
          DEF Inv, ChannelCreated, Fits, Serving, DiesOnlyAtLogin
<1> QED BY <1>3, <1>4

LEMMA MessageReceivedInv ==
    ASSUME Inv, NEW m \in Mid, MessageReceived(m)
    PROVE  Inv'
<1>1. socket = "connected" /\ budget' \in [Effort -> Nat] /\ up
  BY PushedType DEF MessageReceived
<1>2. ChannelOf[m] \in Cid
  BY ClientAssumption
<1>3. session' \in Sessions /\ session'.user = session.user /\ session'.open = session.open
      /\ session'.channels = session.channels
  BY <1>2, AddMessageType DEF Inv, TypeOK, MessageReceived, AddMessage, Sessions
<1>4. shown' \in Seq(Mid)
  <2>1. shown \in Seq(Mid) /\ Append(shown, m) \in Seq(Mid)
    BY DEF Inv, TypeOK
  <2>2. shown' = Append(shown, m) \/ shown' = shown
    BY DEF MessageReceived
  <2> QED BY <2>1, <2>2
<1>5. up'
  BY <1>1, <1>2, NilApart DEF Inv, MessageReceived, Owned
<1>6. fate' \in [Mid -> Fates]
  BY DEF Inv, TypeOK, MessageReceived, Fates
<1>7. /\ Greeted' /\ (LoginUnderWay' <=> LoginUnderWay)
      /\ UNCHANGED <<pending, answers, served, welcomed, stalled>>
  BY SameConnection DEF Inv, MessageReceived
<1>8. TypeOK'
  BY <1>1, <1>3, <1>4, <1>5, <1>6, <1>7 DEF Inv, TypeOK, MessageReceived
<1> QED BY <1>3, <1>5, <1>7, <1>8 DEF Inv, MessageReceived, Fits, Owned, Serving, DiesOnlyAtLogin

LEMMA MessageDeletedInv ==
    ASSUME Inv, NEW m \in Mid, MessageDeleted(m)
    PROVE  Inv'
<1>1. socket = "connected" /\ budget' \in [Effort -> Nat]
  BY PushedType DEF MessageDeleted
<1>2. shown' \in Seq(Mid)
  <2>1. ASSUME NEW i \in 1..Len(shown)
        PROVE  SubSeq(shown, 1, i - 1) \o SubSeq(shown, i + 1, Len(shown)) \in Seq(Mid)
    <3>1. shown \in Seq(Mid) /\ Len(shown) \in Nat /\ i \in Nat /\ i <= Len(shown)
      BY DEF Inv, TypeOK
    <3>2. SubSeq(shown, 1, i - 1) \in Seq(Mid) /\ SubSeq(shown, i + 1, Len(shown)) \in Seq(Mid)
      BY <3>1
    <3> QED BY <3>2
  <2>2. CASE RemoveWidget(m)
    BY <2>1, <2>2 DEF Inv, TypeOK, RemoveWidget
  <2>3. CASE UNCHANGED shown
    BY <2>3 DEF Inv, TypeOK
  <2> QED BY <2>2, <2>3 DEF MessageDeleted
<1>3. fate' \in [Mid -> Fates]
  BY DEF Inv, TypeOK, MessageDeleted, Fates
<1>4. /\ Greeted' /\ (LoginUnderWay' <=> LoginUnderWay)
      /\ UNCHANGED <<pending, answers, served, welcomed, stalled>>
  BY SameConnection DEF Inv, MessageDeleted
<1>5. TypeOK'
  BY <1>1, <1>2, <1>3, <1>4 DEF Inv, TypeOK, MessageDeleted, RemoveMessage
<1> QED BY <1>4, <1>5 DEF Inv, MessageDeleted, RemoveMessage, Fits, Owned, Serving, DiesOnlyAtLogin

-----------------------------------------------------------------------------
(* Requests and spinners                                                    *)

\* Some request, or some answer, of that kind is under way.
Asked(k) == \E i \in 1..Len(pending) : pending[i] = k
Told(k) == \E i \in 1..Len(answers) : answers[i].kind = k

LEMMA AwaitsNamed == SpinnersAwait <=> \A k \in loading \ stranded : Asked(k) \/ Told(k)
BY DEF SpinnersAwait, Asked, Told

\* A request stays until it is handled, so a spinner that was there has its request or its
\* answer, and a new one sent its request now.
LEMMA SendAwaits ==
    ASSUME TypeOK, SpinnersAwait, NEW kind \in Requests, Send(kind),
           \A k \in loading' \ stranded' :
               k \in loading \ stranded \/ (k = kind /\ socket = "connected")
    PROVE  SpinnersAwait'
<1>1. pending \in Seq(Requests) /\ Len(pending) \in Nat /\ answers' = answers
  BY DEF TypeOK, Send
<1>2. SUFFICES ASSUME NEW k \in loading' \ stranded'
               PROVE  Asked(k)' \/ Told(k)'
  BY DEF SpinnersAwait, Asked, Told
<1>3. CASE socket = "connected"
  <2>1. pending' = Append(pending, kind)
    BY <1>3 DEF Send
  <2>2. /\ Len(pending') = Len(pending) + 1
        /\ pending'[Len(pending) + 1] = kind
        /\ \A i \in 1..Len(pending) : pending'[i] = pending[i]
    BY <1>1, <2>1
  <2>3. CASE k = kind
    <3>1. Len(pending) + 1 \in 1..Len(pending')
      BY <1>1, <2>2
    <3> QED BY <2>2, <2>3, <3>1 DEF Asked
  <2>4. CASE k \in loading \ stranded
    <3>1. CASE Asked(k)
      <4>1. PICK i \in 1..Len(pending) : pending[i] = k
        BY <3>1 DEF Asked
      <4>2. i \in 1..Len(pending') /\ pending'[i] = k
        BY <1>1, <2>2, <4>1
      <4> QED BY <4>2 DEF Asked
    <3>2. CASE Told(k)
      BY <1>1, <3>2 DEF Told
    <3> QED BY <2>4, <3>1, <3>2, AwaitsNamed
  <2> QED BY <1>2, <2>3, <2>4
<1>4. CASE socket # "connected"
  <2>1. UNCHANGED <<pending, answers>> /\ k \in loading \ stranded
    BY <1>1, <1>2, <1>4 DEF Send
  <2> QED BY <2>1, AwaitsNamed DEF Asked, Told
<1> QED BY <1>3, <1>4

\* What is handled is answered.
LEMMA HandleAwaits ==
    ASSUME TypeOK, SpinnersAwait, NEW a, a.kind = Head(pending), pending # <<>>,
           pending' = Tail(pending), answers' = Append(answers, a), a \in Answers,
           UNCHANGED <<loading, stranded>>
    PROVE  SpinnersAwait'
<1>1. /\ pending \in Seq(Requests) /\ Len(pending) \in Nat
      /\ Len(pending') = Len(pending) - 1
      /\ \A i \in 2..Len(pending) : pending'[i - 1] = pending[i]
      /\ pending[1] = a.kind
  BY DEF TypeOK
<1>2. /\ answers \in Seq(Answers) /\ Len(answers) \in Nat
      /\ Len(answers') = Len(answers) + 1
      /\ answers'[Len(answers) + 1] = a
      /\ \A i \in 1..Len(answers) : answers'[i] = answers[i]
  BY DEF TypeOK
<1>3. SUFFICES ASSUME NEW k \in loading \ stranded
               PROVE  Asked(k)' \/ Told(k)'
  BY DEF SpinnersAwait, Asked, Told
<1>4. CASE Asked(k)
  <2>1. PICK i \in 1..Len(pending) : pending[i] = k
    BY <1>4 DEF Asked
  <2>2. CASE i = 1
    <3>1. Len(answers) + 1 \in 1..Len(answers') /\ answers'[Len(answers) + 1].kind = k
      BY <1>1, <1>2, <2>1, <2>2
    <3> QED BY <3>1 DEF Told
  <2>3. CASE i # 1
    <3>1. i \in 2..Len(pending) /\ i - 1 \in 1..Len(pending')
      BY <1>1, <2>1, <2>3
    <3>2. pending'[i - 1] = k
      BY <1>1, <2>1, <3>1
    <3> QED BY <3>1, <3>2 DEF Asked
  <2> QED BY <2>2, <2>3
<1>5. CASE Told(k)
  <2>1. PICK i \in 1..Len(answers) : answers[i].kind = k
    BY <1>5 DEF Told
  <2>2. i \in 1..Len(answers') /\ answers'[i].kind = k
    BY <1>2, <2>1
  <2> QED BY <2>2 DEF Told
<1> QED BY <1>3, <1>4, <1>5, AwaitsNamed

\* The answer to a request takes away no other answer.
LEMMA AnswerAwaits ==
    ASSUME TypeOK, SpinnersAwait, NEW kind \in Requests, Answered(kind),
           \A k \in loading' \ stranded' : k \in loading \ stranded /\ k # kind
    PROVE  SpinnersAwait'
<1>1. SUFFICES ASSUME NEW k \in loading' \ stranded'
               PROVE  Asked(k)' \/ Told(k)'
  BY DEF SpinnersAwait, Asked, Told
<1>2. CASE Asked(k)
  BY <1>2 DEF Answered, Asked
<1>3. CASE Told(k)
  <2>1. PICK i \in 1..Len(answers) : answers[i].kind = k
    BY <1>3 DEF Told
  <2>2. answers[1].kind = kind
    BY AnswersLeft DEF Answered
  <2>3. i # 1
    BY <1>1, <2>1, <2>2
  <2>4. i - 1 \in 1..Len(answers') /\ (i - 1) + 1 = i
    BY <2>1, <2>3, AnswersLeft
  <2>5. answers'[i - 1] = answers[(i - 1) + 1]
    BY <2>4, AnswersLeft
  <2>6. answers'[i - 1].kind = k
    BY <2>1, <2>4, <2>5
  <2> QED BY <2>4, <2>6 DEF Told
<1> QED BY <1>1, <1>2, <1>3, AwaitsNamed

LEMMA AwaitsNext == Inv /\ SpinnersAwait /\ [Next]_vars => SpinnersAwait'
<1> SUFFICES ASSUME Inv, SpinnersAwait, [Next]_vars PROVE SpinnersAwait'
  OBVIOUS
<1> USE DEF Inv
<1>1. CASE Register \/ Login \/ Search
  BY <1>1, SendAwaits DEF Register, Login, Search, Submit, Requests, Spinners
<1>2. CASE DeleteAccount
  BY <1>2, SendAwaits DEF DeleteAccount, windows, Requests
<1>3. CASE Registered \/ LoginFails \/ SearchFails \/ (\E u \in Uid : LoginSucceeds(u))
           \/ (\E found \in SUBSET Uid : SearchSucceeds(found))
  BY <1>3, AnswerAwaits
     DEF Registered, LoginFails, LoginSucceeds, SearchFails, SearchSucceeds, StopSpinner,
         Requests, Spinners
<1>4. CASE DeleteFails
  <2>1. Answered("delete account") /\ UNCHANGED <<loading, stranded>>
    BY <1>4 DEF DeleteFails, windows
  <2>2. "delete account" \notin loading
    BY DEF TypeOK, Spinners
  <2> QED BY <2>1, <2>2, AnswerAwaits DEF Requests
<1>5. CASE Disconnect \/ DeleteSucceeds
  BY <1>5 DEF Disconnect, DeleteSucceeds, Reset, SpinnersAwait
<1>6. CASE DisconnectFromRegistration \/ Drop
  BY <1>6 DEF DisconnectFromRegistration, Drop, SpinnersAwait
<1>7. CASE UNCHANGED <<loading, stranded, pending, answers>>
  BY <1>7 DEF SpinnersAwait
<1>8. Push => UNCHANGED <<loading, stranded, pending, answers>>
  BY DEF connection, Push, ChannelCreated, MessageReceived, MessageDeleted
<1>9. Connect \/ OpenDialog \/ CancelDialog \/ SendText \/ ConnectFails \/ Connected
        \/ (\E u \in Uid : MessageUser(u)) \/ (\E i \in 1..Len(chats) : SelectChat(i))
        \/ Stall \/ Resume \/ UNCHANGED vars
      => UNCHANGED <<loading, stranded, pending, answers>>
  BY DEF Connect, OpenDialog, CancelDialog, SendText, ConnectFails, Connected, MessageUser,
         SelectChat, Stall, Resume, vars, windows, connection
<1>10. ASSUME NEW u \in Uid, HandleLogin(u) PROVE SpinnersAwait'
  <2> DEFINE a == [kind |-> "login", user |-> u]
  <2>1. a \in Answers /\ a.kind = "login"
    BY DEF Answers, Requests, Spinners
  <2>2. pending # <<>> /\ Head(pending) = "login" /\ pending' = Tail(pending)
        /\ answers' = Append(answers, a) /\ UNCHANGED <<loading, stranded>>
    BY <1>10 DEF HandleLogin, windows
  <2> HIDE DEF a
  <2> QED BY <2>1, <2>2, HandleAwaits
<1>11. CASE HandleRequest
  <2> DEFINE a == [kind |-> Head(pending), user |-> Nil]
  <2>1. pending # <<>> /\ pending' = Tail(pending)
        /\ answers' = Append(answers, a) /\ UNCHANGED <<loading, stranded>>
    BY <1>11 DEF HandleRequest, windows
  <2>2. Head(pending) \in Requests
    BY <2>1 DEF TypeOK
  <2>3. a \in Answers /\ a.kind = Head(pending)
    BY <2>2 DEF Answers
  <2> HIDE DEF a
  <2> QED BY <2>1, <2>3, HandleAwaits
<1> QED BY <1>1, <1>2, <1>3, <1>4, <1>5, <1>6, <1>7, <1>8, <1>9, <1>10, <1>11
        DEF Next, User, Handle, Answer, Network

-----------------------------------------------------------------------------
(* The pages                                                                *)

LEMMA PagesInit == Init => Abstract!Init
BY DEF Init, Abstract!Init

\* The connection is lost, or only begins to close.
LEMMA DisconnectRefines ==
    ASSUME Inv, On("authentication") \/ On("main"), DisconnectFromServer
    PROVE  [Abstract!Next]_<<page, served>>
BY DEF On, DisconnectFromServer, Disconnected, Gone, Abstract!Next, Abstract!Lose

LEMMA PagesNext == Inv /\ [Next]_vars => [Abstract!Next]_<<page, served>>
<1> SUFFICES ASSUME Inv, [Next]_vars PROVE [Abstract!Next]_<<page, served>>
  OBVIOUS
<1>1. CASE Connected
  BY <1>1 DEF Inv, Connected, connection, Fits, Abstract!Next, Abstract!Connect
<1>2. CASE Drop
  BY <1>2 DEF Inv, Drop, Disconnected, Gone, Fits, Abstract!Next, Abstract!Lose
<1>3. CASE Disconnect \/ DisconnectFromRegistration
  BY <1>3, DisconnectRefines DEF Disconnect, DisconnectFromRegistration
<1>4. ASSUME NEW u \in Uid, LoginSucceeds(u) PROVE [Abstract!Next]_<<page, served>>
  <2>1. served # Nil
    BY <1>4, AnsweredGreeted, NilApart DEF LoginSucceeds
  <2>2. page # "connection" /\ page' = "main" /\ UNCHANGED served
    BY <1>4 DEF Inv, LoginSucceeds, Answered, Fits
  <2> QED BY <2>1, <2>2 DEF Abstract!Next, Abstract!Enter
<1>5. CASE DeleteSucceeds
  <2>1. page \in {"authentication", "main"}
    BY <1>5 DEF Inv, TypeOK, PageNames, Fits, DeleteSucceeds, Answered
  <2> QED BY <1>5, <2>1 DEF DeleteSucceeds, Answered, Abstract!Next, Abstract!Leave
<1>6. CASE UNCHANGED <<page, served>>
  BY <1>6
<1>7. Registered \/ LoginFails \/ SearchFails \/ DeleteFails
        \/ (\E found \in SUBSET Uid : SearchSucceeds(found)) \/ Push
      => UNCHANGED <<page, served>>
  BY DEF Registered, LoginFails, SearchFails, DeleteFails, SearchSucceeds, Answered, Push,
         ChannelCreated, MessageReceived, MessageDeleted, connection
<1>8. Connect \/ Register \/ Login \/ Search \/ OpenDialog \/ DeleteAccount \/ CancelDialog
        \/ SendText \/ ConnectFails \/ (\E u \in Uid : MessageUser(u))
        \/ (\E i \in 1..Len(chats) : SelectChat(i))
        \/ HandleRequest \/ Stall \/ Resume \/ UNCHANGED vars
      => UNCHANGED <<page, served>>
  BY DEF Connect, Register, Login, Search, Submit, Send, OpenDialog, DeleteAccount, CancelDialog,
         SendText, ConnectFails, MessageUser, SelectChat, HandleRequest, Stall, Resume, vars,
         connection
<1>9. ASSUME NEW u \in Uid, HandleLogin(u) PROVE [Abstract!Next]_<<page, served>>
  BY <1>9 DEF Inv, HandleLogin, Fits, Abstract!Next, Abstract!Admit
<1> QED BY <1>1, <1>2, <1>3, <1>4, <1>5, <1>6, <1>7, <1>8, <1>9
        DEF Next, User, Handle, Answer, Network

-----------------------------------------------------------------------------
(* The theorems                                                             *)

LEMMA InvNext == Inv /\ [Next]_vars => Inv'
<1> SUFFICES ASSUME Inv, [Next]_vars PROVE Inv'
  OBVIOUS
<1>1. CASE User
  <2>1. CASE Register \/ Login \/ Search
    BY <2>1, FormInv DEF Register, Login, Search, Spinners
  <2> QED BY <1>1, <2>1, ConnectInv, DisconnectInv, DisconnectFromRegistrationInv, DialogInv,
             MessageUserInv, SendTextInv, SelectChatInv DEF User
<1>2. CASE Answer
  BY <1>2, RegisteredInv, LoginSucceedsInv, LoginFailsInv, SearchSucceedsInv, SearchFailsInv,
     DeleteSucceedsInv, DeleteFailsInv DEF Answer
<1>3. CASE Push
  BY <1>3, ChannelCreatedInv, MessageReceivedInv, MessageDeletedInv DEF Push
<1>4. CASE Network
  BY <1>4, ConnectFailsInv, ConnectedInv, DropInv, StallInv DEF Network
<1>5. CASE UNCHANGED vars
  <2>1. /\ Greeted' /\ (LoginUnderWay' <=> LoginUnderWay)
        /\ UNCHANGED <<pending, answers, served, welcomed, stalled>>
    BY <1>5, SameConnection DEF Inv, vars
  <2> QED BY <1>5, <2>1 DEF vars, windows, Inv, TypeOK, Fits, Owned, Serving, DiesOnlyAtLogin
<1>6. CASE Handle
  BY <1>6, HandleLoginInv, HandleRequestInv DEF Handle
<1> QED BY <1>1, <1>2, <1>3, <1>4, <1>5, <1>6 DEF Next

LEMMA Always == Spec => []Inv
BY InvInit, InvNext, PTL DEF Spec

\* Every variable of the client keeps its range, whatever the server sends and whenever the
\* connection ends.
THEOREM TypeCorrect == Spec => []TypeOK
<1>1. Inv => TypeOK
  BY DEF Inv
<1> QED BY <1>1, Always, PTL

\* The handlers and slots that take authenticated_user.value() or channel_messages.at() end the
\* client in one situation only: the login page of a connection that is still served.
THEOREM DiesOnlyThere == Spec => []DiesOnlyAtLogin
<1>1. Inv => DiesOnlyAtLogin
  BY DEF Inv
<1> QED BY <1>1, Always, PTL

\* ChatArea::sendMessage names the user the server serves, also in a session that outlived its
\* connection, unless on_login has taken another user and its answer is still on the way.
THEOREM SenderServed == Spec => []WritesAsServed
<1>1. Inv => WritesAsServed
  BY DEF Inv, Serving, WritesAsServed
<1> QED BY <1>1, Always, PTL

\* Every slot that stops a spinner does so for the request that was answered, and answers come
\* in the order of the requests: no form waits for an answer that was taken for another's.
THEOREM SpinnersHaveRequests == Spec => []SpinnersAwait
<1>1. Init => SpinnersAwait
  BY DEF Init, SpinnersAwait
<1> QED BY <1>1, AwaitsNext, Always, PTL DEF Spec

\* The windows implement the pages: TcpClient::onConnected, onDisconnected and the slots of a
\* login and of a deletion are the only ones that turn them, each from where it may.
THEOREM Refines == Spec => PagesFollow
<1>1. Inv /\ [Next]_vars => [Abstract!Next]_<<page, served>>
  BY PagesNext
<1> QED BY <1>1, PagesInit, Always, PTL DEF Spec, PagesFollow, Abstract!Spec
=============================================================================
