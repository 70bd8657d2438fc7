----------------------------- MODULE MessageProofs -----------------------------
(***************************************************************************)
(* The two tables a message is in: what a channel lists is stored, but for a  *)
(* deletion between its two removals, for any number of connections, members   *)
(* and messages and however sending, deleting and replaying interleave.        *)
(***************************************************************************)
EXTENDS ServerProofs

-----------------------------------------------------------------------------
(* The invariant                                                            *)

\* A handler at one of these points works on a message that others may know; at "append" on
\* one that nobody can know.
Holding == {"send notify", "remove text", "remove notify", "unlist"}

Removing == {"remove notify", "unlist"}

Says(packet, m) == packet.kind = "message" /\ m \in packet.ids

\* The client of t was sent m, or will be once an event is handled.
Heard(t, m) ==
    \/ \E i \in 1..Len(out[t]) : Says(out[t][i], m)
    \/ \E i \in 1..Len(queue[t]) : Says(queue[t][i], m)

Holds(t, m) == frame[t].at \in Holding /\ frame[t].mid = m

\* The places where a thread or a client may find m.
Public(m) ==
    \/ \E c \in Cid : m \in Cells(logOf[c])
    \/ \E t \in Conn : Heard(t, m) \/ Holds(t, m)

\* What is listed, or was, is of its channel.
Housed == \A c \in Cid : \A m \in Cells(logOf[c]) : channelOf[m] = c

\* So is what a handler works on.
Carried ==
    \A t \in Conn : frame[t].at \in Holding \cup {"append"} =>
        channelOf[frame[t].mid] = frame[t].cid

\* No identifier is known before its message was constructed.
PublicMade == \A m \in Mid : Public(m) => channelOf[m] # Nil

Appends(t, m) == frame[t].at = "append" /\ frame[t].mid = m

\* Between Database::add_message's two additions the message is stored, nobody else can name
\* it and no other thread adds it.
Secret ==
    \A t \in Conn : \A m \in Mid : Appends(t, m) =>
        m \in messages /\ ~Public(m) /\ \A s \in Conn \ {t} : ~Appends(s, m)

SecretInv == Housed /\ Carried /\ PublicMade /\ Secret

Reads(t) == frame[t].at = "login messages"

\* The loop of a login stays inside the buffer it began in.
Reading ==
    \A t \in Conn : Reads(t) =>
        /\ frame[t].pos["messages"] >= 1
        /\ frame[t].end["messages"] <= Len(logOf[frame[t].cid].cells)

\* ListedMessagesStored, of all channels there can be.
Backed(m) == m \in messages \/ \E t \in Conn : frame[t].at \in Removing /\ frame[t].mid = m

AllBacked == \A c \in Cid : \A m \in Live(logOf[c]) : Backed(m)

ListInv == Reading /\ SecretInv /\ AllBacked

-----------------------------------------------------------------------------
(* What a step does to each part                                            *)

\* Every message a step tells of was public.
NothingNew == \A s \in Conn : \A m \in Mid : Heard(s, m)' => Public(m)

\* No handler takes up a message that was not public.
NothingTaken ==
    \A s \in Conn :
        /\ frame'[s].at = "append" =>
               /\ frame[s].at = "append"
               /\ frame'[s].mid = frame[s].mid /\ frame'[s].cid = frame[s].cid
        /\ frame'[s].at \in Holding =>
               Public(frame'[s].mid) /\ channelOf[frame'[s].mid] = frame'[s].cid

\* No handler gives up a removal.
NothingDropped ==
    \A s \in Conn : frame[s].at \in Removing =>
        frame'[s].at \in Removing /\ frame'[s].mid = frame[s].mid

\* A login goes on in the buffer it began in.
ReadsOn ==
    \A s \in Conn : Reads(s)' =>
        /\ Reads(s) /\ frame'[s].cid = frame[s].cid
        /\ frame'[s].pos["messages"] >= frame[s].pos["messages"]
        /\ frame'[s].end["messages"] = frame[s].end["messages"]

\* No buffer gets smaller.
BuffersKept == \A c \in Cid : Len(logOf'[c].cells) >= Len(logOf[c].cells)

LEMMA SecretsKept ==
    ASSUME TypeInv, SecretInv, UNCHANGED channelOf, NothingNew, NothingTaken,
           \A c \in Cid : Cells(logOf'[c]) \subseteq Cells(logOf[c]),
           \A m \in messages : m \in messages' \/ Public(m)
    PROVE  SecretInv'
<1>1. ASSUME NEW m \in Mid, Public(m)' PROVE Public(m)
  <2>1. CASE \E c \in Cid : m \in Cells(logOf'[c])
    BY <2>1 DEF Public
  <2>2. CASE \E t \in Conn : Heard(t, m)'
    BY <2>2 DEF NothingNew
  <2>3. CASE \E t \in Conn : Holds(t, m)'
    BY <2>3 DEF NothingTaken, Holds
  <2> QED BY <1>1, <2>1, <2>2, <2>3 DEF Public
<1>2. Housed'
  BY DEF SecretInv, Housed
<1>3. Carried'
  BY DEF SecretInv, Carried, NothingTaken
<1>4. PublicMade'
  BY <1>1 DEF SecretInv, PublicMade
<1>5. ASSUME NEW t \in Conn, NEW m \in Mid, Appends(t, m)' PROVE Appends(t, m)
  BY <1>5 DEF Appends, NothingTaken
<1>6. Secret'
  BY <1>1, <1>5 DEF SecretInv, Secret
<1> QED BY <1>2, <1>3, <1>4, <1>6 DEF SecretInv

LEMMA ReadingKept ==
    ASSUME TypeInv, Reading, ReadsOn, BuffersKept,
           frame' \in [Conn -> Frames], logOf' \in [Cid -> Vectors(Mid)]
    PROVE  Reading'
<1> SUFFICES ASSUME NEW s \in Conn, Reads(s)'
             PROVE  /\ frame'[s].pos["messages"] >= 1
                    /\ frame'[s].end["messages"] <= Len(logOf'[frame'[s].cid].cells)
  BY DEF Reading
<1>1. /\ Reads(s) /\ frame'[s].cid = frame[s].cid
      /\ frame'[s].pos["messages"] >= frame[s].pos["messages"]
      /\ frame'[s].end["messages"] = frame[s].end["messages"]
  BY DEF ReadsOn
<1>2. frame[s].cid \in Cid /\ frame[s] \in Frames /\ frame'[s] \in Frames
  BY <1>1 DEF TypeInv, FramesOK, Whole, HasCid, Reads
<1> DEFINE p == frame[s].pos["messages"]
           q == frame'[s].pos["messages"]
           e == frame[s].end["messages"]
           c == frame[s].cid
           before == Len(logOf[c].cells)
           after == Len(logOf'[c].cells)
<1>3. p \in Nat /\ q \in Nat /\ e \in Nat
  BY <1>2 DEF Frames, Level
<1>4. before \in Nat /\ after \in Nat
  <2>1. logOf[c] \in Vectors(Mid) /\ logOf'[c] \in Vectors(Mid)
    BY <1>2 DEF TypeInv, TablesTypeOK
  <2> HIDE DEF c
  <2>2. logOf[c].cells \in Seq(Mid) /\ logOf'[c].cells \in Seq(Mid)
    BY <2>1 DEF Vectors
  <2>3. \A w \in Seq(Mid) : Len(w) \in Nat
    OBVIOUS
  <2> QED BY <2>2, <2>3
<1>5. p >= 1 /\ e <= before
  BY <1>1 DEF Reading
<1>6. after >= before /\ q >= p
  BY <1>1, <1>2 DEF BuffersKept
<1> HIDE DEF before, after, p, q, e, c
<1>7. q >= 1 /\ e <= after
  BY <1>3, <1>4, <1>5, <1>6
<1> QED BY <1>1, <1>7 DEF after, q, e, c

LEMMA BackedKept ==
    ASSUME AllBacked, messages \subseteq messages', NothingDropped,
           \A c \in Cid : Live(logOf'[c]) \subseteq Live(logOf[c])
    PROVE  AllBacked'
BY DEF AllBacked, Backed, NothingDropped

\* A step that leaves the messages and the channels' lists alone.
LEMMA Quietly ==
    ASSUME TypeInv, ListInv, UNCHANGED <<messages, channelOf, logOf>>,
           frame' \in [Conn -> Frames], NothingNew, NothingTaken, NothingDropped, ReadsOn
    PROVE  ListInv'
<1>1. BuffersKept
  BY DEF BuffersKept, TypeInv, TablesTypeOK, Vectors
<1>2. Reading'
  BY <1>1, ReadingKept DEF ListInv, TypeInv, TablesTypeOK
<1>3. SecretInv'
  BY SecretsKept DEF ListInv
<1>4. AllBacked'
  BY BackedKept DEF ListInv
<1> QED BY <1>2, <1>3, <1>4 DEF ListInv

-----------------------------------------------------------------------------
(* Frames                                                                   *)

\* Nothing the invariant looks at differs.
Same(s) ==
    /\ frame'[s].at = frame[s].at /\ frame'[s].cid = frame[s].cid /\ frame'[s].mid = frame[s].mid
    /\ frame'[s].pos = frame[s].pos /\ frame'[s].end = frame[s].end

\* The thread works on no message before or after, and replays none after.
Elsewhere(t) ==
    /\ frame[t].at \notin Removing
    /\ frame'[t].at \notin Holding \cup {"append", "login messages"}
    /\ \A s \in Conn \ {t} : Same(s)

\* What goes for a thread whose frame is the same.
LEMMA SameFrame ==
    ASSUME TypeInv, SecretInv, NEW s \in Conn, Same(s)
    PROVE  /\ frame'[s].at = "append" =>
                 /\ frame[s].at = "append"
                 /\ frame'[s].mid = frame[s].mid /\ frame'[s].cid = frame[s].cid
           /\ frame'[s].at \in Holding =>
                 Public(frame'[s].mid) /\ channelOf[frame'[s].mid] = frame'[s].cid
           /\ frame[s].at \in Removing =>
                 frame'[s].at \in Removing /\ frame'[s].mid = frame[s].mid
           /\ Reads(s)' =>
                 /\ Reads(s) /\ frame'[s].cid = frame[s].cid
                 /\ frame'[s].pos["messages"] >= frame[s].pos["messages"]
                 /\ frame'[s].end["messages"] = frame[s].end["messages"]
<1>1. frame[s].at \in Holding => Public(frame[s].mid)
  BY DEF Public, Holds
<1>2. frame[s].at \in Holding => channelOf[frame[s].mid] = frame[s].cid
  BY DEF SecretInv, Carried
<1>3. frame[s].pos["messages"] \in Nat
  BY DEF TypeInv, FramesOK, Frames, Level
<1>4. frame'[s].at \in Holding =>
          Public(frame'[s].mid) /\ channelOf[frame'[s].mid] = frame'[s].cid
  BY <1>1, <1>2, Zenon DEF Same
<1>5. frame'[s].pos["messages"] >= frame[s].pos["messages"]
  BY <1>3 DEF Same
<1> QED BY <1>4, <1>5, Zenon DEF Same, Reads

LEMMA FramesSame ==
    ASSUME TypeInv, SecretInv, \A s \in Conn : Same(s)
    PROVE  NothingTaken /\ NothingDropped /\ ReadsOn
BY SameFrame DEF NothingTaken, NothingDropped, ReadsOn

LEMMA FramesElsewhere ==
    ASSUME TypeInv, SecretInv, NEW t \in Conn, Elsewhere(t)
    PROVE  NothingTaken /\ NothingDropped /\ ReadsOn
BY SameFrame DEF Elsewhere, NothingTaken, NothingDropped, ReadsOn, Reads

-----------------------------------------------------------------------------
(* Packets and events                                                       *)

LEMMA HeardBefore ==
    ASSUME UNCHANGED <<out, queue>>
    PROVE  NothingNew
BY DEF NothingNew, Heard, Public

\* A packet of no message, or of a public one, is written.
LEMMA WroteKnown ==
    ASSUME TypeInv, NEW t \in Conn, NEW packet \in Packets, Write(t, packet), UNCHANGED queue,
           \A m \in Mid : Says(packet, m) => Public(m)
    PROVE  NothingNew
<1> SUFFICES ASSUME NEW s \in Conn, NEW m \in Mid, Heard(s, m)'
             PROVE  Public(m)
  BY DEF NothingNew
<1>1. out \in [Conn -> Seq(Packets)] /\ Len(out[s]) \in Nat
  BY DEF TypeInv, WiresOK
<1>2. CASE \E i \in 1..Len(queue[s]) : Says(queue[s][i], m)
  BY <1>2 DEF Public, Heard
<1>3. ASSUME NEW i \in 1..Len(out'[s]), Says(out'[s][i], m)
      PROVE  Public(m)
  <2>1. CASE s = t /\ i = Len(out[t]) + 1
    BY <1>1, <1>3, <2>1 DEF Write
  <2>2. CASE ~(s = t /\ i = Len(out[t]) + 1)
    <3>1. i \in 1..Len(out[s]) /\ out'[s][i] = out[s][i]
      BY <1>1, <2>2 DEF Write
    <3> QED BY <1>3, <3>1 DEF Public, Heard
  <2> QED BY <2>1, <2>2
<1> QED BY <1>2, <1>3 DEF Heard

LEMMA EmittedKnown ==
    ASSUME TypeInv, NEW t \in Conn, NEW u, NEW packet \in Packets, Emit(t, u, packet),
           \A m \in Mid : Says(packet, m) => Public(m)
    PROVE  NothingNew
<1> SUFFICES ASSUME NEW s \in Conn, NEW m \in Mid, Heard(s, m)'
             PROVE  Public(m)
  BY DEF NothingNew
<1>1. /\ out \in [Conn -> Seq(Packets)] /\ Len(out[s]) \in Nat
      /\ queue \in [Conn -> Seq(Packets)] /\ Len(queue[s]) \in Nat
  BY DEF TypeInv, WiresOK
<1>2. out'[s] = out[s] \/ out'[s] = Append(out[s], packet)
  BY <1>1 DEF Emit
<1>3. queue'[s] = queue[s] \/ queue'[s] = Append(queue[s], packet)
  BY <1>1 DEF Emit
<1>4. ASSUME NEW w \in Seq(Packets), NEW i \in 1..Len(Append(w, packet)),
             Says(Append(w, packet)[i], m), ~Says(packet, m)
      PROVE  \E j \in 1..Len(w) : Says(w[j], m)
  <2>1. i \in 1..Len(w) /\ Append(w, packet)[i] = w[i]
    BY <1>4
  <2> QED BY <1>4, <2>1
<1>5. ASSUME ~Says(packet, m) PROVE Heard(s, m)
  <2>1. CASE \E i \in 1..Len(out'[s]) : Says(out'[s][i], m)
    BY <1>1, <1>2, <1>4, <1>5, <2>1 DEF Heard
  <2>2. CASE \E i \in 1..Len(queue'[s]) : Says(queue'[s][i], m)
    BY <1>1, <1>3, <1>4, <1>5, <2>2 DEF Heard
  <2> QED BY <2>1, <2>2 DEF Heard
<1> QED BY <1>5 DEF Public

LEMMA NotifiedKnown ==
    ASSUME TypeInv, NEW t \in Conn, NEW packet \in Packets, NotifyMember(t, packet),
           \A m \in Mid : Says(packet, m) => Public(m)
    PROVE  NothingNew
<1> DEFINE u == membersOf[frame[t].cid].cells[frame[t].pos["members"]]
<1>1. CASE u \in users
  <2>1. Emit(t, u, packet)
    BY <1>1 DEF NotifyMember
  <2> HIDE DEF u
  <2> QED BY <2>1, EmittedKnown
<1>2. CASE u \notin users
  BY <1>2, HeardBefore DEF NotifyMember
<1> QED BY <1>1, <1>2

\* Events leave the queue of a thread, or one of no message joins them.
LEMMA QueueKnown ==
    ASSUME TypeInv, UNCHANGED out,
           \A s \in Conn : \A i \in 1..Len(queue'[s]) :
               queue'[s][i].kind = "message" =>
                   \E j \in 1..Len(queue[s]) : queue[s][j] = queue'[s][i]
    PROVE  NothingNew
BY DEF NothingNew, Heard, Public, Says

\* A packet of another kind is written.
LEMMA WroteOther ==
    ASSUME TypeInv, NEW t \in Conn, UNCHANGED queue,
           \/ UNCHANGED out
           \/ \E packet \in Packets : Write(t, packet) /\ packet.kind # "message"
    PROVE  NothingNew
<1>1. CASE UNCHANGED out
  BY <1>1, HeardBefore
<1>2. ASSUME NEW packet \in Packets, Write(t, packet), packet.kind # "message"
      PROVE  NothingNew
  BY <1>2, WroteKnown DEF Says
<1> QED BY <1>1, <1>2

-----------------------------------------------------------------------------
(* The steps that leave the messages alone                                  *)

\* What such a step does.
Calm ==
    /\ UNCHANGED <<messages, channelOf, logOf>>
    /\ NothingNew /\ NothingTaken /\ NothingDropped /\ ReadsOn

LEMMA RegisterPasswordCalm ==
    ASSUME TypeInv, SecretInv, NEW t \in Conn, RegisterPassword(t)
    PROVE  Calm
<1>1. UNCHANGED <<messages, channelOf, logOf>>
  BY DEF RegisterPassword, tables, rooms, texts
<1>2. NothingNew
  BY HeardBefore DEF RegisterPassword
<1>3. Elsewhere(t)
  <2>1. frame \in [Conn -> Frames]
    BY DEF TypeInv, FramesOK
  <2>2. \A s \in Conn \ {t} : Same(s)
    BY <2>1 DEF RegisterPassword, Goto, Same
  <2>3. frame[t].at \notin Removing
    BY DEF RegisterPassword, Request, At, Removing
  <2>4. frame'[t].at \notin Holding \cup {"append", "login messages"}
    BY <2>1 DEF RegisterPassword, Goto, Frames, Request, At, Holding
  <2> QED BY <2>2, <2>3, <2>4 DEF Elsewhere
<1> QED BY <1>1, <1>2, <1>3, FramesElsewhere DEF Calm

LEMMA LoginChannelReplayedCalm ==
    ASSUME TypeInv, SecretInv, NEW t \in Conn, LoginChannelReplayed(t)
    PROVE  Calm
<1>1. UNCHANGED <<messages, channelOf, logOf>>
  BY DEF LoginChannelReplayed, tables, rooms, texts
<1>2. NothingNew
  BY HeardBefore DEF LoginChannelReplayed
<1>3. Elsewhere(t)
  <2>1. frame \in [Conn -> Frames]
    BY DEF TypeInv, FramesOK
  <2>2. \A s \in Conn \ {t} : Same(s)
    BY <2>1 DEF LoginChannelReplayed, Goto, Same
  <2>3. frame[t].at \notin Removing
    BY DEF LoginChannelReplayed, Request, At, Removing
  <2>4. frame'[t].at \notin Holding \cup {"append", "login messages"}
    BY <2>1 DEF LoginChannelReplayed, Goto, Frames, Request, At, Holding
  <2> QED BY <2>2, <2>3, <2>4 DEF Elsewhere
<1> QED BY <1>1, <1>2, <1>3, FramesElsewhere DEF Calm

LEMMA LoginFinishedCalm ==
    ASSUME TypeInv, SecretInv, NEW t \in Conn, LoginFinished(t)
    PROVE  Calm
<1>1. UNCHANGED <<messages, channelOf, logOf>>
  BY DEF LoginFinished, tables, rooms, texts
<1>2. NothingNew
  BY HeardBefore DEF LoginFinished
<1>3. Elsewhere(t)
  <2>1. frame \in [Conn -> Frames]
    BY DEF TypeInv, FramesOK
  <2>2. \A s \in Conn \ {t} : Same(s)
    BY <2>1 DEF LoginFinished, Done, Return, Idle, Same
  <2>3. frame[t].at \notin Removing
    BY DEF LoginFinished, Request, At, Removing
  <2>4. frame'[t].at \notin Holding \cup {"append", "login messages"}
    BY <2>1 DEF LoginFinished, Done, Return, Idle, Frames, Request, At, Holding
  <2> QED BY <2>2, <2>3, <2>4 DEF Elsewhere
<1> QED BY <1>1, <1>2, <1>3, FramesElsewhere DEF Calm

LEMMA ListAccountCalm ==
    ASSUME TypeInv, SecretInv, NEW t \in Conn, ListAccount(t)
    PROVE  Calm
<1>1. UNCHANGED <<messages, channelOf, logOf>>
  BY DEF ListAccount, tables, rooms, texts
<1>2. NothingNew
  BY HeardBefore DEF ListAccount
<1>3. Elsewhere(t)
  <2>1. frame \in [Conn -> Frames]
    BY DEF TypeInv, FramesOK
  <2>2. \A s \in Conn \ {t} : Same(s)
    BY <2>1 DEF ListAccount, Same
  <2>3. frame[t].at \notin Removing
    BY DEF ListAccount, Request, At, Removing
  <2>4. frame'[t].at \notin Holding \cup {"append", "login messages"}
    BY <2>1 DEF ListAccount, Frames, Request, At, Holding
  <2> QED BY <2>2, <2>3, <2>4 DEF Elsewhere
<1> QED BY <1>1, <1>2, <1>3, FramesElsewhere DEF Calm

LEMMA DeleteChannelFinishedCalm ==
    ASSUME TypeInv, SecretInv, NEW t \in Conn, DeleteChannelFinished(t)
    PROVE  Calm
<1>1. UNCHANGED <<messages, channelOf, logOf>>
  BY DEF DeleteChannelFinished, tables, rooms, texts
<1>2. NothingNew
  BY HeardBefore DEF DeleteChannelFinished
<1>3. Elsewhere(t)
  <2>1. frame \in [Conn -> Frames]
    BY DEF TypeInv, FramesOK
  <2>2. \A s \in Conn \ {t} : Same(s)
    BY <2>1 DEF DeleteChannelFinished, Goto, Same
  <2>3. frame[t].at \notin Removing
    BY DEF DeleteChannelFinished, Request, At, Removing
  <2>4. frame'[t].at \notin Holding \cup {"append", "login messages"}
    BY <2>1 DEF DeleteChannelFinished, Goto, Frames, Request, At, Holding
  <2> QED BY <2>2, <2>3, <2>4 DEF Elsewhere
<1> QED BY <1>1, <1>2, <1>3, FramesElsewhere DEF Calm

LEMMA CreateFinishedCalm ==
    ASSUME TypeInv, SecretInv, NEW t \in Conn, CreateFinished(t)
    PROVE  Calm
<1>1. UNCHANGED <<messages, channelOf, logOf>>
  BY DEF CreateFinished, tables, rooms, texts
<1>2. NothingNew
  BY HeardBefore DEF CreateFinished
<1>3. Elsewhere(t)
  <2>1. frame \in [Conn -> Frames]
    BY DEF TypeInv, FramesOK
  <2>2. \A s \in Conn \ {t} : Same(s)
    BY <2>1 DEF CreateFinished, Done, Return, Idle, Same
  <2>3. frame[t].at \notin Removing
    BY DEF CreateFinished, Request, At, Removing
  <2>4. frame'[t].at \notin Holding \cup {"append", "login messages"}
    BY <2>1 DEF CreateFinished, Done, Return, Idle, Frames, Request, At, Holding
  <2> QED BY <2>2, <2>3, <2>4 DEF Elsewhere
<1> QED BY <1>1, <1>2, <1>3, FramesElsewhere DEF Calm

LEMMA RegisterCalm ==
    ASSUME TypeInv, SecretInv, NEW t \in Conn, NEW n \in Name, NEW p \in Password, Register(t, n, p)
    PROVE  Calm
<1>1. UNCHANGED <<messages, channelOf, logOf>>
  BY DEF Register, tables, rooms, texts
<1>2. NothingNew
  <2>1. UNCHANGED out \/ \E packet \in Packets : Write(t, packet) /\ packet.kind # "message"
    BY ErrorType DEF Register, Kinds
  <2> QED BY <2>1, WroteOther DEF Register
<1>3. Elsewhere(t)
  <2>1. frame \in [Conn -> Frames]
    BY DEF TypeInv, FramesOK
  <2>2. \A s \in Conn \ {t} : Same(s)
    BY <2>1 DEF Register, Same
  <2>3. frame[t].at \notin Removing
    BY DEF Register, Request, At, Removing
  <2>4. frame'[t].at \notin Holding \cup {"append", "login messages"}
    <3>1. CASE UNCHANGED frame
      BY <3>1 DEF Register, Request, Holding
    <3>2. ASSUME NEW u, frame' = [frame EXCEPT ![t].at = "add password", ![t].uid = u,
                                               ![t].password = p]
          PROVE  frame'[t].at \notin Holding \cup {"append", "login messages"}
      BY <2>1, <3>2 DEF Frames, Holding
    <3> QED BY <3>1, <3>2 DEF Register
  <2> QED BY <2>2, <2>3, <2>4 DEF Elsewhere
<1> QED BY <1>1, <1>2, <1>3, FramesElsewhere DEF Calm

LEMMA LoginCalm ==
    ASSUME TypeInv, SecretInv, NEW t \in Conn, NEW n \in Name, NEW p \in Password, Login(t, n, p)
    PROVE  Calm
<1>1. UNCHANGED <<messages, channelOf, logOf>>
  BY DEF Login, tables, rooms, texts
<1>2. NothingNew
  <2>1. UNCHANGED out \/ \E packet \in Packets : Write(t, packet) /\ packet.kind # "message"
    BY ErrorType DEF Login, Kinds
  <2> QED BY <2>1, WroteOther DEF Login
<1>3. Elsewhere(t)
  <2>1. frame \in [Conn -> Frames]
    BY DEF TypeInv, FramesOK
  <2>2. \A s \in Conn \ {t} : Same(s)
    BY <2>1 DEF Login, Same
  <2>3. frame[t].at \notin Removing
    BY DEF Login, Request, At, Removing
  <2>4. frame'[t].at \notin Holding \cup {"append", "login messages"}
    <3>1. CASE UNCHANGED frame
      BY <3>1 DEF Login, Request, Holding
    <3>2. ASSUME NEW u, frame' = [frame EXCEPT ![t].at = "login user", ![t].uid = u]
          PROVE  frame'[t].at \notin Holding \cup {"append", "login messages"}
      BY <2>1, <3>2 DEF Frames, Holding
    <3> QED BY <3>1, <3>2 DEF Login
  <2> QED BY <2>2, <2>3, <2>4 DEF Elsewhere
<1> QED BY <1>1, <1>2, <1>3, FramesElsewhere DEF Calm

LEMMA DeleteAccountCalm ==
    ASSUME TypeInv, SecretInv, NEW t \in Conn, NEW n \in Name, NEW p \in Password,
           DeleteAccount(t, n, p)
    PROVE  Calm
<1>1. UNCHANGED <<messages, channelOf, logOf>>
  BY DEF DeleteAccount, tables, rooms, texts
<1>2. NothingNew
  <2>1. UNCHANGED out \/ \E packet \in Packets : Write(t, packet) /\ packet.kind # "message"
    BY ErrorType DEF DeleteAccount, Kinds
  <2> QED BY <2>1, WroteOther DEF DeleteAccount
<1>3. Elsewhere(t)
  <2>1. frame \in [Conn -> Frames]
    BY DEF TypeInv, FramesOK
  <2>2. \A s \in Conn \ {t} : Same(s)
    BY <2>1 DEF DeleteAccount, Same
  <2>3. frame[t].at \notin Removing
    BY DEF DeleteAccount, Request, At, Removing
  <2>4. frame'[t].at \notin Holding \cup {"append", "login messages"}
    <3>1. CASE UNCHANGED frame
      BY <3>1 DEF DeleteAccount, Request, Holding
    <3>2. ASSUME NEW u, frame' = [frame EXCEPT ![t].at = "delete user", ![t].uid = u]
          PROVE  frame'[t].at \notin Holding \cup {"append", "login messages"}
      BY <2>1, <3>2 DEF Frames, Holding
    <3> QED BY <3>1, <3>2 DEF DeleteAccount
  <2> QED BY <2>2, <2>3, <2>4 DEF Elsewhere
<1> QED BY <1>1, <1>2, <1>3, FramesElsewhere DEF Calm

LEMMA ListAccountsCalm ==
    ASSUME TypeInv, SecretInv, NEW t \in Conn, NEW regex \in (SUBSET Name) \cup {Nil},
           ListAccounts(t, regex)
    PROVE  Calm
<1>1. UNCHANGED <<messages, channelOf, logOf>>
  BY DEF ListAccounts, tables, rooms, texts
<1>2. NothingNew
  <2>1. UNCHANGED out \/ \E packet \in Packets : Write(t, packet) /\ packet.kind # "message"
    BY ErrorType DEF ListAccounts, Kinds
  <2> QED BY <2>1, WroteOther DEF ListAccounts
<1>3. Elsewhere(t)
  <2>1. frame \in [Conn -> Frames]
    BY DEF TypeInv, FramesOK
  <2>2. \A s \in Conn \ {t} : Same(s)
    BY <2>1 DEF ListAccounts, Same
  <2>3. frame[t].at \notin Removing
    BY DEF ListAccounts, Request, At, Removing
  <2>4. frame'[t].at \notin Holding \cup {"append", "login messages"}
    <3>1. CASE UNCHANGED frame
      BY <3>1 DEF ListAccounts, Request, Holding
    <3>2. ASSUME NEW us, frame' = [frame EXCEPT ![t].at = "list", ![t].todo = us]
          PROVE  frame'[t].at \notin Holding \cup {"append", "login messages"}
      BY <2>1, <3>2 DEF Frames, Holding
    <3> QED BY <3>1, <3>2 DEF ListAccounts
  <2> QED BY <2>2, <2>3, <2>4 DEF Elsewhere
<1> QED BY <1>1, <1>2, <1>3, FramesElsewhere DEF Calm

LEMMA CreateChannelCalm ==
    ASSUME TypeInv, SecretInv, NEW t \in Conn, NEW other \in Announced, CreateChannel(t, other)
    PROVE  Calm
<1>1. UNCHANGED <<messages, channelOf, logOf>>
  BY DEF CreateChannel, tables, rooms, texts
<1>2. NothingNew
  BY HeardBefore DEF CreateChannel
<1>3. Elsewhere(t)
  <2>1. frame \in [Conn -> Frames]
    BY DEF TypeInv, FramesOK
  <2>2. \A s \in Conn \ {t} : Same(s)
    BY <2>1 DEF CreateChannel, Loop, Same
  <2>3. frame[t].at \notin Removing
    BY DEF CreateChannel, Request, At, Removing
  <2>4. frame'[t].at \notin Holding \cup {"append", "login messages"}
    BY <2>1 DEF CreateChannel, Loop, Frames, Request, At, Holding
  <2> QED BY <2>2, <2>3, <2>4 DEF Elsewhere
<1> QED BY <1>1, <1>2, <1>3, FramesElsewhere DEF Calm

LEMMA DeleteUserCalm ==
    ASSUME TypeInv, SecretInv, NEW t \in Conn, DeleteUser(t)
    PROVE  Calm
<1>1. UNCHANGED <<messages, channelOf, logOf>>
  BY DEF DeleteUser, tables, rooms, texts
<1>2. NothingNew
  <2>1. UNCHANGED out \/ \E packet \in Packets : Write(t, packet) /\ packet.kind # "message"
    BY ErrorType DEF DeleteUser, Kinds
  <2> QED BY <2>1, WroteOther DEF DeleteUser
<1>3. Elsewhere(t)
  <2>1. frame \in [Conn -> Frames]
    BY DEF TypeInv, FramesOK
  <2>2. \A s \in Conn \ {t} : Same(s)
    BY <2>1 DEF DeleteUser, Done, Return, Idle, Loop, Same
  <2>3. frame[t].at \notin Removing
    BY DEF DeleteUser, Request, At, Removing
  <2>4. frame'[t].at \notin Holding \cup {"append", "login messages"}
    <3> DEFINE g == [frame[t] EXCEPT !.at = "delete channels"]
    <3>1. CASE Done(t)
      BY <2>1, <3>1 DEF Done, Return, Idle, Holding
    <3>2. ASSUME NEW v, frame' = [frame EXCEPT ![t] = Loop(g, "channels", v)]
          PROVE  frame'[t].at \notin Holding \cup {"append", "login messages"}
      <4>1. g.at = "delete channels" /\ "at" \in DOMAIN g
        BY <2>1 DEF Frames
      <4> HIDE DEF g
      <4>2. Loop(g, "channels", v).at = "delete channels"
        BY <4>1 DEF Loop
      <4>3. frame'[t].at = "delete channels"
        BY <2>1, <3>2, <4>2
      <4> QED BY <4>3 DEF Holding
    <3> QED BY <3>1, <3>2 DEF DeleteUser
  <2> QED BY <2>2, <2>3, <2>4 DEF Elsewhere
<1> QED BY <1>1, <1>2, <1>3, FramesElsewhere DEF Calm

\* What a step of t must see to when the frames of the others are the same.
LEMMA FramesBut ==
    ASSUME TypeInv, SecretInv, NEW t \in Conn, \A s \in Conn \ {t} : Same(s),
           frame'[t].at \notin {"append", "login messages"},
           frame'[t].at \in Holding =>
               Public(frame'[t].mid) /\ channelOf[frame'[t].mid] = frame'[t].cid,
           frame[t].at \in Removing => frame'[t].at \in Removing /\ frame'[t].mid = frame[t].mid
    PROVE  NothingTaken /\ NothingDropped /\ ReadsOn
BY SameFrame DEF NothingTaken, NothingDropped, ReadsOn, Reads

LEMMA AcceptCalm ==
    ASSUME TypeInv, SecretInv, NEW t \in Conn, Accept(t)
    PROVE  Calm
<1>1. UNCHANGED <<messages, channelOf, logOf>>
  BY DEF Accept, tables, rooms, texts
<1>2. NothingNew
  BY HeardBefore DEF Accept
<1>3. \A s \in Conn : Same(s)
  BY DEF Accept, Same
<1> QED BY <1>1, <1>2, <1>3, FramesSame DEF Calm

LEMMA RegisterUserCalm ==
    ASSUME TypeInv, SecretInv, NEW t \in Conn, RegisterUser(t)
    PROVE  Calm
<1>1. UNCHANGED <<messages, channelOf, logOf>>
  BY DEF RegisterUser, tables, rooms, texts
<1>2. NothingNew
  <2>1. frame[t].uid \in Uid
    BY DEF TypeInv, FramesOK, Whole, HasUid, RegisterUser, At
  <2>2. Packet("register", {frame[t].uid}) \in Packets
        /\ Packet("register", {frame[t].uid}).kind = "register"
    <3>1. "register" \in Kinds /\ frame[t].uid \in Uid \cup Cid \cup Mid
      BY <2>1 DEF Kinds
    <3> QED BY <3>1, OneType
  <2>3. \E packet \in Packets : Write(t, packet) /\ packet.kind # "message"
    BY <2>2 DEF RegisterUser
  <2> QED BY <2>3, WroteOther DEF RegisterUser
<1>3. Elsewhere(t)
  <2>1. frame \in [Conn -> Frames]
    BY DEF TypeInv, FramesOK
  <2>2. \A s \in Conn \ {t} : Same(s)
    BY <2>1 DEF RegisterUser, Done, Return, Same
  <2>3. frame[t].at \notin Removing
    BY DEF RegisterUser, At, Removing
  <2>4. frame'[t].at \notin Holding \cup {"append", "login messages"}
    BY <2>1 DEF RegisterUser, Frames, Done, Return, Idle, Holding
  <2> QED BY <2>2, <2>3, <2>4 DEF Elsewhere
<1> QED BY <1>1, <1>2, <1>3, FramesElsewhere DEF Calm

LEMMA ListFinishedCalm ==
    ASSUME TypeInv, SecretInv, NEW t \in Conn, ListFinished(t)
    PROVE  Calm
<1>1. UNCHANGED <<messages, channelOf, logOf>>
  BY DEF ListFinished, tables, rooms, texts
<1>2. NothingNew
  <2>1. frame[t].found \in SUBSET (Uid \cup Cid \cup Mid)
    BY DEF TypeInv, FramesOK, Frames
  <2>2. "accounts" \in Kinds
    BY DEF Kinds
  <2>3. Packet("accounts", frame[t].found) \in Packets
        /\ Packet("accounts", frame[t].found).kind = "accounts"
    BY <2>1, <2>2, PacketType
  <2>4. \E packet \in Packets : Write(t, packet) /\ packet.kind # "message"
    BY <2>3 DEF ListFinished
  <2> QED BY <2>4, WroteOther DEF ListFinished
<1>3. Elsewhere(t)
  <2>1. frame \in [Conn -> Frames]
    BY DEF TypeInv, FramesOK
  <2>2. \A s \in Conn \ {t} : Same(s)
    BY <2>1 DEF ListFinished, Done, Return, Same
  <2>3. frame[t].at \notin Removing
    BY DEF ListFinished, At, Removing
  <2>4. frame'[t].at \notin Holding \cup {"append", "login messages"}
    BY <2>1 DEF ListFinished, Frames, Done, Return, Idle, Holding
  <2> QED BY <2>2, <2>3, <2>4 DEF Elsewhere
<1> QED BY <1>1, <1>2, <1>3, FramesElsewhere DEF Calm

LEMMA DeleteAccountFinishedCalm ==
    ASSUME TypeInv, SecretInv, NEW t \in Conn, DeleteAccountFinished(t)
    PROVE  Calm
<1>1. UNCHANGED <<messages, channelOf, logOf>>
  BY DEF DeleteAccountFinished, tables, rooms, texts
<1>2. NothingNew
  <2> DEFINE packet == Packet("delete account", {frame[t].uid} \cap users)
  <2>1. "delete account" \in Kinds /\ {frame[t].uid} \cap users \in SUBSET (Uid \cup Cid \cup Mid)
    BY DEF TypeInv, TablesTypeOK, Kinds
  <2>2. packet \in Packets /\ packet.kind = "delete account"
    BY <2>1, PacketType
  <2>3. \E x \in Packets : Write(t, x) /\ x.kind # "message"
    BY <2>2 DEF DeleteAccountFinished
  <2> QED BY <2>3, WroteOther DEF DeleteAccountFinished
<1>3. Elsewhere(t)
  <2>1. frame \in [Conn -> Frames]
    BY DEF TypeInv, FramesOK
  <2>2. \A s \in Conn \ {t} : Same(s)
    BY <2>1 DEF DeleteAccountFinished, Done, Return, Same
  <2>3. frame[t].at \notin Removing
    BY DEF DeleteAccountFinished, At, Removing
  <2>4. frame'[t].at \notin Holding \cup {"append", "login messages"}
    BY <2>1 DEF DeleteAccountFinished, Frames, Done, Return, Idle, Holding
  <2> QED BY <2>2, <2>3, <2>4 DEF Elsewhere
<1> QED BY <1>1, <1>2, <1>3, FramesElsewhere DEF Calm

LEMMA LoginUserCalm ==
    ASSUME TypeInv, SecretInv, NEW t \in Conn, LoginUser(t)
    PROVE  Calm
<1>1. UNCHANGED <<messages, channelOf, logOf>>
  BY DEF LoginUser, tables, rooms, texts
<1>2. frame \in [Conn -> Frames] /\ frame[t].uid \in Uid
  BY DEF TypeInv, FramesOK, Whole, HasUid, LoginUser, At
<1>3. CASE frame[t].uid \notin users
  <2>1. UNCHANGED <<out, frame, queue>>
    BY <1>3 DEF LoginUser
  <2>2. \A s \in Conn : Same(s)
    BY <2>1 DEF Same
  <2> QED BY <1>1, <2>1, <2>2, HeardBefore, FramesSame DEF Calm
<1>4. CASE frame[t].uid \in users
  <2> DEFINE packet == Packet("login", {frame[t].uid})
             g == [frame[t] EXCEPT !.at = "login channels"]
             f == Loop(g, "channels", chansOf[frame[t].uid])
  <2>1. packet \in Packets /\ packet.kind = "login"
    <3>1. "login" \in Kinds /\ frame[t].uid \in Uid \cup Cid \cup Mid
      BY <1>2 DEF Kinds
    <3> QED BY <3>1, OneType
  <2>2. Write(t, packet) /\ UNCHANGED queue
    BY <1>4 DEF LoginUser
  <2>3. NothingNew
    <3> HIDE DEF packet
    <3> QED BY <2>1, <2>2, WroteOther
  <2>4. frame' = [frame EXCEPT ![t] = f]
    BY <1>4 DEF LoginUser
  <2>5. g.at = "login channels" /\ "at" \in DOMAIN g
    BY <1>2 DEF Frames
  <2>6. f.at = "login channels"
    <3> HIDE DEF g
    <3> QED BY <2>5 DEF Loop
  <2> HIDE DEF f
  <2>7. Elsewhere(t)
    <3>1. \A s \in Conn \ {t} : Same(s)
      BY <1>2, <2>4 DEF Same
    <3>2. frame[t].at \notin Removing
      BY DEF LoginUser, At, Removing
    <3>3. frame'[t].at \notin Holding \cup {"append", "login messages"}
      BY <1>2, <2>4, <2>6 DEF Holding
    <3> QED BY <3>1, <3>2, <3>3 DEF Elsewhere
  <2> QED BY <1>1, <2>3, <2>7, FramesElsewhere DEF Calm
<1> QED BY <1>3, <1>4

\* One channel of the loop over a user's channels is begun, or skipped.
LEMMA DeleteFromChannelCalm ==
    ASSUME TypeInv, SecretInv, NEW t \in Conn, DeleteFromChannel(t)
    PROVE  Calm
<1>1. UNCHANGED <<messages, channelOf, logOf>>
  BY DEF DeleteFromChannel, tables, rooms, texts
<1>2. NothingNew
  BY HeardBefore DEF DeleteFromChannel
<1>3. Elsewhere(t)
  <2>1. frame \in [Conn -> Frames]
    BY DEF TypeInv, FramesOK
  <2>2. \A s \in Conn \ {t} : Same(s)
    BY <2>1 DEF DeleteFromChannel, Same
  <2>3. frame[t].at = "delete channels"
    BY DEF DeleteFromChannel, At
  <2>4. ASSUME frame' = [frame EXCEPT ![t] = Advance(@, "channels")]
        PROVE  frame'[t].at = "delete channels"
    BY <2>1, <2>3, <2>4 DEF Frames, Advance
  <2>5. ASSUME NEW c, frame' = [frame EXCEPT ![t] =
                   Loop(Advance([@ EXCEPT !.at = "delete messages", !.cid = c], "channels"),
                        "messages", logOf[c])]
        PROVE  frame'[t].at = "delete messages"
    <3> DEFINE g == [frame[t] EXCEPT !.at = "delete messages", !.cid = c]
               h == Advance(g, "channels")
    <3>1. g.at = "delete messages" /\ "at" \in DOMAIN g
      BY <2>1 DEF Frames
    <3> HIDE DEF g
    <3>2. h.at = "delete messages" /\ "at" \in DOMAIN h
      BY <3>1 DEF Advance
    <3> HIDE DEF h
    <3>3. Loop(h, "messages", logOf[c]).at = "delete messages"
      BY <3>2 DEF Loop
    <3>4. frame' = [frame EXCEPT ![t] = Loop(h, "messages", logOf[c])]
      BY <2>5 DEF g, h
    <3> QED BY <2>1, <3>3, <3>4
  <2>6. frame'[t].at \in {"delete channels", "delete messages"}
    BY <2>4, <2>5 DEF DeleteFromChannel
  <2> QED BY <2>2, <2>3, <2>6 DEF Elsewhere, Holding, Removing
<1> QED BY <1>1, <1>2, <1>3, FramesElsewhere DEF Calm

LEMMA DeleteFindMessageCalm ==
    ASSUME TypeInv, SecretInv, NEW t \in Conn, DeleteFindMessage(t)
    PROVE  Calm
<1>1. UNCHANGED <<messages, channelOf, logOf>>
  BY DEF DeleteFindMessage, tables, rooms, texts
<1>2. NothingNew
  BY HeardBefore DEF DeleteFindMessage
<1>3. Elsewhere(t)
  <2>1. frame \in [Conn -> Frames]
    BY DEF TypeInv, FramesOK
  <2>2. \A s \in Conn \ {t} : Same(s)
    BY <2>1 DEF DeleteFindMessage, Same
  <2>3. frame[t].at = "delete messages"
    BY DEF DeleteFindMessage, At
  <2>4. ASSUME frame' = [frame EXCEPT ![t] = Advance(@, "messages")]
        PROVE  frame'[t].at = "delete messages"
    BY <2>1, <2>3, <2>4 DEF Frames, Advance
  <2>5. ASSUME NEW m, frame' = [frame EXCEPT ![t].at = "delete text", ![t].mid = m]
        PROVE  frame'[t].at = "delete text"
    BY <2>1, <2>5 DEF Frames
  <2>6. frame'[t].at \in {"delete messages", "delete text"}
    BY <2>4, <2>5 DEF DeleteFindMessage
  <2> QED BY <2>2, <2>3, <2>6 DEF Elsewhere, Holding, Removing
<1> QED BY <1>1, <1>2, <1>3, FramesElsewhere DEF Calm

\* Only the mark of a moved buffer is set in another thread's frame.
LEMMA PushedSame ==
    ASSUME TypeInv, NEW t \in Conn, NEW f, NEW level, NEW x, NEW v, Pushed(t, f, level, x, v)
    PROVE  frame'[t] = f /\ \A s \in Conn \ {t} : Same(s)
<1>1. frame \in [Conn -> Frames]
  BY DEF TypeInv, FramesOK
<1>2. frame'[t] = f
  BY DEF Pushed
<1>3. ASSUME NEW s \in Conn \ {t} PROVE Same(s)
  <2>1. frame'[s] = frame[s] \/ frame'[s] = [frame[s] EXCEPT !.loose = @ \cup {level}]
    BY DEF Pushed
  <2>2. frame[s] \in Frames
    BY <1>1
  <2> QED BY <2>1, <2>2 DEF Frames, Same
<1> QED BY <1>2, <1>3

LEMMA CreateMemberCalm ==
    ASSUME TypeInv, SecretInv, NEW t \in Conn, CreateMember(t)
    PROVE  Calm
<1>1. UNCHANGED <<messages, channelOf, logOf>>
  BY DEF CreateMember, tables, rooms, texts
<1>2. NothingNew
  BY HeardBefore DEF CreateMember
<1>3. Elsewhere(t)
  <2>1. frame \in [Conn -> Frames]
    BY DEF TypeInv, FramesOK
  <2>2. frame[t].at = "create members"
    BY DEF CreateMember, At
  <2>3. ASSUME frame' = [frame EXCEPT ![t] = Advance(@, "members")]
        PROVE  frame'[t].at = "create members" /\ \A s \in Conn \ {t} : Same(s)
    BY <2>1, <2>2, <2>3 DEF Frames, Advance, Same
  <2>4. ASSUME NEW u, NEW v,
               Pushed(t, [frame[t] EXCEPT !.at = "create announce", !.uid = u], "channels", u, v)
        PROVE  frame'[t].at = "create announce" /\ \A s \in Conn \ {t} : Same(s)
    <3> DEFINE g == [frame[t] EXCEPT !.at = "create announce", !.uid = u]
    <3>1. g.at = "create announce"
      BY <2>1 DEF Frames
    <3> HIDE DEF g
    <3> QED BY <2>4, <3>1, PushedSame DEF g
  <2>5. frame'[t].at \in {"create members", "create announce"} /\ \A s \in Conn \ {t} : Same(s)
    BY <2>3, <2>4 DEF CreateMember
  <2> QED BY <2>2, <2>5 DEF Elsewhere, Holding, Removing
<1> QED BY <1>1, <1>2, <1>3, FramesElsewhere DEF Calm

LEMMA CreateAnnounceCalm ==
    ASSUME TypeInv, SecretInv, NEW t \in Conn, CreateAnnounce(t)
    PROVE  Calm
<1>1. UNCHANGED <<messages, channelOf, logOf>>
  BY DEF CreateAnnounce, tables, rooms, texts
<1>2. frame \in [Conn -> Frames] /\ frame[t].cid \in Cid /\ frame[t].at = "create announce"
  BY DEF TypeInv, FramesOK, Whole, HasCid, CreateAnnounce, At
<1>3. NothingNew
  <2> DEFINE packet == Packet("channel", {frame[t].cid})
  <2>1. packet \in Packets /\ packet.kind = "channel"
    <3>1. frame[t].cid \in Uid \cup Cid \cup Mid /\ "channel" \in Kinds
      BY <1>2 DEF Kinds
    <3> QED BY <3>1, OneType
  <2>2. Emit(t, frame[t].uid, packet)
    BY DEF CreateAnnounce
  <2> HIDE DEF packet
  <2> QED BY <2>1, <2>2, EmittedKnown DEF Says
<1>4. Elsewhere(t)
  <2>1. frame'[t].at = "create members"
    BY <1>2 DEF CreateAnnounce, Frames, Advance
  <2>2. \A s \in Conn \ {t} : Same(s)
    BY <1>2 DEF CreateAnnounce, Same
  <2> QED BY <1>2, <2>1, <2>2 DEF Elsewhere, Holding, Removing
<1> QED BY <1>1, <1>3, <1>4, FramesElsewhere DEF Calm

\* What a loop over a channel's messages reads in a cell: a stored message is a listed one,
\* or was listed before it was erased.
LEMMA CellPublic ==
    ASSUME TypeInv, Reading, NEW t \in Conn, Reads(t), More(t, "messages"),
           NEW m \in Cell(t, "messages", logOf, frame[t].cid), m \in messages
    PROVE  Public(m)
<1>1. m \in Mid /\ m # Nil /\ DOMAIN logOf = Cid
  BY NilAssumption DEF TypeInv, TablesTypeOK
<1>2. CASE "messages" \in frame[t].loose
  <2>1. m \in UNION {{logOf[y].cells[i] : i \in 1..Len(logOf[y].cells)} : y \in Cid}
    BY <1>1, <1>2 DEF Cell
  <2>2. PICK y \in Cid : m \in {logOf[y].cells[i] : i \in 1..Len(logOf[y].cells)}
    BY <2>1
  <2> QED BY <2>2 DEF Public, Cells
<1>3. CASE "messages" \notin frame[t].loose
  <2> DEFINE c == frame[t].cid
             p == frame[t].pos["messages"]
             e == frame[t].end["messages"]
             n == Len(logOf[c].cells)
  <2>1. c \in Cid /\ frame[t] \in Frames
    BY DEF TypeInv, FramesOK, Whole, HasCid, Reads
  <2>2. p \in Nat /\ e \in Nat
    BY <2>1 DEF Frames, Level
  <2>3. n \in Nat
    <3>1. logOf[c] \in Vectors(Mid)
      BY <2>1 DEF TypeInv, TablesTypeOK
    <3> HIDE DEF c
    <3>2. logOf[c].cells \in Seq(Mid)
      BY <3>1 DEF Vectors
    <3> QED BY <3>2
  <2>4. p >= 1 /\ e <= n /\ p <= e
    BY DEF Reading, More
  <2>5. m = logOf[c].cells[p]
    BY <1>3 DEF Cell
  <2> HIDE DEF p, e, c, n
  <2>6. p \in 1..n
    BY <2>2, <2>3, <2>4
  <2>7. m \in Cells(logOf[c])
    BY <2>5, <2>6 DEF Cells, n
  <2>8. c \in Cid
    BY <2>1 DEF c
  <2> QED BY <2>7, <2>8 DEF Public
<1> QED BY <1>2, <1>3

LEMMA LoginMessageCalm ==
    ASSUME TypeInv, Reading, SecretInv, NEW t \in Conn, LoginMessage(t)
    PROVE  Calm
<1>1. UNCHANGED <<messages, channelOf, logOf>>
  BY DEF LoginMessage, tables, rooms, texts
<1>2. frame \in [Conn -> Frames] /\ Reads(t) /\ More(t, "messages")
  BY DEF TypeInv, FramesOK, LoginMessage, At, Reads
<1>3. NothingNew
  <2>1. CASE UNCHANGED out
    BY <2>1, HeardBefore DEF LoginMessage
  <2>2. ASSUME NEW m \in Cell(t, "messages", logOf, frame[t].cid), m \in messages,
               Write(t, Packet("message", {m}))
        PROVE  NothingNew
    <3> DEFINE packet == Packet("message", {m})
    <3>1. m \in Uid \cup Cid \cup Mid /\ "message" \in Kinds
      BY <2>2 DEF TypeInv, TablesTypeOK, Kinds
    <3>2. packet \in Packets /\ packet.ids = {m}
      BY <3>1, OneType
    <3>3. Public(m)
      BY <1>2, <2>2, CellPublic
    <3>4. UNCHANGED queue
      BY DEF LoginMessage
    <3>5. Write(t, packet)
      BY <2>2
    <3> HIDE DEF packet
    <3>6. \A x \in Mid : Says(packet, x) => Public(x)
      BY <3>2, <3>3 DEF Says
    <3> QED BY <3>2, <3>4, <3>5, <3>6, WroteKnown
  <2> QED BY <2>1, <2>2 DEF LoginMessage
<1>4. /\ Advance(frame[t], "messages").at = frame[t].at
      /\ Advance(frame[t], "messages").cid = frame[t].cid
      /\ Advance(frame[t], "messages").end = frame[t].end
      /\ Advance(frame[t], "messages").pos["messages"] = frame[t].pos["messages"] + 1
      /\ frame[t].pos["messages"] \in Nat
  BY <1>2 DEF Frames, Advance, Level
<1>5. frame'[t] = Advance(frame[t], "messages") /\ \A s \in Conn \ {t} : frame'[s] = frame[s]
  BY <1>2 DEF LoginMessage
<1>6. /\ Reads(t)' /\ frame'[t].cid = frame[t].cid
      /\ frame'[t].pos["messages"] >= frame[t].pos["messages"]
      /\ frame'[t].end["messages"] = frame[t].end["messages"]
  <2>1. frame'[t].pos["messages"] >= frame[t].pos["messages"]
    BY <1>4, <1>5
  <2> QED BY <1>2, <1>4, <1>5, <2>1, Zenon DEF Reads
<1>7. \A s \in Conn \ {t} : Same(s)
  BY <1>5 DEF Same
<1>8. /\ frame[t].at \notin Removing
      /\ frame'[t].at \notin Holding \cup {"append"}
  BY <1>2, <1>6 DEF Reads, Removing, Holding
<1>9. NothingTaken
  BY <1>7, <1>8, SameFrame DEF NothingTaken
<1>10. NothingDropped
  BY <1>7, <1>8, SameFrame DEF NothingDropped
<1>11. ReadsOn
  BY <1>2, <1>6, <1>7, SameFrame DEF ReadsOn
<1> QED BY <1>1, <1>3, <1>9, <1>10, <1>11 DEF Calm

\* The replay of a channel begins at the first cell of its buffer.
LEMMA LoginChannelLists ==
    ASSUME TypeInv, ListInv, NEW t \in Conn, LoginChannel(t)
    PROVE  ListInv'
<1>1. UNCHANGED <<messages, channelOf, logOf>>
  BY DEF LoginChannel, tables, rooms, texts
<1>2. frame \in [Conn -> Frames] /\ frame[t].at = "login channels"
  BY DEF TypeInv, FramesOK, LoginChannel, At
<1>3. NothingNew
  <2>1. ASSUME NEW c \in channels, Write(t, Packet("channel", {c}))
        PROVE  \E packet \in Packets : Write(t, packet) /\ packet.kind # "message"
    <3>1. c \in Uid \cup Cid \cup Mid /\ "channel" \in Kinds
      BY DEF TypeInv, TablesTypeOK, Kinds
    <3> QED BY <2>1, <3>1, OneType
  <2>2. UNCHANGED out \/ \E packet \in Packets : Write(t, packet) /\ packet.kind # "message"
    BY <2>1 DEF LoginChannel
  <2> QED BY <2>2, WroteOther DEF LoginChannel
<1>4. \A s \in Conn \ {t} : frame'[s] = frame[s]
  BY <1>2 DEF LoginChannel
<1>5. \/ frame'[t].at = "login channels"
      \/ /\ frame'[t].at = "login messages"
         /\ \E c \in channels :
               /\ frame'[t].cid = c
               /\ frame'[t].pos["messages"] = 1 /\ frame'[t].end["messages"] = logOf[c].len
  <2>1. ASSUME frame' = [frame EXCEPT ![t] = Advance(@, "channels")]
        PROVE  frame'[t].at = "login channels"
    BY <1>2, <2>1 DEF Frames, Advance
  <2>2. ASSUME NEW c, frame' = [frame EXCEPT ![t] =
                   Loop(Advance([@ EXCEPT !.at = "login messages", !.cid = c], "channels"),
                        "messages", logOf[c])]
        PROVE  /\ frame'[t].at = "login messages" /\ frame'[t].cid = c
               /\ frame'[t].pos["messages"] = 1 /\ frame'[t].end["messages"] = logOf[c].len
    <3> DEFINE g == [frame[t] EXCEPT !.at = "login messages", !.cid = c]
               h == Advance(g, "channels")
               f == Loop(h, "messages", logOf[c])
    <3>1. /\ g.at = "login messages" /\ g.cid = c /\ DOMAIN g = DOMAIN Idle
          /\ DOMAIN g.pos = Level /\ DOMAIN g.end = Level
      BY <1>2 DEF Frames, Idle
    <3> HIDE DEF g
    <3>2. /\ h.at = "login messages" /\ h.cid = c /\ DOMAIN h = DOMAIN Idle
          /\ DOMAIN h.pos = Level /\ DOMAIN h.end = Level
      BY <3>1 DEF Advance, Idle
    <3> HIDE DEF h
    <3>3. /\ f.at = "login messages" /\ f.cid = c
          /\ f.pos["messages"] = 1 /\ f.end["messages"] = logOf[c].len
      BY <3>2 DEF Loop, Idle, Level
    <3>4. frame' = [frame EXCEPT ![t] = f]
      BY <2>2 DEF g, h
    <3> HIDE DEF f
    <3> QED BY <1>2, <3>3, <3>4
  <2> QED BY <2>1, <2>2 DEF LoginChannel
<1>6. \A s \in Conn \ {t} : Same(s)
  BY <1>4 DEF Same
<1>7. frame[t].at \notin Removing /\ frame'[t].at \notin Holding \cup {"append"}
  BY <1>2, <1>5 DEF Removing, Holding
<1>8. SecretInv
  BY DEF ListInv
<1>9. NothingTaken /\ NothingDropped
  BY <1>6, <1>7, <1>8, SameFrame DEF NothingTaken, NothingDropped
<1>10. SecretInv'
  BY <1>1, <1>3, <1>8, <1>9, SecretsKept
<1>11. AllBacked'
  BY <1>1, <1>9, BackedKept DEF ListInv
<1>12. Reading'
  <2> SUFFICES ASSUME NEW s \in Conn, Reads(s)'
               PROVE  /\ frame'[s].pos["messages"] >= 1
                      /\ frame'[s].end["messages"] <= Len(logOf[frame'[s].cid].cells)
    BY <1>1 DEF Reading
  <2>1. CASE s # t
    <3>1. frame'[s] = frame[s] /\ Reads(s)
      BY <1>4, <2>1 DEF Reads
    <3>2. /\ frame[s].pos["messages"] >= 1
          /\ frame[s].end["messages"] <= Len(logOf[frame[s].cid].cells)
      BY <3>1 DEF ListInv, Reading
    <3> QED BY <3>1, <3>2, Zenon
  <2>2. CASE s = t
    <3>1. PICK c \in channels :
              /\ frame'[t].cid = c
              /\ frame'[t].pos["messages"] = 1 /\ frame'[t].end["messages"] = logOf[c].len
      BY <1>5, <2>2 DEF Reads
    <3>2. logOf[c].len <= Len(logOf[c].cells)
      BY DEF TypeInv, TablesTypeOK, Vectors
    <3>3. 1 >= 1
      OBVIOUS
    <3> QED BY <2>2, <3>1, <3>2, <3>3, Zenon
  <2> QED BY <2>1, <2>2
<1> QED BY <1>10, <1>11, <1>12 DEF ListInv

\* A frame that only advances its loop over the members.
LEMMA NotifiedSame ==
    ASSUME TypeInv, NEW t \in Conn, NEW packet, NotifyMember(t, packet)
    PROVE  /\ frame'[t].at = frame[t].at /\ frame'[t].cid = frame[t].cid
           /\ frame'[t].mid = frame[t].mid
           /\ \A s \in Conn \ {t} : Same(s)
<1>1. frame \in [Conn -> Frames] /\ "members" \in Level
  BY DEF TypeInv, FramesOK, Level
<1>2. frame'[t] = Advance(frame[t], "members") /\ \A s \in Conn \ {t} : frame'[s] = frame[s]
  BY <1>1 DEF NotifyMember
<1> QED BY <1>1, <1>2, AdvanceType DEF Same

\* What a handler holds is public.
LEMMA HeldPublic ==
    ASSUME TypeInv, SecretInv, NEW t \in Conn, frame[t].at \in Holding
    PROVE  /\ Public(frame[t].mid) /\ channelOf[frame[t].mid] = frame[t].cid
           /\ frame[t].mid \in Mid /\ frame[t].cid \in Cid
<1>1. frame[t].mid \in Mid /\ frame[t].cid \in Cid
  BY DEF TypeInv, FramesOK, Whole, HasMid, HasCid, Holding
<1>2. Public(frame[t].mid)
  BY DEF Public, Holds
<1>3. channelOf[frame[t].mid] = frame[t].cid
  BY DEF SecretInv, Carried
<1> QED BY <1>1, <1>2, <1>3

LEMMA SendNotifyCalm ==
    ASSUME TypeInv, SecretInv, NEW t \in Conn, SendNotify(t)
    PROVE  Calm
<1>1. UNCHANGED <<messages, channelOf, logOf>>
  BY DEF SendNotify, tables, rooms, texts
<1>2. frame[t].at = "send notify" /\ frame[t].at \in Holding
  BY DEF SendNotify, At, Holding
<1>3. frame[t].mid \in Mid /\ Public(frame[t].mid) /\ channelOf[frame[t].mid] = frame[t].cid
  BY <1>2, HeldPublic
<1>4. ASSUME NotifyMember(t, Packet("message", {frame[t].mid}))
      PROVE  NothingNew /\ NothingTaken /\ NothingDropped /\ ReadsOn
  <2> DEFINE packet == Packet("message", {frame[t].mid})
  <2>1. frame[t].mid \in Uid \cup Cid \cup Mid /\ "message" \in Kinds
    BY <1>3 DEF Kinds
  <2>2. packet \in Packets /\ packet.ids = {frame[t].mid}
    BY <2>1, OneType
  <2>3. NotifyMember(t, packet)
    BY <1>4
  <2> HIDE DEF packet
  <2>4. \A m \in Mid : Says(packet, m) => Public(m)
    BY <1>3, <2>2 DEF Says
  <2>5. NothingNew
    BY <2>2, <2>3, <2>4, NotifiedKnown
  <2>6. /\ frame'[t].at = frame[t].at /\ frame'[t].cid = frame[t].cid
        /\ frame'[t].mid = frame[t].mid /\ \A s \in Conn \ {t} : Same(s)
    BY <2>3, NotifiedSame
  <2>7. frame'[t].at \notin {"append", "login messages"} /\ frame[t].at \notin Removing
    BY <1>2, <2>6 DEF Removing
  <2>8. Public(frame'[t].mid) /\ channelOf[frame'[t].mid] = frame'[t].cid
    BY <1>3, <2>6, Zenon
  <2> QED BY <2>5, <2>6, <2>7, <2>8, FramesBut
<1>5. ASSUME Done(t), UNCHANGED <<out, queue>>
      PROVE  NothingNew /\ NothingTaken /\ NothingDropped /\ ReadsOn
  <2>1. frame'[t].at \notin Holding \cup {"append", "login messages"}
    BY <1>5 DEF TypeInv, FramesOK, Frames, Done, Return, Idle, Holding
  <2>2. \A s \in Conn \ {t} : Same(s)
    BY <1>5 DEF TypeInv, FramesOK, Done, Return, Same
  <2>3. Elsewhere(t)
    BY <1>2, <2>1, <2>2 DEF Elsewhere, Removing
  <2> QED BY <1>5, <2>3, HeardBefore, FramesElsewhere
<1> QED BY <1>1, <1>4, <1>5 DEF SendNotify, Calm

LEMMA RemoveNotifyCalm ==
    ASSUME TypeInv, SecretInv, NEW t \in Conn, RemoveNotify(t)
    PROVE  Calm
<1>1. UNCHANGED <<messages, channelOf, logOf>>
  BY DEF RemoveNotify, tables, rooms, texts
<1>2. frame[t].at = "remove notify" /\ frame[t].at \in Holding
  BY DEF RemoveNotify, At, Holding
<1>3. frame[t].mid \in Mid /\ Public(frame[t].mid) /\ channelOf[frame[t].mid] = frame[t].cid
  BY <1>2, HeldPublic
<1>4. ASSUME frame'[t].at \in Removing, frame'[t].cid = frame[t].cid,
             frame'[t].mid = frame[t].mid, \A s \in Conn \ {t} : Same(s)
      PROVE  NothingTaken /\ NothingDropped /\ ReadsOn
  <2>1. frame'[t].at \notin {"append", "login messages"}
    BY <1>4 DEF Removing
  <2>2. Public(frame'[t].mid) /\ channelOf[frame'[t].mid] = frame'[t].cid
    BY <1>3, <1>4, Zenon
  <2> QED BY <1>4, <2>1, <2>2, FramesBut
<1>5. ASSUME NotifyMember(t, Packet("deleted", {frame[t].mid}))
      PROVE  NothingNew /\ NothingTaken /\ NothingDropped /\ ReadsOn
  <2> DEFINE packet == Packet("deleted", {frame[t].mid})
  <2>1. frame[t].mid \in Uid \cup Cid \cup Mid /\ "deleted" \in Kinds
    BY <1>3 DEF Kinds
  <2>2. packet \in Packets /\ packet.kind = "deleted"
    BY <2>1, OneType
  <2>3. NotifyMember(t, packet)
    BY <1>5
  <2> HIDE DEF packet
  <2>4. NothingNew
    BY <2>2, <2>3, NotifiedKnown DEF Says
  <2>5. /\ frame'[t].at = frame[t].at /\ frame'[t].cid = frame[t].cid
        /\ frame'[t].mid = frame[t].mid /\ \A s \in Conn \ {t} : Same(s)
    BY <2>3, NotifiedSame
  <2>6. frame'[t].at \in Removing
    BY <1>2, <2>5 DEF Removing
  <2> QED BY <1>4, <2>4, <2>5, <2>6
<1>6. ASSUME Goto(t, "unlist"), UNCHANGED <<out, queue>>
      PROVE  NothingNew /\ NothingTaken /\ NothingDropped /\ ReadsOn
  <2>1. frame \in [Conn -> Frames]
    BY DEF TypeInv, FramesOK
  <2>2. frame'[t].at = "unlist" /\ frame'[t].cid = frame[t].cid /\ frame'[t].mid = frame[t].mid
    BY <1>6, <2>1 DEF Frames, Goto
  <2>3. \A s \in Conn \ {t} : Same(s)
    BY <1>6, <2>1 DEF Goto, Same
  <2>4. frame'[t].at \in Removing
    BY <2>2 DEF Removing
  <2> QED BY <1>4, <1>6, <2>2, <2>3, <2>4, HeardBefore
<1> QED BY <1>1, <1>5, <1>6 DEF RemoveNotify, Calm

LEMMA DeleteNotifyCalm ==
    ASSUME TypeInv, SecretInv, NEW t \in Conn, DeleteNotify(t)
    PROVE  Calm
<1>1. UNCHANGED <<messages, channelOf, logOf>>
  BY DEF DeleteNotify, tables, rooms, texts
<1>2. frame[t].at = "delete notify" /\ frame[t].mid \in Mid
  BY DEF TypeInv, FramesOK, Whole, HasMid, DeleteNotify, At
<1>3. ASSUME NotifyMember(t, Packet("deleted", {frame[t].mid}))
      PROVE  NothingNew /\ Elsewhere(t)
  <2> DEFINE packet == Packet("deleted", {frame[t].mid})
  <2>1. frame[t].mid \in Uid \cup Cid \cup Mid /\ "deleted" \in Kinds
    BY <1>2 DEF Kinds
  <2>2. packet \in Packets /\ packet.kind = "deleted"
    BY <2>1, OneType
  <2>3. NotifyMember(t, packet)
    BY <1>3
  <2> HIDE DEF packet
  <2>4. NothingNew
    BY <2>2, <2>3, NotifiedKnown DEF Says
  <2>5. frame'[t].at = frame[t].at /\ \A s \in Conn \ {t} : Same(s)
    BY <2>3, NotifiedSame
  <2> QED BY <1>2, <2>4, <2>5 DEF Elsewhere, Holding, Removing
<1>4. ASSUME Goto(t, "delete messages"), UNCHANGED <<out, queue>>
      PROVE  NothingNew /\ Elsewhere(t)
  <2>1. frame \in [Conn -> Frames]
    BY DEF TypeInv, FramesOK
  <2>2. frame'[t].at = "delete messages"
    BY <1>4, <2>1 DEF Frames, Goto
  <2>3. \A s \in Conn \ {t} : Same(s)
    BY <1>4, <2>1 DEF Goto, Same
  <2>4. Elsewhere(t)
    BY <1>2, <2>2, <2>3 DEF Elsewhere, Holding, Removing
  <2> QED BY <1>4, <2>4, HeardBefore
<1>5. NothingNew /\ Elsewhere(t)
  BY <1>3, <1>4 DEF DeleteNotify
<1> QED BY <1>1, <1>5, FramesElsewhere DEF Calm

\* A client asks for the deletion of a message it was sent.
LEMMA DeleteMessageCalm ==
    ASSUME TypeInv, SecretInv, NEW t \in Conn, NEW m \in Mid, DeleteMessage(t, m)
    PROVE  Calm
<1>1. UNCHANGED <<messages, channelOf, logOf>>
  BY DEF DeleteMessage, tables, rooms, texts
<1>2. NothingNew
  BY HeardBefore DEF DeleteMessage
<1>3. frame \in [Conn -> Frames] /\ frame[t].at = "idle"
  BY DEF TypeInv, FramesOK, DeleteMessage, Request
<1>4. CASE UNCHANGED frame
  <2>1. \A s \in Conn : Same(s)
    BY <1>4 DEF Same
  <2> QED BY <1>1, <1>2, <2>1, FramesSame DEF Calm
<1>5. CASE frame' = [frame EXCEPT ![t].at = "remove text", ![t].cid = channelOf[m], ![t].mid = m]
  <2>1. frame'[t].at = "remove text" /\ frame'[t].cid = channelOf[m] /\ frame'[t].mid = m
    BY <1>3, <1>5 DEF Frames
  <2>2. \A s \in Conn \ {t} : Same(s)
    BY <1>3, <1>5 DEF Same
  <2>3. Public(m)
    <3>1. m \in Got(t, "message")
      BY DEF DeleteMessage
    <3>2. PICK i \in 1..Len(out[t]) : out[t][i].kind = "message" /\ m \in out[t][i].ids
      BY <3>1 DEF Got
    <3> QED BY <3>2 DEF Public, Heard, Says
  <2>4. frame'[t].at \notin {"append", "login messages"} /\ frame[t].at \notin Removing
    BY <1>3, <2>1 DEF Removing
  <2>5. Public(frame'[t].mid) /\ channelOf[frame'[t].mid] = frame'[t].cid
    BY <2>1, <2>3, Zenon
  <2> QED BY <1>1, <1>2, <2>2, <2>4, <2>5, FramesBut DEF Calm
<1> QED BY <1>4, <1>5 DEF DeleteMessage

\* An event of no message joins a queue.
LEMMA PostedKnown ==
    ASSUME TypeInv, NEW t \in Conn, NEW packet \in Packets, packet.kind # "message",
           queue' = [queue EXCEPT ![t] = Append(@, packet)], UNCHANGED out
    PROVE  NothingNew
<1>1. ASSUME NEW s \in Conn, NEW i \in 1..Len(queue'[s]), queue'[s][i].kind = "message"
      PROVE  \E j \in 1..Len(queue[s]) : queue[s][j] = queue'[s][i]
  <2>1. queue \in [Conn -> Seq(Packets)] /\ Len(queue[s]) \in Nat
    BY DEF TypeInv, WiresOK
  <2>2. CASE s # t
    BY <2>1, <2>2
  <2>3. CASE s = t
    <3>1. queue'[t] = Append(queue[t], packet)
      BY <2>1
    <3>2. i \in 1..Len(queue[t]) /\ queue'[t][i] = queue[t][i]
      BY <1>1, <2>1, <2>3, <3>1
    <3> QED BY <2>3, <3>2
  <2> QED BY <2>2, <2>3
<1> QED BY <1>1, QueueKnown

LEMMA DisconnectCalm ==
    ASSUME TypeInv, SecretInv, NEW t \in Conn, Disconnect(t)
    PROVE  Calm
<1>1. UNCHANGED <<messages, channelOf, logOf>>
  BY DEF Disconnect, tables, rooms, texts
<1>2. NothingNew
  <2>1. Packet("free socket", {}) \in Packets /\ Packet("free socket", {}).kind = "free socket"
    BY ErrorType DEF Kinds
  <2> QED BY <2>1, PostedKnown DEF Disconnect
<1>3. Elsewhere(t)
  <2>1. frame \in [Conn -> Frames] /\ frame[t].at = "idle"
    BY DEF TypeInv, FramesOK, Disconnect, Request
  <2>2. frame'[t].at = "free handler"
    BY <2>1 DEF Disconnect, Goto, Frames
  <2>3. \A s \in Conn \ {t} : Same(s)
    BY <2>1 DEF Disconnect, Goto, Same
  <2> QED BY <2>1, <2>2, <2>3 DEF Elsewhere, Holding, Removing
<1> QED BY <1>1, <1>2, <1>3, FramesElsewhere DEF Calm

\* The thread is back in its event loop.
LEMMA ReturnElsewhere ==
    ASSUME TypeInv, NEW t \in Conn, NEW posted, Return(t, posted), frame[t].at \notin Removing
    PROVE  Elsewhere(t)
<1>1. frame \in [Conn -> Frames]
  BY DEF TypeInv, FramesOK
<1>2. frame'[t].at \in {"idle", "sweep"}
  BY <1>1 DEF Return, Idle
<1>3. \A s \in Conn \ {t} : Same(s)
  BY <1>1 DEF Return, Same
<1> QED BY <1>2, <1>3 DEF Elsewhere, Holding

LEMMA DisconnectFinishedCalm ==
    ASSUME TypeInv, SecretInv, NEW t \in Conn, DisconnectFinished(t)
    PROVE  Calm
<1>1. UNCHANGED <<messages, channelOf, logOf>>
  BY DEF DisconnectFinished, tables, rooms, texts
<1>2. NothingNew
  <2>1. Packet("free handler", {}) \in Packets /\ Packet("free handler", {}).kind = "free handler"
    BY ErrorType DEF Kinds
  <2>2. queue' = [queue EXCEPT ![t] = Append(@, Packet("free handler", {}))]
    BY DEF DisconnectFinished, TypeInv, WiresOK
  <2> QED BY <2>1, <2>2, PostedKnown DEF DisconnectFinished
<1>3. Elsewhere(t)
  BY ReturnElsewhere DEF DisconnectFinished, At, Removing
<1> QED BY <1>1, <1>2, <1>3, FramesElsewhere DEF Calm

LEMMA ClosedKnown ==
    ASSUME TypeInv, NEW t \in Conn, Close(t), UNCHANGED out
    PROVE  NothingNew
<1>1. \A s \in Conn : queue'[s] = IF s = t THEN <<>> ELSE queue[s]
  BY DEF Close, TypeInv, WiresOK
<1>2. \A s \in Conn : \A i \in 1..Len(queue'[s]) :
          queue'[s][i].kind = "message" =>
              \E j \in 1..Len(queue[s]) : queue[s][j] = queue'[s][i]
  BY <1>1
<1> QED BY <1>2, QueueKnown

LEMMA QuitThreadCalm ==
    ASSUME TypeInv, SecretInv, NEW t \in Conn, QuitThread(t)
    PROVE  Calm
<1>1. UNCHANGED <<messages, channelOf, logOf>>
  BY DEF QuitThread, tables, rooms, texts
<1>2. NothingNew
  BY ClosedKnown DEF QuitThread
<1>3. Elsewhere(t)
  BY ReturnElsewhere DEF QuitThread, Removing
<1> QED BY <1>1, <1>2, <1>3, FramesElsewhere DEF Calm

\* An event is handled: what the client is sent was in the queue.
LEMMA DispatchCalm ==
    ASSUME TypeInv, SecretInv, NEW t \in Conn, Dispatch(t)
    PROVE  Calm
<1> DEFINE e == Head(queue[t])
<1>1. UNCHANGED <<messages, channelOf, logOf>>
  BY DEF Dispatch, tables, rooms, texts
<1>2. queue \in [Conn -> Seq(Packets)] /\ queue[t] \in Seq(Packets)
      /\ e \in Packets /\ e = queue[t][1] /\ 1 \in 1..Len(queue[t])
  <2>1. queue \in [Conn -> Seq(Packets)] /\ queue[t] \in Seq(Packets) /\ queue[t] # <<>>
    BY DEF TypeInv, WiresOK, Dispatch
  <2>2. Len(queue[t]) \in Nat \ {0} /\ e = queue[t][1]
    BY <2>1
  <2> QED BY <2>1, <2>2
<1>3. ASSUME queue' = [queue EXCEPT ![t] = Tail(@)]
      PROVE  \A s \in Conn : \A i \in 1..Len(queue'[s]) :
                 \E j \in 1..Len(queue[s]) : queue[s][j] = queue'[s][i]
  <2> SUFFICES ASSUME NEW s \in Conn, NEW i \in 1..Len(queue'[s])
               PROVE  \E j \in 1..Len(queue[s]) : queue[s][j] = queue'[s][i]
    OBVIOUS
  <2>1. CASE s # t
    BY <1>2, <1>3, <2>1
  <2>2. CASE s = t
    <3>1. queue'[t] = Tail(queue[t])
      BY <1>2, <1>3
    <3>2. i + 1 \in 1..Len(queue[t]) /\ queue'[t][i] = queue[t][i + 1]
      BY <1>2, <2>2, <3>1
    <3> QED BY <2>2, <3>2
  <2> QED BY <2>1, <2>2
<1>4. ASSUME Close(t), UNCHANGED out
      PROVE  NothingNew
  BY <1>4, ClosedKnown
<1>5. ASSUME queue' = [queue EXCEPT ![t] = Tail(@)], UNCHANGED out
      PROVE  NothingNew
  BY <1>3, <1>5, QueueKnown
<1>6. ASSUME queue' = [queue EXCEPT ![t] = Tail(@)], Write(t, e)
      PROVE  NothingNew
  <2> SUFFICES ASSUME NEW s \in Conn, NEW m \in Mid, Heard(s, m)'
               PROVE  Heard(s, m)
    BY DEF NothingNew, Public
  <2>1. out \in [Conn -> Seq(Packets)] /\ Len(out[s]) \in Nat
    BY DEF TypeInv, WiresOK
  <2>2. CASE \E i \in 1..Len(queue'[s]) : Says(queue'[s][i], m)
    BY <1>3, <1>6, <2>2 DEF Heard
  <2>3. ASSUME NEW i \in 1..Len(out'[s]), Says(out'[s][i], m)
        PROVE  Heard(s, m)
    <3> HIDE DEF e
    <3>1. CASE s = t /\ i = Len(out[t]) + 1
      <4>1. out'[s][i] = e
        BY <1>6, <2>1, <3>1 DEF Write
      <4>2. Says(queue[t][1], m)
        BY <1>2, <2>3, <4>1
      <4> QED BY <1>2, <3>1, <4>2 DEF Heard
    <3>2. CASE ~(s = t /\ i = Len(out[t]) + 1)
      <4>1. i \in 1..Len(out[s]) /\ out'[s][i] = out[s][i]
        BY <1>6, <2>1, <3>2 DEF Write
      <4> QED BY <2>3, <4>1 DEF Heard
    <3> QED BY <3>1, <3>2
  <2> QED BY <2>2, <2>3 DEF Heard
<1>7. NothingNew
  BY <1>4, <1>5, <1>6 DEF Dispatch
<1>8. Elsewhere(t)
  BY ReturnElsewhere DEF Dispatch, Removing
<1> QED BY <1>1, <1>7, <1>8, FramesElsewhere DEF Calm

-----------------------------------------------------------------------------
(* The steps that change the messages or a channel's list                   *)

\* The new message is stored, under an identifier nobody has.
LEMMA SendMessageLists ==
    ASSUME TypeInv, ListInv, NEW t \in Conn, NEW c \in Cid, SendMessage(t, c)
    PROVE  ListInv'
<1>1. PICK m \in NextSnowflake :
          /\ AddMessage(m, auth[t], c)
          /\ frame' = [frame EXCEPT ![t].at = "append", ![t].cid = c, ![t].mid = m]
  BY DEF SendMessage
<1>2. m \in Mid /\ channelOf[m] = Nil /\ c # Nil
  BY NilAssumption DEF NextSnowflake, FreeMids
<1>3. frame \in [Conn -> Frames] /\ frame[t].at = "idle" /\ UNCHANGED <<logOf, out, queue>>
  BY DEF TypeInv, FramesOK, SendMessage, Request, rooms
<1>4. frame'[t].at = "append" /\ frame'[t].cid = c /\ frame'[t].mid = m
  BY <1>1, <1>3 DEF Frames
<1>5. \A s \in Conn \ {t} : Same(s)
  BY <1>1, <1>3 DEF Same
<1>6. /\ messages' = messages \cup {m}
      /\ channelOf'[m] = c /\ \A x \in Mid : x # m => channelOf'[x] = channelOf[x]
  BY <1>1, <1>2 DEF AddMessage, TypeInv, TablesTypeOK
<1>7. SecretInv /\ ~Public(m)
  BY <1>2 DEF ListInv, SecretInv, PublicMade
<1>8. \A s \in Conn : frame[s].at \in Holding \cup {"append"} =>
          frame[s].mid \in Mid /\ frame[s].mid # m
  <2> SUFFICES ASSUME NEW s \in Conn, frame[s].at \in Holding \cup {"append"}
               PROVE  frame[s].mid \in Mid /\ frame[s].mid # m
    OBVIOUS
  <2>1. frame[s].mid \in Mid /\ frame[s].cid \in Cid
    BY DEF TypeInv, FramesOK, Whole, HasMid, HasCid, Holding
  <2>2. channelOf[frame[s].mid] = frame[s].cid
    BY <1>7 DEF SecretInv, Carried
  <2> QED BY <1>2, <2>1, <2>2, NilAssumption
<1>9. frame[t].at \notin Holding \cup Removing \cup {"append"}
      /\ frame'[t].at \notin Holding \cup {"login messages"}
  BY <1>3, <1>4 DEF Holding, Removing
<1>10. ASSUME NEW x \in Mid PROVE Public(x)' => Public(x)
  <2>1. \A s \in Conn : Holds(s, x)' => Holds(s, x)
    BY <1>5, <1>9 DEF Holds, Same
  <2> QED BY <1>3, <2>1 DEF Public, Heard
<1>11. Housed'
  <2> SUFFICES ASSUME NEW d \in Cid, NEW x \in Cells(logOf[d])
               PROVE  channelOf'[x] = d
    BY <1>3 DEF Housed
  <2>1. Public(x) /\ channelOf[x] = d
    BY <1>7 DEF Public, SecretInv, Housed
  <2>2. x \in Mid
    BY LiveCells DEF TypeInv, TablesTypeOK
  <2> QED BY <1>6, <1>7, <2>1, <2>2
<1>12. Carried'
  <2> SUFFICES ASSUME NEW s \in Conn, frame'[s].at \in Holding \cup {"append"}
               PROVE  channelOf'[frame'[s].mid] = frame'[s].cid
    BY DEF Carried
  <2>1. CASE s = t
    BY <1>4, <1>6, <2>1
  <2>2. CASE s # t
    <3>1. /\ frame[s].at \in Holding \cup {"append"}
          /\ frame'[s].mid = frame[s].mid /\ frame'[s].cid = frame[s].cid
      BY <1>5, <2>2 DEF Same
    <3>2. channelOf[frame[s].mid] = frame[s].cid
      BY <1>7, <3>1 DEF SecretInv, Carried
    <3>3. channelOf'[frame[s].mid] = channelOf[frame[s].mid]
      BY <1>6, <1>8, <3>1
    <3> QED BY <3>1, <3>2, <3>3, Zenon
  <2> QED BY <2>1, <2>2
<1>13. PublicMade'
  <2> SUFFICES ASSUME NEW x \in Mid, Public(x)'
               PROVE  channelOf'[x] # Nil
    BY DEF PublicMade
  <2>1. Public(x) /\ x # m
    BY <1>7, <1>10
  <2> QED BY <1>6, <1>7, <2>1 DEF SecretInv, PublicMade
<1>14. \A s \in Conn, x \in Mid : Appends(s, x)' =>
           (s = t /\ x = m) \/ (s # t /\ x # m /\ Appends(s, x))
  <2> SUFFICES ASSUME NEW s \in Conn, NEW x \in Mid, Appends(s, x)'
               PROVE  (s = t /\ x = m) \/ (s # t /\ x # m /\ Appends(s, x))
    OBVIOUS
  <2>1. CASE s = t
    BY <1>4, <2>1 DEF Appends
  <2>2. CASE s # t
    <3>1. Appends(s, x)
      BY <1>5, <2>2 DEF Appends, Same
    <3>2. x # m
      BY <1>8, <3>1 DEF Appends
    <3> QED BY <2>2, <3>1, <3>2
  <2> QED BY <2>1, <2>2
<1>15. Secret'
  <2> SUFFICES ASSUME NEW s \in Conn, NEW x \in Mid, Appends(s, x)'
               PROVE  x \in messages' /\ ~Public(x)' /\ \A r \in Conn \ {s} : ~Appends(r, x)'
    BY DEF Secret
  <2>1. CASE s = t /\ x = m
    BY <1>2, <1>6, <1>7, <1>10, <1>14, <2>1
  <2>2. CASE s # t /\ x # m /\ Appends(s, x)
    <3>1. x \in messages /\ ~Public(x) /\ \A r \in Conn \ {s} : ~Appends(r, x)
      BY <1>7, <2>2 DEF SecretInv, Secret
    <3> QED BY <1>6, <1>10, <1>14, <2>2, <3>1
  <2> QED BY <1>14, <2>1, <2>2
<1>16. SecretInv'
  BY <1>11, <1>12, <1>13, <1>15 DEF SecretInv
<1>17. \A s \in Conn : Reads(s)' => s # t /\ Reads(s)
  BY <1>4, <1>5 DEF Same, Reads
<1>18. Reading'
  BY <1>3, <1>5, <1>17 DEF ListInv, Reading, Same
<1>19. NothingDropped
  BY <1>5, <1>9 DEF NothingDropped, Same
<1>20. AllBacked'
  BY <1>3, <1>6, <1>19, BackedKept DEF ListInv
<1> QED BY <1>16, <1>18, <1>20 DEF ListInv

\* The thread adds the message to the channel, where everybody can find it from now on.
LEMMA AppendMessageLists ==
    ASSUME TypeInv, FramesOK', ListInv, NEW t \in Conn, AppendMessage(t)
    PROVE  ListInv'
<1> DEFINE c == frame[t].cid
           m == frame[t].mid
           g == [frame[t] EXCEPT !.at = "send notify"]
           f == Loop(g, "members", membersOf[c])
<1>1. /\ c \in Cid /\ m \in Mid /\ frame[t].at = "append" /\ frame[t] \in Frames
      /\ UNCHANGED <<messages, channelOf, out, queue>>
  BY DEF TypeInv, FramesOK, Whole, HasMid, HasCid, AppendMessage, At, texts
<1>2. ChannelAddMessage(c, m) /\ Pushed(t, f, "messages", c, logOf[c])
  BY DEF AppendMessage
<1>3. g.at = "send notify" /\ g.cid = c /\ g.mid = m /\ g \in Frames
  BY <1>1 DEF Frames, Places
<1>4. f.at = "send notify" /\ f.cid = c /\ f.mid = m
  <2>1. membersOf[c] \in Vectors(Uid) /\ "members" \in Level
    BY <1>1 DEF TypeInv, TablesTypeOK, Level
  <2> HIDE DEF g
  <2> QED BY <1>3, <2>1, LoopType, ZenonT(60)
<1> HIDE DEF f
<1>5. frame'[t].at = "send notify" /\ frame'[t].cid = c /\ frame'[t].mid = m
      /\ \A s \in Conn \ {t} : Same(s)
  BY <1>2, <1>4, PushedSame
<1>6. SecretInv /\ Appends(t, m) /\ channelOf[m] = c
  BY <1>1 DEF ListInv, SecretInv, Carried, Appends
<1>7. m \in messages /\ ~Public(m) /\ \A s \in Conn \ {t} : ~Appends(s, m)
  BY <1>1, <1>6 DEF SecretInv, Secret
<1> HIDE DEF c, m, g
<1>8. /\ logOf'[c] = Push(logOf[c], m) /\ \A d \in Cid \ {c} : logOf'[d] = logOf[d]
      /\ \A d \in Cid : logOf[d] \in Vectors(Mid)
  BY <1>1, <1>2 DEF ChannelAddMessage, TypeInv, TablesTypeOK
<1>9. \A d \in Cid : \A x : x \in Cells(logOf'[d]) => x \in Cells(logOf[d]) \/ (d = c /\ x = m)
  BY <1>1, <1>8, PushCells
<1>10. ASSUME NEW x \in Mid PROVE Public(x)' => Public(x) \/ x = m
  <2>1. \A s \in Conn : Heard(s, x)' => Heard(s, x)
    BY <1>1 DEF Heard
  <2>2. \A s \in Conn : Holds(s, x)' => Holds(s, x) \/ x = m
    BY <1>5 DEF Holds, Same
  <2> QED BY <1>9, <2>1, <2>2 DEF Public
<1>11. Housed'
  <2> SUFFICES ASSUME NEW d \in Cid, NEW x \in Cells(logOf'[d])
               PROVE  channelOf[x] = d
    BY <1>1 DEF Housed
  <2> QED BY <1>6, <1>9 DEF SecretInv, Housed
<1>12. Carried'
  <2> SUFFICES ASSUME NEW s \in Conn, frame'[s].at \in Holding \cup {"append"}
               PROVE  channelOf[frame'[s].mid] = frame'[s].cid
    BY <1>1 DEF Carried
  <2>1. CASE s = t
    BY <1>5, <1>6, <2>1
  <2>2. CASE s # t
    <3>1. /\ frame[s].at \in Holding \cup {"append"}
          /\ frame'[s].mid = frame[s].mid /\ frame'[s].cid = frame[s].cid
      BY <1>5, <2>2 DEF Same
    <3>2. channelOf[frame[s].mid] = frame[s].cid
      BY <1>6, <3>1 DEF SecretInv, Carried
    <3> QED BY <3>1, <3>2, Zenon
  <2> QED BY <2>1, <2>2
<1>13. PublicMade'
  <2> SUFFICES ASSUME NEW x \in Mid, Public(x)'
               PROVE  channelOf[x] # Nil
    BY <1>1 DEF PublicMade
  <2>1. Public(x) \/ x = m
    BY <1>10
  <2> QED BY <1>1, <1>6, <2>1, NilAssumption DEF SecretInv, PublicMade
<1>14. \A s \in Conn, x \in Mid : Appends(s, x)' => s # t /\ x # m /\ Appends(s, x)
  <2> SUFFICES ASSUME NEW s \in Conn, NEW x \in Mid, Appends(s, x)'
               PROVE  s # t /\ x # m /\ Appends(s, x)
    OBVIOUS
  <2>1. s # t
    BY <1>5 DEF Appends
  <2>2. Appends(s, x)
    BY <1>5, <2>1 DEF Appends, Same
  <2>3. x # m
    BY <1>7, <2>1, <2>2
  <2> QED BY <2>1, <2>2, <2>3
<1>15. Secret'
  <2> SUFFICES ASSUME NEW s \in Conn, NEW x \in Mid, Appends(s, x)'
               PROVE  x \in messages /\ ~Public(x)' /\ \A r \in Conn \ {s} : ~Appends(r, x)'
    BY <1>1 DEF Secret
  <2>1. s # t /\ x # m /\ Appends(s, x)
    BY <1>14
  <2>2. x \in messages /\ ~Public(x) /\ \A r \in Conn \ {s} : ~Appends(r, x)
    BY <1>6, <2>1 DEF SecretInv, Secret
  <2> QED BY <1>10, <1>14, <2>1, <2>2
<1>16. SecretInv'
  BY <1>11, <1>12, <1>13, <1>15 DEF SecretInv
<1>17. BuffersKept
  <2> SUFFICES ASSUME NEW d \in Cid PROVE Len(logOf'[d].cells) >= Len(logOf[d].cells)
    BY DEF BuffersKept
  <2>1. CASE d = c
    BY <1>1, <1>8, <2>1, BufferKept
  <2>2. CASE d # c
    <3>1. logOf'[d] = logOf[d] /\ logOf[d].cells \in Seq(Mid)
      BY <1>8, <2>2 DEF Vectors
    <3> QED BY <3>1
  <2> QED BY <2>1, <2>2
<1>18. ReadsOn
  <2>1. \A s \in Conn : Reads(s)' => s # t
    BY <1>5 DEF Reads
  <2> QED BY <1>5, <1>6, <2>1, SameFrame DEF ReadsOn
<1>19. Reading'
  <2>1. logOf' \in [Cid -> Vectors(Mid)]
    <3>1. Push(logOf[c], m) \in Vectors(Mid)
      BY <1>1, <1>8, PushType
    <3> QED BY <1>2, <3>1 DEF ChannelAddMessage, TypeInv, TablesTypeOK
  <2>2. frame' \in [Conn -> Frames]
    BY DEF FramesOK
  <2> QED BY <1>17, <1>18, <2>1, <2>2, ReadingKept DEF ListInv
<1>20. NothingDropped
  <2>1. frame[t].at \notin Removing
    BY <1>1 DEF Removing
  <2> QED BY <1>5, <1>6, <2>1, SameFrame DEF NothingDropped
<1>21. AllBacked'
  <2> SUFFICES ASSUME NEW d \in Cid, NEW x \in Live(logOf'[d])
               PROVE  Backed(x)'
    BY DEF AllBacked
  <2>1. x \in Live(logOf[d]) \/ x = m
    BY <1>1, <1>8, PushLive
  <2>2. x = m => x \in messages
    BY <1>7
  <2>3. Backed(x)
    BY <2>1, <2>2 DEF ListInv, AllBacked, Backed
  <2> QED BY <1>1, <1>20, <2>3 DEF Backed, NothingDropped
<1> QED BY <1>16, <1>19, <1>21 DEF ListInv

\* The message leaves the table; its thread will take it out of the channel.
LEMMA RemoveTextLists ==
    ASSUME TypeInv, FramesOK', ListInv, NEW t \in Conn, RemoveText(t)
    PROVE  ListInv'
<1> DEFINE c == frame[t].cid
           m == frame[t].mid
           g == [frame[t] EXCEPT !.at = "remove notify"]
           f == Loop(g, "members", membersOf[c])
<1>1. frame \in [Conn -> Frames] /\ frame[t].at = "remove text" /\ frame[t].at \in Holding
  BY DEF TypeInv, FramesOK, RemoveText, At, Holding
<1>2. SecretInv /\ Public(m) /\ channelOf[m] = c /\ m \in Mid /\ c \in Cid
  BY <1>1, HeldPublic DEF ListInv
<1>3. /\ UNCHANGED <<channelOf, logOf, out, queue>>
      /\ messages' = messages \ {m}
      /\ frame' = [frame EXCEPT ![t] = f]
  BY DEF RemoveText, RemoveMessage, rooms
<1>4. g.at = "remove notify" /\ g.cid = c /\ g.mid = m /\ g \in Frames
  <2>1. frame[t] \in Frames /\ "remove notify" \in Places
    BY <1>1 DEF Places
  <2>2. g \in Frames
    BY <2>1, MoveType
  <2>3. g.at = "remove notify" /\ g.cid = c /\ g.mid = m
    BY <2>1 DEF Frames
  <2> QED BY <2>2, <2>3
<1>5. f.at = "remove notify" /\ f.cid = c /\ f.mid = m
  <2>1. membersOf[c] \in Vectors(Uid) /\ "members" \in Level
    BY <1>2 DEF TypeInv, TablesTypeOK, Level
  <2> HIDE DEF g
  <2> QED BY <1>4, <2>1, LoopType, ZenonT(60)
<1> HIDE DEF f
<1>6. frame'[t].at = "remove notify" /\ frame'[t].cid = c /\ frame'[t].mid = m
      /\ \A s \in Conn \ {t} : Same(s)
  BY <1>1, <1>3, <1>5 DEF Same
<1> HIDE DEF c, m, g
<1>7. NothingTaken /\ NothingDropped /\ ReadsOn
  <2>1. frame'[t].at \notin {"append", "login messages"} /\ frame[t].at \notin Removing
    BY <1>1, <1>6 DEF Removing
  <2>2. Public(frame'[t].mid) /\ channelOf[frame'[t].mid] = frame'[t].cid
    BY <1>2, <1>6, Zenon
  <2> QED BY <1>2, <1>6, <2>1, <2>2, FramesBut
<1>8. NothingNew
  BY <1>3, HeardBefore
<1>9. SecretInv'
  BY <1>2, <1>3, <1>7, <1>8, SecretsKept
<1>10. BuffersKept
  <2> SUFFICES ASSUME NEW d \in Cid PROVE Len(logOf'[d].cells) >= Len(logOf[d].cells)
    BY DEF BuffersKept
  <2>1. logOf'[d] = logOf[d] /\ logOf[d].cells \in Seq(Mid)
    BY <1>3 DEF TypeInv, TablesTypeOK, Vectors
  <2> QED BY <2>1
<1>11. Reading'
  <2>1. logOf' \in [Cid -> Vectors(Mid)] /\ frame' \in [Conn -> Frames]
    BY <1>3 DEF TypeInv, TablesTypeOK, FramesOK
  <2> QED BY <1>7, <1>10, <2>1, ReadingKept DEF ListInv
<1>12. AllBacked'
  <2> SUFFICES ASSUME NEW d \in Cid, NEW x \in Live(logOf[d])
               PROVE  Backed(x)'
    BY <1>3 DEF AllBacked
  <2>1. Backed(x)
    BY DEF ListInv, AllBacked
  <2>2. CASE x = m
    BY <1>6, <2>2 DEF Backed, Removing
  <2>3. CASE x # m
    BY <1>3, <1>7, <2>1, <2>3 DEF Backed, NothingDropped
  <2> QED BY <2>2, <2>3
<1> QED BY <1>9, <1>11, <1>12 DEF ListInv

\* What an erasure does to the channels' lists.
LEMMA ErasedLists ==
    ASSUME TypeInv, NEW c \in Cid, NEW x, ChannelRemoveMessage(c, x)
    PROVE  /\ logOf' \in [Cid -> Vectors(Mid)] /\ BuffersKept
           /\ \A d \in Cid : Cells(logOf'[d]) \subseteq Cells(logOf[d])
           /\ \A d \in Cid : Live(logOf'[d]) \subseteq Live(logOf[d])
           /\ x \notin Live(logOf'[c])
<1>1. \A d \in Cid : logOf[d] \in Vectors(Mid)
  BY DEF TypeInv, TablesTypeOK
<1>2. logOf'[c] = Erase(logOf[c], x) /\ \A d \in Cid \ {c} : logOf'[d] = logOf[d]
  BY DEF ChannelRemoveMessage, TypeInv, TablesTypeOK
<1>3. Erase(logOf[c], x) \in Vectors(Mid)
  BY <1>1, EraseType
<1>4. logOf' \in [Cid -> Vectors(Mid)]
  BY <1>3 DEF ChannelRemoveMessage, TypeInv, TablesTypeOK
<1>5. \A d \in Cid : Cells(logOf'[d]) \subseteq Cells(logOf[d])
  BY <1>1, <1>2, EraseCells
<1>6. Live(logOf'[c]) = Live(logOf[c]) \ {x}
  BY <1>1, <1>2, EraseLive
<1>7. \A d \in Cid : Live(logOf'[d]) \subseteq Live(logOf[d])
  BY <1>2, <1>6
<1>8. BuffersKept
  <2> SUFFICES ASSUME NEW d \in Cid PROVE Len(logOf'[d].cells) >= Len(logOf[d].cells)
    BY DEF BuffersKept
  <2>1. CASE d = c
    BY <1>1, <1>2, <2>1, BufferKept
  <2>2. CASE d # c
    <3>1. logOf'[d] = logOf[d] /\ logOf[d].cells \in Seq(Mid)
      BY <1>1, <1>2, <2>2 DEF Vectors
    <3> QED BY <3>1
  <2> QED BY <2>1, <2>2
<1> QED BY <1>4, <1>5, <1>6, <1>7, <1>8

\* The thread that took the message out of the table takes it out of the only channel that
\* lists it, every time it is there.
LEMMA UnlistLists ==
    ASSUME TypeInv, FramesOK', ListInv, NEW t \in Conn, Unlist(t)
    PROVE  ListInv'
<1> DEFINE c == frame[t].cid
           m == frame[t].mid
<1>1. frame \in [Conn -> Frames] /\ frame[t].at = "unlist" /\ frame[t].at \in Holding
  BY DEF TypeInv, FramesOK, Unlist, At, Holding
<1>2. SecretInv /\ Public(m) /\ channelOf[m] = c /\ m \in Mid /\ c \in Cid
  BY <1>1, HeldPublic DEF ListInv
<1>3. UNCHANGED <<messages, channelOf, out, queue>> /\ ChannelRemoveMessage(c, m)
  BY DEF Unlist, texts
<1> HIDE DEF c, m
<1>4. /\ logOf' \in [Cid -> Vectors(Mid)] /\ BuffersKept
      /\ \A d \in Cid : Cells(logOf'[d]) \subseteq Cells(logOf[d])
      /\ \A d \in Cid : Live(logOf'[d]) \subseteq Live(logOf[d])
      /\ m \notin Live(logOf'[c])
  BY <1>2, <1>3, ErasedLists
<1>5. frame'[t].at \in {"idle", "sweep"} /\ \A s \in Conn \ {t} : Same(s)
  BY <1>1 DEF Unlist, Done, Return, Idle, Same
<1>6. frame'[t].at \notin Holding \cup {"append", "login messages"}
  BY <1>5 DEF Holding
<1>7. NothingTaken
  BY <1>2, <1>5, <1>6, SameFrame DEF NothingTaken
<1>8. ReadsOn
  <2>1. ~Reads(t)'
    BY <1>6 DEF Reads
  <2> QED BY <1>2, <1>5, <2>1, SameFrame DEF ReadsOn
<1>9. NothingNew
  BY <1>3, HeardBefore
<1>10. SecretInv'
  BY <1>2, <1>3, <1>4, <1>7, <1>9, SecretsKept
<1>11. Reading'
  <2>1. frame' \in [Conn -> Frames]
    BY DEF FramesOK
  <2> QED BY <1>4, <1>8, <2>1, ReadingKept DEF ListInv
<1>12. AllBacked'
  <2> SUFFICES ASSUME NEW d \in Cid, NEW x \in Live(logOf'[d])
               PROVE  Backed(x)'
    BY DEF AllBacked
  <2>1. x \in Live(logOf[d])
    BY <1>4
  <2>2. x # m
    <3>1. x \in Cells(logOf[d])
      BY <2>1, LiveCells DEF TypeInv, TablesTypeOK
    <3>2. channelOf[x] = d
      BY <1>2, <3>1 DEF SecretInv, Housed
    <3> QED BY <1>2, <1>4, <3>2
  <2>3. Backed(x)
    BY <2>1 DEF ListInv, AllBacked
  <2>4. CASE x \in messages
    BY <1>3, <2>4 DEF Backed
  <2>5. ASSUME NEW s \in Conn, frame[s].at \in Removing, frame[s].mid = x
        PROVE  Backed(x)'
    <3>1. s # t
      BY <2>2, <2>5 DEF m
    <3>2. frame'[s].at \in Removing /\ frame'[s].mid = x
      BY <1>5, <2>5, <3>1 DEF Same
    <3> QED BY <3>2 DEF Backed
  <2> QED BY <2>3, <2>4, <2>5 DEF Backed
<1> QED BY <1>10, <1>11, <1>12 DEF ListInv

\* The deletion of an account erases whatever the cell of its loop holds.
LEMMA DeleteListedMessageLists ==
    ASSUME TypeInv, FramesOK', ListInv, NEW t \in Conn, DeleteListedMessage(t)
    PROVE  ListInv'
<1> DEFINE c == frame[t].cid
<1>1. frame \in [Conn -> Frames] /\ frame[t].at = "delete text" /\ c \in Cid
  BY DEF TypeInv, FramesOK, Whole, HasCid, DeleteListedMessage, At
<1>2. UNCHANGED <<messages, channelOf, out, queue>>
  BY DEF DeleteListedMessage, texts
<1>3. PICK x : ChannelRemoveMessage(c, x)
  BY DEF DeleteListedMessage
<1>4. /\ logOf' \in [Cid -> Vectors(Mid)] /\ BuffersKept
      /\ \A d \in Cid : Cells(logOf'[d]) \subseteq Cells(logOf[d])
      /\ \A d \in Cid : Live(logOf'[d]) \subseteq Live(logOf[d])
  <2> HIDE DEF c
  <2> QED BY <1>1, <1>3, ErasedLists
<1>5. Elsewhere(t)
  <2> DEFINE g == [frame[t] EXCEPT !.at = "delete notify"]
             h == Advance(g, "messages")
             f == Loop(h, "members", membersOf[c])
  <2>1. g.at = "delete notify" /\ g \in Frames
    <3>1. frame[t] \in Frames /\ "delete notify" \in Places
      BY <1>1 DEF Places
    <3>2. g \in Frames
      BY <3>1, MoveType
    <3>3. g.at = "delete notify"
      BY <3>1 DEF Frames
    <3> QED BY <3>2, <3>3
  <2>2. h.at = "delete notify" /\ h \in Frames
    <3> HIDE DEF g
    <3>1. "messages" \in Level
      BY DEF Level
    <3> QED BY <2>1, <3>1, AdvanceType
  <2>3. f.at = "delete notify"
    <3> HIDE DEF h
    <3>1. membersOf[c] \in Vectors(Uid) /\ "members" \in Level
      BY <1>1 DEF TypeInv, TablesTypeOK, Level
    <3> QED BY <2>2, <3>1, LoopType
  <2>4. frame' = [frame EXCEPT ![t] = f]
    BY DEF DeleteListedMessage
  <2> HIDE DEF f
  <2>5. frame'[t].at = "delete notify" /\ \A s \in Conn \ {t} : Same(s)
    BY <1>1, <2>3, <2>4 DEF Same
  <2> QED BY <1>1, <2>5 DEF Elsewhere, Holding, Removing
<1>6. SecretInv /\ NothingTaken /\ NothingDropped /\ ReadsOn
  BY <1>5, FramesElsewhere DEF ListInv
<1>7. NothingNew
  BY <1>2, HeardBefore
<1>8. SecretInv'
  BY <1>2, <1>4, <1>6, <1>7, SecretsKept
<1>9. Reading'
  <2>1. frame' \in [Conn -> Frames]
    BY DEF FramesOK
  <2> QED BY <1>4, <1>6, <2>1, ReadingKept DEF ListInv
<1>10. AllBacked'
  BY <1>2, <1>4, <1>6, BackedKept DEF ListInv
<1> QED BY <1>8, <1>9, <1>10 DEF ListInv

-----------------------------------------------------------------------------
(* The theorem                                                              *)

LEMMA ListInit == Init => ListInv
<1> SUFFICES ASSUME Init PROVE ListInv
  OBVIOUS
<1>1. \A t \in Conn : frame[t].at = "idle" /\ queue[t] = <<>> /\ out[t] = <<>>
  BY DEF Init, Idle
<1>2. \A c \in Cid : Live(logOf[c]) = {} /\ Cells(logOf[c]) = {}
  <2> SUFFICES ASSUME NEW c \in Cid PROVE Live(logOf[c]) = {} /\ Cells(logOf[c]) = {}
    OBVIOUS
  <2>1. logOf[c].cells = <<>> /\ logOf[c].len = 0
    BY DEF Init, TablesInit, VectorOf
  <2>2. 1..0 = {} /\ Len(<<>>) = 0
    OBVIOUS
  <2> QED BY <2>1, <2>2 DEF Live, Cells
<1>3. ASSUME NEW t \in Conn
      PROVE  /\ frame[t].at \notin Holding \cup {"append"} /\ ~Reads(t)
             /\ \A m : ~Heard(t, m)
  <2>1. Len(out[t]) = 0 /\ Len(queue[t]) = 0 /\ 1..0 = {}
    BY <1>1
  <2>2. \A m : ~Heard(t, m)
    BY <2>1 DEF Heard
  <2>3. frame[t].at \notin Holding \cup {"append"} /\ ~Reads(t)
    BY <1>1 DEF Holding, Reads
  <2> QED BY <2>2, <2>3
<1>4. \A m : ~Public(m)
  BY <1>2, <1>3 DEF Public, Holds
<1>5. SecretInv
  BY <1>2, <1>3, <1>4 DEF SecretInv, Housed, Carried, PublicMade, Secret, Appends
<1> QED BY <1>2, <1>3, <1>5 DEF ListInv, Reading, AllBacked

LEMMA CalmLists ==
    ASSUME TypeInv, FramesOK', ListInv, Calm
    PROVE  ListInv'
<1>1. frame' \in [Conn -> Frames]
  BY DEF FramesOK
<1> QED BY <1>1, Quietly DEF Calm

LEMMA ListNext ==
    ASSUME TypeInv, FramesOK', ListInv, [Next]_vars
    PROVE  ListInv'
<1>a. SecretInv /\ Reading
  BY DEF ListInv
<1>1. ASSUME NEW t \in Conn, Ask(t) PROVE ListInv'
  <2>1. Calm \/ \E c \in Cid : SendMessage(t, c)
    BY <1>a, <1>1, RegisterCalm, LoginCalm, DeleteAccountCalm, ListAccountsCalm,
       CreateChannelCalm, DeleteMessageCalm, AcceptCalm, DisconnectCalm DEF Ask
  <2> QED BY <2>1, CalmLists, SendMessageLists
<1>2. ASSUME NEW t \in Conn, Continue(t) PROVE ListInv'
  <2>1. \/ Calm
        \/ LoginChannel(t) \/ AppendMessage(t) \/ RemoveText(t) \/ Unlist(t)
        \/ DeleteListedMessage(t)
    BY <1>a, <1>2, RegisterPasswordCalm, RegisterUserCalm, LoginUserCalm, LoginMessageCalm,
       LoginChannelReplayedCalm, LoginFinishedCalm, ListAccountCalm, ListFinishedCalm,
       DeleteUserCalm, DeleteFromChannelCalm, DeleteFindMessageCalm, DeleteNotifyCalm,
       DeleteChannelFinishedCalm, DeleteAccountFinishedCalm, CreateMemberCalm,
       CreateAnnounceCalm, CreateFinishedCalm, SendNotifyCalm, RemoveNotifyCalm,
       DisconnectFinishedCalm, QuitThreadCalm, DispatchCalm DEF Continue
  <2> QED BY <2>1, CalmLists, LoginChannelLists, AppendMessageLists, RemoveTextLists,
             UnlistLists, DeleteListedMessageLists
<1>3. CASE UNCHANGED vars
  <2>1. UNCHANGED <<messages, channelOf, logOf, frame, out, queue>>
    BY <1>3 DEF vars, tables, rooms, texts, threads
  <2>2. \A s \in Conn : Same(s)
    BY <2>1 DEF Same
  <2>3. Calm
    BY <1>a, <2>1, <2>2, HeardBefore, FramesSame DEF Calm
  <2> QED BY <2>3, CalmLists
<1> QED BY <1>1, <1>2, <1>3 DEF Next, Rest

\* However senders, deleters, replays and deletions of accounts interleave, and however often
\* one message is deleted at once: what a channel lists is in the MessageTable, but for a thread
\* between the two removals of Database::remove_message.  A message cannot be deleted between
\* the two additions of Database::add_message because nobody was told its snowflake yet.
THEOREM ListedStored == Spec => []ListedMessagesStored
<1>1. TypeInv /\ TypeInv' /\ ListInv /\ [Next]_vars => ListInv'
  BY ListNext DEF TypeInv
<1>2. TypeInv /\ ListInv => ListedMessagesStored
  BY DEF TypeInv, TablesTypeOK, ListInv, AllBacked, Backed, ListedMessagesStored, Removing
<1> QED BY <1>1, <1>2, ListInit, Typed, PTL DEF Spec
=============================================================================
