------------------------------- MODULE Framing -------------------------------
(***************************************************************************)
(* One direction of a connection as its receiver sees it: frames (a header   *)
(* and a body) written to a TCP stream, which delivers bytes, and the slot    *)
(* that cuts the stream into frames again.  The server's slot                *)
(* (ClientHandler::on_read_data) handles one frame per readyRead signal, the *)
(* client's (TcpClient::onReadyRead) all that are there.                      *)
(*                                                                         *)
(* A position is a count of bytes since the connection was opened:            *)
(*       pos <= buffered <= arrived <= written.                              *)
(* Bytes come out of the kernel into the QTcpSocket only in the event loop    *)
(* of the thread, which then emits readyRead; not while the slot runs.        *)
(***************************************************************************)
EXTENDS Integers, Sequences

CONSTANTS
    Slot,          \* "one frame" (the server's slot), "all frames" (the client's)
    HeaderSize,    \* Header::size
    LengthRange,   \* 2^16: packet_length is a uint16_t
    MaxRetries,    \* MAX_RETRIES
    BodySizes,     \* the sizes of bodies that are sent
    MaxFrames      \* bound: frames sent

ASSUME FramingAssumption ==
    /\ Slot \subseteq {"one frame", "all frames"}
    /\ HeaderSize \in Nat \ {0}
    /\ LengthRange \in Nat \ {0}
    /\ MaxRetries \in Nat
    /\ BodySizes \subseteq Nat
    /\ MaxFrames \in Nat

VARIABLES
    slot,      \* which of the two slots reads this stream
    sent,      \* the frames written: where each starts and the size of its body
    written,   \* bytes written by the sender
    arrived,   \* bytes the kernel of the receiver has
    buffered,  \* bytes the QTcpSocket has taken out of it
    pos,       \* bytes the slot has read
    at,        \* control point of the slot; "dead" once a handler ended the process
    head,      \* the frame whose header was read last, 0 if the bytes were none
    need,      \* header.packet_length of that header
    retries,   \* the local variable of that name
    handled,   \* history: frames handed to the handlers, 0 for bytes that are no frame
    lost       \* history: a header was read and its body not taken with it

vars == <<slot, sent, written, arrived, buffered, pos, at, head, need, retries, handled, lost>>

stream == <<sent, written, arrived, buffered>>

Init ==
    /\ slot \in Slot
    /\ sent = <<>>
    /\ written = 0
    /\ arrived = 0
    /\ buffered = 0
    /\ pos = 0
    /\ at = "idle"
    /\ head = 0
    /\ need = 0
    /\ retries = 0
    /\ handled = <<>>
    /\ lost = FALSE

Available == buffered - pos

-----------------------------------------------------------------------------
(* The sender, the network and the event loop                               *)

\* One packet is one write.
Send(size) ==
    /\ Len(sent) < MaxFrames
    /\ sent' = Append(sent, [start |-> written, size |-> size])
    /\ written' = written + HeaderSize + size
    /\ UNCHANGED <<slot, arrived, buffered, pos, at, head, need, retries, handled, lost>>

\* Any number of bytes, across frames or short of one.
Arrive ==
    /\ arrived < written
    /\ arrived' \in (arrived + 1)..written
    /\ UNCHANGED <<slot, sent, written, buffered, pos, at, head, need, retries, handled, lost>>

\* The socket takes what has arrived and emits readyRead.
Notify ==
    /\ at = "idle"
    /\ buffered < arrived
    /\ buffered' = arrived
    /\ at' = "header"
    /\ UNCHANGED <<slot, sent, written, arrived, pos, head, need, retries, handled, lost>>

-----------------------------------------------------------------------------
(* The slot                                                                 *)

\* Its locals are gone.
Returned == head' = 0 /\ need' = 0 /\ retries' = 0

\* Too few bytes for a header: return.
NoHeader ==
    /\ at = "header"
    /\ Available < HeaderSize
    /\ at' = "idle"
    /\ UNCHANGED <<slot, stream, pos, head, need, retries, handled, lost>>

\* The packet_length that the header of frame i carries.
PacketLength(i) == sent[i].size % LengthRange

\* The header is read off the stream, in step with the sender.
ReadHeader ==
    /\ at = "header"
    /\ Available >= HeaderSize
    /\ \E i \in 1..Len(sent) :
          /\ sent[i].start = pos
          /\ head' = i
          /\ need' = PacketLength(i)
          /\ lost' = (lost \/ PacketLength(i) # sent[i].size)
    /\ pos' = pos + HeaderSize
    /\ retries' = 0
    /\ at' = "body"
    /\ UNCHANGED <<slot, stream, handled>>

OutOfStep == \A i \in 1..Len(sent) : sent[i].start # pos

\* Out of step, whatever bytes come next are read as a header: one of another version,
\* and the slot returns, or one with any length.
ReadStray ==
    /\ at = "header"
    /\ Available >= HeaderSize
    /\ OutOfStep
    /\ pos' = pos + HeaderSize
    /\ head' = 0
    /\ \/ at' = "idle" /\ UNCHANGED <<need, retries>>
       \/ at' = "body" /\ need' \in 0..(LengthRange - 1) /\ retries' = 0
    /\ UNCHANGED <<slot, stream, handled, lost>>

\* QThread::msleep, in the thread whose event loop would take more bytes.
Sleep ==
    /\ at = "body"
    /\ Available < need
    /\ retries < MaxRetries
    /\ retries' = retries + 1
    /\ UNCHANGED <<slot, stream, pos, at, head, need, handled, lost>>

\* "Too many retries": return, with the header read and the body not.
GiveUp ==
    /\ at = "body"
    /\ Available < need
    /\ retries >= MaxRetries
    /\ at' = "idle"
    /\ lost' = TRUE
    /\ Returned
    /\ UNCHANGED <<slot, stream, pos, handled>>

\* What the bytes of the body are: the frame of the header, if all of it was taken.
Body == IF head # 0 /\ sent[head].size = need THEN head ELSE 0

\* Mutation: onReadyRead has no loop.
Once == "idle"

\* on_read_data returns after a frame, onReadyRead looks for the next one.
Again == IF slot = "one frame" THEN "idle" ELSE "header"

\* Mutation: the offset moves by packet_length, whatever read returned.
HandleUnchecked ==
    /\ at = "body"
    /\ pos' = pos + need
    /\ handled' = Append(handled, Body)
    /\ at' = Again
    /\ Returned
    /\ UNCHANGED <<slot, stream, lost>>

\* Mutation: the body is read without a test for its bytes.
HandleShort ==
    /\ at = "body"
    /\ pos' = IF Available < need THEN buffered ELSE pos + need
    /\ handled' = Append(handled, Body)
    /\ at' = Again
    /\ Returned
    /\ UNCHANGED <<slot, stream, lost>>

\* The body is read, deserialized and dispatched.
Handle ==
    /\ at = "body"
    /\ Available >= need
    /\ pos' = pos + need
    /\ handled' = Append(handled, Body)
    /\ at' = Again
    /\ Returned
    /\ UNCHANGED <<slot, stream, lost>>

\* Bytes that are no frame may carry an operation without a handler, or end the process:
\* deserialize trusts the lengths in them.
HandleStray ==
    /\ at = "body"
    /\ Available >= need
    /\ Body = 0
    /\ pos' = pos + need
    /\ at' \in {Again, "dead"}
    /\ Returned
    /\ UNCHANGED <<slot, stream, handled, lost>>

Step == NoHeader \/ ReadHeader \/ ReadStray \/ Sleep \/ GiveUp \/ Handle \/ HandleStray

Next ==
    \/ \E size \in BodySizes : Send(size)
    \/ Arrive
    \/ Notify
    \/ Step

Spec == Init /\ [][Next]_vars

\* TCP delivers what was written, the event loop runs, and the slot is scheduled.
FairSpec ==
    /\ Spec
    /\ WF_vars(Arrive)
    /\ WF_vars(Notify)
    /\ WF_vars(Step)

-----------------------------------------------------------------------------
(* Properties                                                               *)

\* Every variable stays in its range, and no byte is read before it has arrived.
TypeOK ==
    /\ slot \in Slot
    /\ sent \in Seq([start : Nat, size : Nat])
    /\ written \in Nat /\ arrived \in 0..written /\ buffered \in 0..arrived
    /\ pos \in 0..buffered
    /\ at \in {"idle", "header", "body", "dead"}
    /\ head \in 0..Len(sent)
    /\ need \in 0..(LengthRange - 1)
    /\ retries \in 0..MaxRetries
    /\ handled \in Seq(0..Len(sent))
    /\ lost \in BOOLEAN

Queue == INSTANCE FrameQueue WITH frames <- Len(sent)

\* Both slots implement the queue of frames, however the network cuts and joins them:
\* until a header is read without its body, whole frames in order; after that never a
\* frame twice or before an earlier one.
QueueOfFrames == Queue!Spec

\* A whole frame lies in the socket, and the slot has returned.
Behind ==
    /\ at = "idle"
    /\ \E i \in 1..Len(sent) :
          sent[i].start = pos /\ Available >= HeaderSize + sent[i].size

\* In the end every frame sent is handled, unless the place in the stream was lost.  Only
\* the server's slot leaves a whole frame in its socket: one that arrived with others, for
\* which no further readyRead comes.
KeepsUp ==
    <>[](Len(handled) = Len(sent) \/ lost \/ (slot = "one frame" /\ Behind))

\* The slots call giving up "Timeout waiting for message data"
\* (src/bin/client/model/tcp_client.cpp:131): they give up only on data that is not there.
GivesUpOnlyWithoutData ==
    [][GiveUp => arrived - pos < need]_vars
=============================================================================
