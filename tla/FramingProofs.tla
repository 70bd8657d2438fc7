---------------------------- MODULE FramingProofs ----------------------------
(***************************************************************************)
(* Theorems about Framing, for any sizes of header and bodies, any range of   *)
(* the length field, any number of retries and either slot.                   *)
(***************************************************************************)
EXTENDS Framing, TLAPS

\* What the proofs use of the assumption.
LEMMA Sizes ==
    /\ HeaderSize \in Nat /\ HeaderSize > 0
    /\ LengthRange \in Nat /\ LengthRange > 0
    /\ MaxRetries \in Nat
    /\ BodySizes \subseteq Nat
<1>1. HeaderSize \in Nat \ {0}
  BY FramingAssumption
<1>2. LengthRange \in Nat \ {0}
  BY FramingAssumption
<1>3. MaxRetries \in Nat /\ BodySizes \subseteq Nat
  BY FramingAssumption
<1> QED BY <1>1, <1>2, <1>3

USE Sizes

Frame == [start : Nat, size : Nat]

End(i) == sent[i].start + HeaderSize + sent[i].size

\* Where the frame after the k-th starts, or will start.
Boundary(k) == IF k < Len(sent) THEN sent[k + 1].start ELSE written

\* The frames tile the stream.
Tiled ==
    /\ Boundary(0) = 0
    /\ \A i \in 1..Len(sent) : End(i) = Boundary(i)
    /\ \A i \in 1..Len(sent) : End(i) <= written
    /\ \A i, j \in 1..Len(sent) : i < j => End(i) <= sent[j].start

\* Until the place is lost, the slot is where the frames handled so far end, or between
\* the header and the body of the next one.
InStep ==
    ~lost =>
        /\ at # "dead"
        /\ Len(handled) <= Len(sent)
        /\ \A k \in 1..Len(handled) : handled[k] = k
        /\ at \in {"idle", "header"} => pos = Boundary(Len(handled))
        /\ at = "body" =>
              /\ head = Len(handled) + 1
              /\ need = sent[head].size
              /\ pos = sent[head].start + HeaderSize

\* Whatever happened, the frames handled lie behind the slot, and behind the one being read.
Passed ==
    /\ \A k \in 1..Len(handled) : handled[k] # 0 => sent[handled[k]].start < pos
    /\ (at = "body" /\ head # 0) =>
          /\ sent[head].start < pos
          /\ \A k \in 1..Len(handled) : handled[k] < head

Inv == TypeOK /\ Tiled /\ InStep /\ Passed

-----------------------------------------------------------------------------
(* The sender                                                               *)

\* Appending a frame leaves the others, their ends and every boundary that was one.
LEMMA SendStream ==
    ASSUME TypeOK, Tiled, NEW size \in BodySizes, Send(size)
    PROVE  /\ sent' \in Seq(Frame)
           /\ Len(sent') = Len(sent) + 1
           /\ written' \in Nat /\ written <= written'
           /\ \A i \in 1..Len(sent) : sent'[i] = sent[i]
           /\ \A k \in 0..Len(sent) : Boundary(k)' = Boundary(k)
           /\ Tiled'
<1> DEFINE f == [start |-> written, size |-> size]
<1>1. f \in Frame /\ f.start = written /\ f.size = size
  BY DEF TypeOK, Frame
<1>2. sent \in Seq(Frame) /\ sent' = Append(sent, f)
  BY DEF TypeOK, Frame, Send
<1> HIDE DEF f
<1>3. /\ sent' \in Seq(Frame)
      /\ Len(sent') = Len(sent) + 1
      /\ \A i \in 1..Len(sent) : sent'[i] = sent[i]
      /\ sent'[Len(sent) + 1] = f
      /\ Len(sent) \in Nat
  BY <1>1, <1>2
<1>4. written' = written + HeaderSize + size /\ size \in Nat /\ written \in Nat
  BY DEF TypeOK, Send
<1>5. written' \in Nat /\ written <= written'
  BY <1>4
<1>6. \A i \in 1..Len(sent) : sent[i].start \in Nat /\ sent[i].size \in Nat
  <2>1. \A i \in 1..Len(sent) : sent[i] \in Frame
    BY <1>2
  <2> QED BY <2>1 DEF Frame
<1>7. \A k \in 0..Len(sent) : Boundary(k)' = Boundary(k)
  <2> SUFFICES ASSUME NEW k \in 0..Len(sent)
               PROVE  Boundary(k)' = Boundary(k)
    OBVIOUS
  <2>1. CASE k < Len(sent)
    BY <1>3, <2>1 DEF Boundary
  <2>2. CASE k = Len(sent)
    BY <1>1, <1>3, <2>2 DEF Boundary
  <2> QED BY <1>3, <2>1, <2>2
<1>8. \A i \in 1..Len(sent) : End(i)' = End(i)
  BY <1>3 DEF End
<1>9. \A i : i = Len(sent) + 1 => End(i)' = written'
  BY <1>1, <1>3, <1>4 DEF End
<1>10. Tiled'
  <2>1. Boundary(0)' = 0
    BY <1>3, <1>7 DEF Tiled
  <2>2. \A i \in 1..Len(sent') : End(i)' = Boundary(i)'
    <3> SUFFICES ASSUME NEW i \in 1..Len(sent')
                 PROVE  End(i)' = Boundary(i)'
      OBVIOUS
    <3>1. CASE i <= Len(sent)
      BY <1>3, <1>7, <1>8, <3>1 DEF Tiled
    <3>2. CASE i = Len(sent) + 1
      BY <1>3, <1>9, <3>2 DEF Boundary
    <3> QED BY <1>3, <3>1, <3>2
  <2>3. \A i \in 1..Len(sent') : End(i)' <= written'
    <3> SUFFICES ASSUME NEW i \in 1..Len(sent')
                 PROVE  End(i)' <= written'
      OBVIOUS
    <3>1. CASE i <= Len(sent)
      <4>1. End(i)' = End(i) /\ End(i) <= written /\ End(i) \in Nat
        BY <1>3, <1>6, <1>8, <3>1 DEF Tiled, End
      <4> QED BY <1>4, <1>5, <4>1
    <3>2. CASE i = Len(sent) + 1
      BY <1>5, <1>9, <3>2
    <3> QED BY <1>3, <3>1, <3>2
  <2>4. \A i, j \in 1..Len(sent') : i < j => End(i)' <= sent'[j].start
    <3> SUFFICES ASSUME NEW i \in 1..Len(sent'), NEW j \in 1..Len(sent'), i < j
                 PROVE  End(i)' <= sent'[j].start
      OBVIOUS
    <3>1. i \in 1..Len(sent) /\ End(i)' = End(i)
      BY <1>3, <1>8
    <3>2. CASE j <= Len(sent)
      BY <1>3, <3>1, <3>2 DEF Tiled
    <3>3. CASE j = Len(sent) + 1
      BY <1>1, <1>3, <3>1, <3>3 DEF Tiled
    <3> QED BY <1>3, <3>2, <3>3
  <2> QED BY <2>1, <2>2, <2>3, <2>4 DEF Tiled
<1> QED BY <1>3, <1>5, <1>7, <1>10

\* A sequence over a set is one over a larger set.
LEMMA SeqGrows ==
    ASSUME NEW S, NEW T, S \subseteq T, NEW s \in Seq(S)
    PROVE  s \in Seq(T)
<1>1. \A i \in 1..Len(s) : s[i] \in T
  OBVIOUS
<1>2. Len(s) \in Nat /\ s = [i \in 1..Len(s) |-> s[i]]
  OBVIOUS
<1> QED BY <1>1, <1>2

\* The sender writes behind everything the slot has done.
LEMMA SendInv ==
    ASSUME Inv, NEW size \in BodySizes, Send(size)
    PROVE  Inv'
<1>1. /\ sent' \in Seq(Frame)
      /\ Len(sent') = Len(sent) + 1
      /\ written' \in Nat /\ written <= written'
      /\ \A i \in 1..Len(sent) : sent'[i] = sent[i]
      /\ \A k \in 0..Len(sent) : Boundary(k)' = Boundary(k)
      /\ Tiled'
  BY SendStream DEF Inv
<1>2. UNCHANGED <<slot, arrived, buffered, pos, at, head, need, retries, handled, lost>>
  BY DEF Send
<1>3. Len(sent) \in Nat
  BY DEF Inv, TypeOK
<1>4. TypeOK'
  <2>1. handled' \in Seq(0..Len(sent'))
    <3>1. 0..Len(sent) \subseteq 0..Len(sent')
      BY <1>1, <1>3
    <3>2. handled \in Seq(0..Len(sent))
      BY DEF Inv, TypeOK
    <3> QED BY <1>2, <3>1, <3>2, SeqGrows
  <2>2. head' \in 0..Len(sent')
    BY <1>1, <1>2, <1>3 DEF Inv, TypeOK
  <2>3. arrived' \in 0..written'
    BY <1>1, <1>2 DEF Inv, TypeOK
  <2> QED BY <1>1, <1>2, <2>1, <2>2, <2>3 DEF Inv, TypeOK, Frame
<1>5. InStep'
  <2> SUFFICES ASSUME ~lost
               PROVE  /\ at # "dead"
                      /\ Len(handled) <= Len(sent')
                      /\ \A k \in 1..Len(handled) : handled[k] = k
                      /\ at \in {"idle", "header"} => pos = Boundary(Len(handled))'
                      /\ at = "body" =>
                            /\ head = Len(handled) + 1
                            /\ need = sent'[head].size
                            /\ pos = sent'[head].start + HeaderSize
    BY <1>2 DEF InStep
  <2>1. Len(handled) \in 0..Len(sent)
    BY <1>3 DEF Inv, TypeOK, InStep
  <2>2. Boundary(Len(handled))' = Boundary(Len(handled))
    BY <1>1, <1>2, <2>1 DEF Boundary
  <2>3. at = "body" => head \in 1..Len(sent)
    BY <2>1 DEF Inv, InStep, TypeOK
  <2> QED BY <1>1, <1>3, <2>1, <2>2, <2>3 DEF Inv, InStep
<1>6. Passed'
  <2>1. \A k \in 1..Len(handled) : handled[k] \in 0..Len(sent)
    BY DEF Inv, TypeOK
  <2>2. head \in 0..Len(sent)
    BY DEF Inv, TypeOK
  <2> QED BY <1>1, <1>2, <1>3, <2>1, <2>2 DEF Inv, Passed
<1> QED BY <1>1, <1>4, <1>5, <1>6 DEF Inv

-----------------------------------------------------------------------------
(* The receiver                                                             *)

\* Only the sender changes the frames.
LEMMA TiledKept ==
    ASSUME Tiled, UNCHANGED <<sent, written>>
    PROVE  Tiled'
BY DEF Tiled, Boundary, End

\* Bytes that arrive, a return for want of a header, and a sleep move nothing.
LEMMA QuietInv ==
    ASSUME Inv, Arrive \/ Notify \/ NoHeader \/ Sleep
    PROVE  Inv'
<1>1. UNCHANGED <<slot, sent, written, pos, head, need, handled, lost>>
  BY DEF Arrive, Notify, NoHeader, Sleep, stream
<1>2. \/ UNCHANGED at
      \/ at \in {"idle", "header"} /\ at' \in {"idle", "header"}
  BY DEF Arrive, Notify, NoHeader, Sleep
<1>3. TypeOK'
  <2>1. CASE Arrive
    BY <2>1 DEF Inv, TypeOK, Arrive
  <2>2. CASE Notify
    BY <2>2 DEF Inv, TypeOK, Notify
  <2>3. CASE NoHeader
    BY <2>3 DEF Inv, TypeOK, NoHeader, stream
  <2>4. CASE Sleep
    BY <2>4 DEF Inv, TypeOK, Sleep, stream
  <2> QED BY <2>1, <2>2, <2>3, <2>4
<1>4. Tiled'
  BY <1>1, TiledKept DEF Inv
<1>5. InStep'
  BY <1>1, <1>2 DEF Inv, InStep, Boundary
<1>6. Passed'
  BY <1>1, <1>2 DEF Inv, Passed
<1> QED BY <1>3, <1>4, <1>5, <1>6 DEF Inv

\* Positions and sizes of frames are numbers; frames start apart from each other.
LEMMA Starts ==
    ASSUME TypeOK, Tiled
    PROVE  /\ Len(sent) \in Nat
           /\ \A i \in 1..Len(sent) : sent[i].start \in Nat /\ sent[i].size \in Nat
           /\ \A i \in 1..Len(sent) : sent[i].start < written
           /\ \A i, j \in 1..Len(sent) : i < j => sent[i].start < sent[j].start
<1>1. Len(sent) \in Nat /\ \A i \in 1..Len(sent) : sent[i] \in Frame
  <2>1. sent \in Seq(Frame)
    BY DEF TypeOK, Frame
  <2> QED BY <2>1
<1>2. \A i \in 1..Len(sent) : sent[i].start \in Nat /\ sent[i].size \in Nat
  BY <1>1 DEF Frame
<1>3. written \in Nat
  BY DEF TypeOK
<1>4. \A i \in 1..Len(sent) : End(i) \in Nat /\ sent[i].start < End(i)
  BY <1>2 DEF End
<1>5. \A i \in 1..Len(sent) : End(i) <= written
  BY DEF Tiled
<1>6. \A i, j \in 1..Len(sent) : i < j => End(i) <= sent[j].start
  BY DEF Tiled
<1>7. \A i \in 1..Len(sent) : sent[i].start < written
  <2> SUFFICES ASSUME NEW i \in 1..Len(sent)
               PROVE  sent[i].start < written
    OBVIOUS
  <2>1. sent[i].start \in Nat /\ End(i) \in Nat
    BY <1>2, <1>4
  <2>2. sent[i].start < End(i) /\ End(i) <= written
    BY <1>4, <1>5
  <2> QED BY <1>3, <2>1, <2>2
<1>8. \A i, j \in 1..Len(sent) : i < j => sent[i].start < sent[j].start
  <2> SUFFICES ASSUME NEW i \in 1..Len(sent), NEW j \in 1..Len(sent), i < j
               PROVE  sent[i].start < sent[j].start
    OBVIOUS
  <2>1. sent[i].start \in Nat /\ sent[j].start \in Nat /\ End(i) \in Nat
    BY <1>2, <1>4
  <2>2. sent[i].start < End(i) /\ End(i) <= sent[j].start
    BY <1>4, <1>6
  <2> QED BY <2>1, <2>2
<1> QED BY <1>1, <1>2, <1>7, <1>8

\* A header read in step is the header of the next frame.
LEMMA ReadHeaderInv ==
    ASSUME Inv, ReadHeader
    PROVE  Inv'
<1>1. PICK i \in 1..Len(sent) :
          /\ sent[i].start = pos
          /\ head' = i
          /\ need' = PacketLength(i)
          /\ lost' = (lost \/ PacketLength(i) # sent[i].size)
  BY DEF ReadHeader
<1>2. /\ at = "header" /\ at' = "body" /\ retries' = 0
      /\ pos' = pos + HeaderSize /\ pos' <= buffered
      /\ UNCHANGED <<slot, sent, written, arrived, buffered, handled>>
  BY DEF ReadHeader, stream, Available, Inv, TypeOK
<1>3. /\ Len(sent) \in Nat
      /\ \A j \in 1..Len(sent) : sent[j].start \in Nat /\ sent[j].size \in Nat
      /\ \A j \in 1..Len(sent) : sent[j].start < written
      /\ \A j, k \in 1..Len(sent) : j < k => sent[j].start < sent[k].start
  BY Starts DEF Inv
<1>4. PacketLength(i) \in 0..(LengthRange - 1)
  BY <1>3 DEF PacketLength
<1>5. TypeOK'
  <2>1. pos' \in 0..buffered'
    BY <1>2 DEF Inv, TypeOK
  <2>2. head' \in 0..Len(sent') /\ need' \in 0..(LengthRange - 1)
    BY <1>1, <1>2, <1>3, <1>4
  <2>3. lost' \in BOOLEAN
    BY <1>1
  <2> QED BY <1>2, <2>1, <2>2, <2>3 DEF Inv, TypeOK
<1>6. Tiled'
  BY <1>2, TiledKept DEF Inv
<1>7. InStep'
  <2> SUFFICES ASSUME ~lost'
               PROVE  /\ i = Len(handled) + 1
                      /\ PacketLength(i) = sent[i].size
                      /\ Len(handled) <= Len(sent)
                      /\ \A k \in 1..Len(handled) : handled[k] = k
    BY <1>1, <1>2 DEF InStep
  <2>1. ~lost /\ PacketLength(i) = sent[i].size
    BY <1>1
  <2>2. /\ Len(handled) <= Len(sent)
        /\ \A k \in 1..Len(handled) : handled[k] = k
        /\ pos = Boundary(Len(handled))
    BY <1>2, <2>1 DEF Inv, InStep
  <2>3. Len(handled) \in Nat
    BY DEF Inv, TypeOK
  <2>4. i = Len(handled) + 1
    <3>1. Len(handled) < Len(sent)
      BY <1>1, <1>3, <2>2, <2>3 DEF Boundary
    <3>2. Len(handled) + 1 \in 1..Len(sent) /\ sent[Len(handled) + 1].start = sent[i].start
      BY <1>1, <1>3, <2>2, <2>3, <3>1 DEF Boundary
    <3> QED BY <1>3, <3>2
  <2> QED BY <2>1, <2>2, <2>4
<1>8. Passed'
  <2>1. \A k \in 1..Len(handled) : handled[k] \in 0..Len(sent)
    BY SMTT(30) DEF Inv, TypeOK
  <2>2. \A k \in 1..Len(handled) : handled[k] # 0 => sent[handled[k]].start < pos
    BY DEF Inv, Passed
  <2>3. \A k \in 1..Len(handled) : handled[k] < i
    <3> SUFFICES ASSUME NEW k \in 1..Len(handled), ~(handled[k] < i)
                 PROVE  FALSE
      OBVIOUS
    <3>1. handled[k] \in 1..Len(sent) /\ i <= handled[k]
      BY <1>3, <2>1
    <3>2. sent[handled[k]].start < sent[i].start
      BY <1>1, <2>2, <3>1
    <3>3. sent[i].start \in Nat /\ sent[handled[k]].start \in Nat
      BY <1>3, <3>1
    <3>4. i # handled[k]
      BY <3>2, <3>3
    <3>5. sent[i].start < sent[handled[k]].start
      BY <1>3, <3>1, <3>4
    <3> QED BY <3>2, <3>3, <3>5
  <2>4. pos \in Nat /\ pos < pos'
    BY <1>2 DEF Inv, TypeOK
  <2>5. \A k \in 1..Len(handled) : handled[k] # 0 => sent[handled[k]].start < pos'
    BY <1>2, <1>3, <2>1, <2>2, <2>4
  <2> QED BY <1>1, <1>2, <2>3, <2>4, <2>5 DEF Passed
<1> QED BY <1>5, <1>6, <1>7, <1>8 DEF Inv

\* In step, the bytes at the slot are a header: nothing else is read as one.
LEMMA StrayIsLost ==
    ASSUME Inv, ReadStray
    PROVE  lost
<1> SUFFICES ASSUME ~lost
             PROVE  FALSE
  OBVIOUS
<1>1. Len(handled) <= Len(sent) /\ pos = Boundary(Len(handled)) /\ at = "header"
  BY DEF Inv, InStep, ReadStray
<1>2. Len(handled) \in Nat /\ Len(sent) \in Nat
  BY DEF Inv, TypeOK
<1>3. pos + HeaderSize <= written
  BY DEF ReadStray, Available, Inv, TypeOK
<1>4. pos < written
  BY <1>3 DEF Inv, TypeOK
<1>5. Len(handled) < Len(sent)
  BY <1>1, <1>2, <1>4 DEF Boundary, Inv, TypeOK
<1>6. Len(handled) + 1 \in 1..Len(sent) /\ sent[Len(handled) + 1].start = pos
  BY <1>1, <1>2, <1>5 DEF Boundary
<1> QED BY <1>6 DEF ReadStray, OutOfStep

\* Out of step, the slot moves on.
LEMMA ReadStrayInv ==
    ASSUME Inv, ReadStray
    PROVE  Inv'
<1>1. /\ pos' = pos + HeaderSize /\ head' = 0 /\ pos' <= buffered
      /\ UNCHANGED <<slot, sent, written, arrived, buffered, handled, lost>>
      /\ at' \in {"idle", "body"}
      /\ need' \in 0..(LengthRange - 1) /\ retries' \in 0..MaxRetries
  BY DEF ReadStray, stream, Available, Inv, TypeOK
<1>2. lost
  BY StrayIsLost
<1>3. TypeOK'
  <2>1. pos' \in 0..buffered'
    BY <1>1 DEF Inv, TypeOK
  <2>2. head' \in 0..Len(sent')
    BY <1>1 DEF Inv, TypeOK
  <2> QED BY <1>1, <2>1, <2>2 DEF Inv, TypeOK
<1>4. Tiled'
  BY <1>1, TiledKept DEF Inv
<1>5. InStep'
  BY <1>1, <1>2 DEF InStep
<1>6. Passed'
  <2>1. pos \in Nat /\ pos < pos'
    BY <1>1 DEF Inv, TypeOK
  <2>2. \A k \in 1..Len(handled) : handled[k] \in 0..Len(sent)
    BY DEF Inv, TypeOK
  <2>3. \A j \in 1..Len(sent) : sent[j].start \in Nat
    BY Starts DEF Inv
  <2> QED BY <1>1, <2>1, <2>2, <2>3 DEF Inv, Passed
<1> QED BY <1>3, <1>4, <1>5, <1>6 DEF Inv

\* Giving up, the slot stands between a header and its body, and says so.
LEMMA GiveUpInv ==
    ASSUME Inv, GiveUp
    PROVE  Inv'
<1>1. /\ at' = "idle" /\ lost' = TRUE /\ head' = 0 /\ need' = 0 /\ retries' = 0
      /\ UNCHANGED <<slot, sent, written, arrived, buffered, pos, handled>>
  BY DEF GiveUp, Returned, stream
<1>2. TypeOK'
  BY <1>1 DEF Inv, TypeOK
<1>3. Tiled'
  BY <1>1, TiledKept DEF Inv
<1>4. InStep' /\ Passed'
  BY <1>1 DEF Inv, InStep, Passed
<1> QED BY <1>2, <1>3, <1>4 DEF Inv

\* What Handle and HandleStray do to the place in the stream: the whole body is taken.
LEMMA BodyTaken ==
    ASSUME Inv, Handle \/ HandleStray
    PROVE  /\ at = "body"
           /\ pos' = pos + need
           /\ pos \in Nat /\ need \in Nat
           /\ pos' \in 0..buffered
           /\ UNCHANGED <<slot, sent, written, arrived, buffered, lost>>
           /\ head' = 0 /\ need' = 0 /\ retries' = 0
           /\ at' \in {"idle", "header", "dead"}
           /\ at' = "dead" => HandleStray
<1>1. /\ at = "body" /\ pos' = pos + need /\ need <= buffered - pos
      /\ UNCHANGED <<slot, sent, written, arrived, buffered, lost>>
      /\ head' = 0 /\ need' = 0 /\ retries' = 0
  BY DEF Handle, HandleStray, Returned, Available, stream
<1>2. /\ at' \in {"idle", "header", "dead"}
      /\ at' = "dead" => HandleStray
  BY DEF Handle, HandleStray, Again
<1>3. pos \in Nat /\ need \in Nat /\ buffered \in Nat
  BY DEF Inv, TypeOK
<1>4. pos' \in 0..buffered
  BY <1>1, <1>3
<1> QED BY <1>1, <1>2, <1>3, <1>4

\* In step, the body taken is that of the frame of the header, the next one.
LEMMA BodyInStep ==
    ASSUME Inv, at = "body", ~lost
    PROVE  /\ Body = Len(handled) + 1
           /\ Len(handled) + 1 \in 1..Len(sent)
           /\ pos + need = Boundary(Len(handled) + 1)
<1>1. /\ head = Len(handled) + 1
      /\ need = sent[head].size
      /\ pos = sent[head].start + HeaderSize
  BY DEF Inv, InStep
<1>2. Len(handled) \in Nat /\ head \in 0..Len(sent) /\ Len(sent) \in Nat
  BY DEF Inv, TypeOK
<1>3. head \in 1..Len(sent) /\ head # 0
  BY <1>1, <1>2
<1>4. Body = head
  BY <1>1, <1>3 DEF Body
<1>5. pos + need = End(head)
  BY <1>1 DEF End
<1>6. End(head) = Boundary(head)
  BY <1>3 DEF Inv, Tiled
<1> QED BY <1>1, <1>3, <1>4, <1>5, <1>6

\* A body that is handed on is that of the frame of its header, or of no frame.
LEMMA BodyIsFrame ==
    ASSUME Inv, at = "body"
    PROVE  /\ Body \in 0..Len(sent)
           /\ Body # 0 => /\ Body = head
                          /\ sent[Body].start < pos
                          /\ \A k \in 1..Len(handled) : handled[k] < Body
BY DEF Inv, TypeOK, Passed, Body

\* Handling a frame, the slot moves to the start of the next one, if it is in step.
LEMMA HandleInv ==
    ASSUME Inv, Handle
    PROVE  Inv'
<1>1. /\ at = "body"
      /\ pos' = pos + need
      /\ pos \in Nat /\ need \in Nat
      /\ pos' \in 0..buffered
      /\ UNCHANGED <<slot, sent, written, arrived, buffered, lost>>
      /\ head' = 0 /\ need' = 0 /\ retries' = 0
  BY BodyTaken
<1>2. /\ at' \in {"idle", "header"}
      /\ handled' = Append(handled, Body)
  BY DEF Handle, Again
<1>3. Body \in 0..Len(sent)
  BY <1>1, BodyIsFrame
<1>4. handled \in Seq(0..Len(sent)) /\ Len(sent) \in Nat
  BY DEF Inv, TypeOK
<1>5. /\ handled' \in Seq(0..Len(sent))
      /\ Len(handled') = Len(handled) + 1
      /\ Len(handled) \in Nat
      /\ \A k \in 1..Len(handled) : handled'[k] = handled[k]
      /\ handled'[Len(handled) + 1] = Body
  BY <1>2, <1>3, <1>4
<1>6. TypeOK'
  <2>1. /\ head' \in 0..Len(sent') /\ need' \in 0..(LengthRange - 1)
        /\ retries' \in 0..MaxRetries
    BY <1>1, <1>4
  <2> QED BY <1>1, <1>2, <1>5, <2>1 DEF Inv, TypeOK
<1>7. Tiled'
  BY <1>1, TiledKept DEF Inv
<1>8. InStep'
  <2> SUFFICES ASSUME ~lost
               PROVE  /\ Len(handled) + 1 <= Len(sent)
                      /\ \A k \in 1..(Len(handled) + 1) : handled'[k] = k
                      /\ pos + need = Boundary(Len(handled) + 1)
    BY <1>1, <1>2, <1>5 DEF InStep, Boundary
  <2>1. /\ Body = Len(handled) + 1
        /\ Len(handled) + 1 \in 1..Len(sent)
        /\ pos + need = Boundary(Len(handled) + 1)
    BY <1>1, BodyInStep
  <2>2. \A k \in 1..Len(handled) : handled[k] = k
    BY DEF Inv, InStep
  <2> QED BY <1>5, <2>1, <2>2
<1>9. Passed'
  <2>1. \A k \in 1..Len(handled) : handled[k] # 0 => sent[handled[k]].start < pos
    BY DEF Inv, Passed
  <2>2. Body # 0 => sent[Body].start < pos
    BY <1>1, BodyIsFrame
  <2>3. \A j \in 1..Len(sent) : sent[j].start \in Nat
    BY Starts DEF Inv
  <2>4. \A k \in 1..Len(handled') : handled'[k] \in 0..Len(sent)
    BY <1>5
  <2>5. \A k \in 1..Len(handled') : handled'[k] # 0 => sent[handled'[k]].start < pos'
    <3> SUFFICES ASSUME NEW k \in 1..Len(handled'), handled'[k] # 0
                 PROVE  sent[handled'[k]].start < pos'
      OBVIOUS
    <3>1. sent[handled'[k]].start < pos
      BY <1>5, <2>1, <2>2
    <3>2. sent[handled'[k]].start \in Nat
      BY <1>4, <2>3, <2>4
    <3> QED BY <1>1, <3>1, <3>2
  <2> QED BY <1>1, <1>2, <2>5 DEF Passed
<1> QED BY <1>6, <1>7, <1>8, <1>9 DEF Inv

\* Only out of step can what was read be no frame.
LEMMA HandleStrayInv ==
    ASSUME Inv, HandleStray
    PROVE  Inv'
<1>1. /\ at = "body"
      /\ pos' = pos + need
      /\ pos \in Nat /\ need \in Nat
      /\ pos' \in 0..buffered
      /\ UNCHANGED <<slot, sent, written, arrived, buffered, lost>>
      /\ head' = 0 /\ need' = 0 /\ retries' = 0
      /\ at' \in {"idle", "header", "dead"}
  BY BodyTaken
<1>2. UNCHANGED handled /\ Body = 0
  BY DEF HandleStray
<1>3. lost
  <2> SUFFICES ASSUME ~lost
               PROVE  FALSE
    OBVIOUS
  <2>1. Body = Len(handled) + 1 /\ Len(handled) \in Nat
    BY <1>1, BodyInStep DEF Inv, TypeOK
  <2> QED BY <1>2, <2>1
<1>4. TypeOK'
  <2>1. /\ head' \in 0..Len(sent') /\ need' \in 0..(LengthRange - 1)
        /\ retries' \in 0..MaxRetries
    BY <1>1 DEF Inv, TypeOK
  <2> QED BY <1>1, <1>2, <2>1 DEF Inv, TypeOK
<1>5. Tiled'
  BY <1>1, TiledKept DEF Inv
<1>6. InStep'
  BY <1>1, <1>3 DEF InStep
<1>7. Passed'
  <2>1. \A k \in 1..Len(handled) : handled[k] # 0 => sent[handled[k]].start < pos
    BY DEF Inv, Passed
  <2>2. \A k \in 1..Len(handled) : handled[k] # 0 => sent[handled[k]].start \in Nat
    <3>1. \A k \in 1..Len(handled) : handled[k] \in 0..Len(sent)
      BY DEF Inv, TypeOK
    <3>2. \A j \in 1..Len(sent) : sent[j].start \in Nat
      BY Starts DEF Inv
    <3> QED BY <3>1, <3>2
  <2>3. \A k \in 1..Len(handled) : handled[k] # 0 => sent[handled[k]].start < pos'
    BY <1>1, <2>1, <2>2
  <2> QED BY <1>1, <1>2, <2>3 DEF Passed
<1> QED BY <1>4, <1>5, <1>6, <1>7 DEF Inv

-----------------------------------------------------------------------------
(* The theorems                                                             *)

LEMMA InitInv == Init => Inv
<1> SUFFICES ASSUME Init
             PROVE  Inv
  OBVIOUS
<1>1. TypeOK
  <2>1. sent = <<>> /\ handled = <<>> /\ Len(sent) = 0
    BY DEF Init
  <2>2. sent \in Seq(Frame) /\ handled \in Seq(0..Len(sent))
    BY <2>1
  <2>3. /\ slot \in Slot /\ written = 0 /\ arrived = 0 /\ buffered = 0 /\ pos = 0
        /\ at = "idle" /\ head = 0 /\ need = 0 /\ retries = 0 /\ lost = FALSE
    BY DEF Init
  <2>4. /\ written \in Nat /\ arrived \in 0..written /\ buffered \in 0..arrived
        /\ pos \in 0..buffered /\ head \in 0..Len(sent)
        /\ need \in 0..(LengthRange - 1) /\ retries \in 0..MaxRetries
    BY <2>1, <2>3
  <2>5. sent \in Seq([start : Nat, size : Nat])
    BY <2>2 DEF Frame
  <2>6. slot \in Slot /\ at \in {"idle", "header", "body", "dead"} /\ lost \in BOOLEAN
    BY <2>3
  <2> QED BY <2>2, <2>4, <2>5, <2>6 DEF TypeOK
<1>2. Tiled
  BY DEF Init, Tiled, Boundary
<1>3. InStep
  BY DEF Init, InStep, Boundary
<1>4. Passed
  BY DEF Init, Passed
<1> QED BY <1>1, <1>2, <1>3, <1>4 DEF Inv

LEMMA NextInv == Inv /\ [Next]_vars => Inv'
<1> SUFFICES ASSUME Inv, [Next]_vars
             PROVE  Inv'
  OBVIOUS
<1>1. CASE \E size \in BodySizes : Send(size)
  BY <1>1, SendInv
<1>2. CASE Arrive \/ Notify \/ NoHeader \/ Sleep
  BY <1>2, QuietInv
<1>3. CASE ReadHeader
  BY <1>3, ReadHeaderInv
<1>4. CASE ReadStray
  BY <1>4, ReadStrayInv
<1>5. CASE GiveUp
  BY <1>5, GiveUpInv
<1>6. CASE Handle
  BY <1>6, HandleInv
<1>7. CASE HandleStray
  BY <1>7, HandleStrayInv
<1>8. CASE UNCHANGED vars
  BY <1>8 DEF vars, Inv, TypeOK, Tiled, InStep, Passed, Boundary, End
<1> QED BY <1>1, <1>2, <1>3, <1>4, <1>5, <1>6, <1>7, <1>8 DEF Next, Step

THEOREM InvCorrect == Spec => []Inv
BY InitInv, NextInv, PTL DEF Spec

\* No byte is read before it has arrived, no length exceeds what its field holds, and no
\* slot sleeps more often than it may: for every size, either slot, any number of frames.
THEOREM TypeCorrect == Spec => []TypeOK
<1>1. Inv => TypeOK
  BY DEF Inv
<1> QED BY InvCorrect, <1>1, PTL

\* The frames of the queue are those sent.
LEMMA QueueInit == Init => Queue!Init
BY DEF Init, Queue!Init

\* Every step of a slot is a step of the queue, or none of its business.
LEMMA QueueStep == Inv /\ [Next]_vars => [Queue!Next]_(Queue!vars)
<1> SUFFICES ASSUME Inv, [Next]_vars
             PROVE  [Queue!Next]_(Queue!vars)
  OBVIOUS
<1>1. ASSUME NEW size \in BodySizes, Send(size)
      PROVE  Queue!Send
  <2>1. Len(sent') = Len(sent) + 1
    BY <1>1, SendStream DEF Inv
  <2>2. UNCHANGED <<handled, lost>>
    BY <1>1 DEF Send
  <2> QED BY <2>1, <2>2 DEF Queue!Send
<1>2. CASE Arrive \/ Notify \/ NoHeader \/ Sleep \/ ReadStray \/ UNCHANGED vars
  <2>1. UNCHANGED <<sent, handled, lost>>
    BY <1>2 DEF Arrive, Notify, NoHeader, Sleep, ReadStray, vars, stream
  <2> QED BY <2>1 DEF Queue!vars
<1>3. CASE ReadHeader \/ GiveUp
  <2>1. UNCHANGED <<sent, handled>> /\ (lost' = TRUE \/ lost' = lost)
    <3>1. CASE GiveUp
      BY <3>1 DEF GiveUp, stream
    <3>2. CASE ReadHeader
      <4>1. PICK i \in 1..Len(sent) : lost' = (lost \/ PacketLength(i) # sent[i].size)
        BY <3>2 DEF ReadHeader
      <4>2. lost \in BOOLEAN
        BY DEF Inv, TypeOK
      <4> QED BY <3>2, <4>1, <4>2 DEF ReadHeader, stream
    <3> QED BY <1>3, <3>1, <3>2
  <2> QED BY <2>1 DEF Queue!Next, Queue!Lose, Queue!vars
<1>4. CASE Handle
  <2>1. at = "body" /\ handled' = Append(handled, Body) /\ UNCHANGED <<sent, lost>>
    BY <1>4 DEF Handle, stream
  <2>2. CASE lost
    <3>1. /\ Body \in 0..Len(sent)
          /\ Body = 0 \/ \A k \in 1..Len(handled) : handled[k] < Body
      BY <2>1, BodyIsFrame
    <3> QED BY <2>1, <2>2, <3>1 DEF Queue!Next, Queue!Stray
  <2>3. CASE ~lost
    <3>1. Body = Len(handled) + 1 /\ Len(handled) + 1 \in 1..Len(sent)
      BY <2>1, <2>3, BodyInStep
    <3>2. Len(handled) \in Nat /\ Len(sent) \in Nat
      BY DEF Inv, TypeOK
    <3>3. Len(handled) < Len(sent)
      BY <3>1, <3>2
    <3> QED BY <2>1, <2>3, <3>1, <3>3 DEF Queue!Next, Queue!Receive
  <2> QED BY <2>2, <2>3
<1>5. CASE HandleStray
  <2>1. UNCHANGED <<sent, handled, lost>>
    BY <1>5 DEF HandleStray, stream
  <2> QED BY <2>1 DEF Queue!vars
<1> QED BY <1>1, <1>2, <1>3, <1>4, <1>5 DEF Next, Step, Queue!Next

\* Both slots implement the queue of frames, whatever the sizes of the frames, however
\* the network cuts the stream, and however often a slot gives up.
THEOREM Refines == Spec => QueueOfFrames
<1>1. Spec => Queue!Init /\ [][Queue!Next]_(Queue!vars)
  BY InvCorrect, QueueInit, QueueStep, PTL DEF Spec
<1> QED BY <1>1 DEF QueueOfFrames, Queue!Spec
=============================================================================
