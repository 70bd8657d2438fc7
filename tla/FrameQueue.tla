----------------------------- MODULE FrameQueue -----------------------------
(***************************************************************************)
(* What one direction of a connection promises to the handlers of its         *)
(* receiver: the frames of the sender, whole, in order and each once, until   *)
(* the receiver loses its place in the byte stream.  From then on a frame may *)
(* be missing and bytes that are no frame may be taken for one; no frame is   *)
(* handled twice, and none after a later one.                                 *)
(***************************************************************************)
EXTENDS Integers, Sequences

VARIABLES
    frames,    \* how many frames were sent
    handled,   \* what was handed to the handlers: frame numbers, 0 for what is no frame
    lost       \* the receiver has lost its place

vars == <<frames, handled, lost>>

Init ==
    /\ frames = 0
    /\ handled = <<>>
    /\ lost = FALSE

Send ==
    /\ frames' = frames + 1
    /\ UNCHANGED <<handled, lost>>

Receive ==
    /\ ~lost
    /\ Len(handled) < frames
    /\ handled' = Append(handled, Len(handled) + 1)
    /\ UNCHANGED <<frames, lost>>

Lose ==
    /\ lost' = TRUE
    /\ UNCHANGED <<frames, handled>>

\* A later frame than any before, or no frame.
Stray ==
    /\ lost
    /\ \E i \in 0..frames :
          /\ i = 0 \/ \A k \in 1..Len(handled) : handled[k] < i
          /\ handled' = Append(handled, i)
    /\ UNCHANGED <<frames, lost>>

Next == Send \/ Receive \/ Lose \/ Stray

Spec == Init /\ [][Next]_vars
=============================================================================
