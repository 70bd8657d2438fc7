------------------------------ MODULE Snowflake ------------------------------
(***************************************************************************)
(* SnowflakeIDGenerator (src/models/snowflake.cpp): the process-wide        *)
(* singleton from which every Message takes its identifier.  Several        *)
(* connection threads call nextId at once; the body runs under a mutex; the *)
(* system clock it reads is not monotonic.                                  *)
(*                                                                          *)
(* Timestamps are milliseconds on the same scale as Epoch.  The three ORed   *)
(* bit fields of an identifier do not overlap, so OR is addition and a      *)
(* left shift is a multiplication; 64 bits hold 69 years past Epoch, so the  *)
(* width is not modelled.                                                   *)
(***************************************************************************)
EXTENDS Integers, Sequences

CONSTANTS
    Thread,       \* the threads that call nextId
    IdsPerMs,     \* maxSequence + 1: identifiers available in a millisecond
    Tag,          \* machineId and processId, in place below the timestamp
    LowField,     \* 2^(machineIdBits + processIdBits + sequenceBits)
    Epoch,        \* the custom epoch
    StartClock,   \* the clock when the process starts
    MaxClock,     \* bound: last millisecond of the model
    MaxJumps,     \* bound: how often the clock is set back
    MaxIds        \* bound: identifiers issued

ASSUME SnowflakeAssumption ==
    /\ IdsPerMs \in Nat \ {0}
    /\ Tag \in Nat
    /\ LowField \in Nat
    /\ Tag + IdsPerMs <= LowField
    /\ Epoch \in Int
    /\ StartClock \in Nat
    /\ MaxClock \in Nat
    /\ MaxJumps \in Nat
    /\ MaxIds \in Nat

VARIABLES
    clock,          \* std::chrono::system_clock
    jumps,          \* how often the clock has been set back
    up,             \* FALSE once an exception has left nextId: nothing catches it
    lock,           \* {} or {t}: the thread that holds the mutex
    at,             \* control point of each thread in nextId
    timestamp,      \* the local variable of that name
    lastTimestamp,  \* member lastTimestamp
    sequence,       \* member sequence
    issued          \* history: the identifiers returned, in order

vars == <<clock, jumps, up, lock, at, timestamp, lastTimestamp, sequence, issued>>

Pack(ts, sq) == (ts - Epoch) * LowField + Tag + sq

Init ==
    /\ clock = StartClock
    /\ jumps = 0
    /\ up = TRUE
    /\ lock = {}
    /\ at = [t \in Thread |-> "idle"]
    /\ timestamp = [t \in Thread |-> -1]
    /\ lastTimestamp = -1
    /\ sequence = 0
    /\ issued = <<>>

-----------------------------------------------------------------------------
(* The environment: time passes, or an administrator or NTP sets it back.   *)

Tick ==
    /\ clock < MaxClock
    /\ clock' = clock + 1
    /\ UNCHANGED <<jumps, up, lock, at, timestamp, lastTimestamp, sequence, issued>>

SetBack ==
    /\ jumps < MaxJumps
    /\ jumps' = jumps + 1
    /\ clock' \in 0..(clock - 1)
    /\ UNCHANGED <<up, lock, at, timestamp, lastTimestamp, sequence, issued>>

-----------------------------------------------------------------------------
(* nextId                                                                   *)

\* Mutation: the lock_guard is missing.
EnterUnlocked(t) ==
    /\ up /\ at[t] = "idle"
    /\ Len(issued) < MaxIds /\ lastTimestamp < MaxClock
    /\ lock' = lock \cup {t}
    /\ at' = [at EXCEPT ![t] = "read"]
    /\ UNCHANGED <<clock, jumps, up, timestamp, lastTimestamp, sequence, issued>>

\* std::lock_guard.  The bounds stop new calls, never one that has begun.
Enter(t) ==
    /\ up /\ at[t] = "idle" /\ lock = {}
    /\ Len(issued) < MaxIds /\ lastTimestamp < MaxClock
    /\ lock' = {t}
    /\ at' = [at EXCEPT ![t] = "read"]
    /\ UNCHANGED <<clock, jumps, up, timestamp, lastTimestamp, sequence, issued>>

ReadClock(t) ==
    /\ up /\ at[t] = "read"
    /\ timestamp' = [timestamp EXCEPT ![t] = clock]
    /\ at' = [at EXCEPT ![t] = "test"]
    /\ UNCHANGED <<clock, jumps, up, lock, lastTimestamp, sequence, issued>>

\* Mutation: the mutex is locked by hand and never unlocked.
ReturnLocked(t, ts, sq) ==
    /\ lastTimestamp' = ts
    /\ sequence' = sq
    /\ issued' = Append(issued, Pack(ts, sq))
    /\ at' = [at EXCEPT ![t] = "idle"]
    /\ UNCHANGED lock

\* The tail of nextId: record the timestamp, release the mutex, return.
Return(t, ts, sq) ==
    /\ lastTimestamp' = ts
    /\ sequence' = sq
    /\ issued' = Append(issued, Pack(ts, sq))
    /\ at' = [at EXCEPT ![t] = "idle"]
    /\ lock' = lock \ {t}

\* "Clock moved backwards" leaves the handler's slot uncaught: std::terminate.
Throw(t) ==
    /\ up /\ at[t] = "test"
    /\ timestamp[t] < lastTimestamp
    /\ up' = FALSE
    /\ UNCHANGED <<clock, jumps, lock, at, timestamp, lastTimestamp, sequence, issued>>

NewMillisecond(t) ==
    /\ up /\ at[t] = "test"
    /\ timestamp[t] > lastTimestamp
    /\ Return(t, timestamp[t], 0)
    /\ UNCHANGED <<clock, jumps, up, timestamp>>

\* Mutation: the sequence number is not masked.
NextSequenceUnmasked == sequence + 1

NextSequence == (sequence + 1) % IdsPerMs

\* Mutation: the wrap of the sequence number is not waited out.
SameMillisecondWrapping(t) ==
    /\ up /\ at[t] = "test"
    /\ timestamp[t] = lastTimestamp
    /\ Return(t, timestamp[t], NextSequence)
    /\ UNCHANGED <<clock, jumps, up, timestamp>>

SameMillisecond(t) ==
    /\ up /\ at[t] = "test"
    /\ timestamp[t] = lastTimestamp
    /\ NextSequence # 0
    /\ Return(t, timestamp[t], NextSequence)
    /\ UNCHANGED <<clock, jumps, up, timestamp>>

\* The sequence number wrapped: spin, still holding the mutex.
Exhausted(t) ==
    /\ up /\ at[t] = "test"
    /\ timestamp[t] = lastTimestamp
    /\ NextSequence = 0
    /\ sequence' = 0
    /\ at' = [at EXCEPT ![t] = "spin"]
    /\ UNCHANGED <<clock, jumps, up, lock, timestamp, lastTimestamp, issued>>

\* Mutation: the loop ends when the reading differs, not when it is later.
LeaveOnAnyChange(t) ==
    /\ up /\ at[t] = "spin"
    /\ clock # lastTimestamp
    /\ timestamp' = [timestamp EXCEPT ![t] = clock]
    /\ Return(t, clock, sequence)
    /\ UNCHANGED <<clock, jumps, up>>

\* The spin loop leaves with the first reading after lastTimestamp, whatever the clock did.
\* A reading at or before lastTimestamp only loops.
LeaveSpin(t) ==
    /\ up /\ at[t] = "spin"
    /\ clock > lastTimestamp
    /\ timestamp' = [timestamp EXCEPT ![t] = clock]
    /\ Return(t, clock, sequence)
    /\ UNCHANGED <<clock, jumps, up>>

Step(t) ==
    \/ ReadClock(t)
    \/ Throw(t)
    \/ NewMillisecond(t)
    \/ SameMillisecond(t)
    \/ Exhausted(t)
    \/ LeaveSpin(t)

Next ==
    \/ Tick
    \/ SetBack
    \/ \E t \in Thread : Enter(t) \/ Step(t)

Spec == Init /\ [][Next]_vars

\* Time advances, and the scheduler runs a thread that holds the mutex.  No fairness is
\* asked for Enter: std::mutex does not promise it.
FairSpec ==
    /\ Spec
    /\ WF_vars(Tick)
    /\ \A t \in Thread : WF_vars(Step(t))

-----------------------------------------------------------------------------
(* Properties                                                               *)

\* Every variable stays in its range.
TypeOK ==
    /\ clock \in Nat
    /\ jumps \in Nat
    /\ up \in BOOLEAN
    /\ lock \in SUBSET Thread
    /\ at \in [Thread -> {"idle", "read", "test", "spin"}]
    /\ timestamp \in [Thread -> Int]
    /\ lastTimestamp \in Int
    /\ sequence \in 0..(IdsPerMs - 1)
    /\ issued \in Seq(Int)

\* nextId "guarantees that no two IDs are identical" (include/models/snowflake.hpp:34),
\* and more: identifiers are handed out in increasing order, so the snowflakes of a
\* channel sort as they were created, across threads, wraps of the sequence number and
\* clocks that are set back.
IncreasingIds ==
    \A i, j \in 1..Len(issued) : i < j => issued[i] < issued[j]

\* The thread that spins for the next millisecond holds the mutex: every other sender
\* waits for it.  It gives the mutex back, or the process has died on a clock set back.
HolderReleases ==
    \A t \in Thread : t \in lock ~> (t \notin lock \/ ~up)
=============================================================================
