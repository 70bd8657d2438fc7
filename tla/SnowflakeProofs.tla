--------------------------- MODULE SnowflakeProofs ---------------------------
(***************************************************************************)
(* Proofs about Snowflake: its types, and that identifiers are issued in     *)
(* strictly increasing order, for any number of threads, any field widths,   *)
(* any clock.                                                                *)
(***************************************************************************)
EXTENDS Snowflake, SequenceTheorems, TLAPS

\* The type invariant is inductive on its own.
THEOREM TypeCorrect == Spec => []TypeOK
<1> USE SnowflakeAssumption
<1>1. Init => TypeOK
  BY DEF Init, TypeOK
<1>2. TypeOK /\ [Next]_vars => TypeOK'
  <2> SUFFICES ASSUME TypeOK, [Next]_vars PROVE TypeOK'
    OBVIOUS
  <2> USE DEF TypeOK
  <2>1. CASE Tick
    BY <2>1 DEF Tick
  <2>2. CASE SetBack
    BY <2>2 DEF SetBack
  <2>3. ASSUME NEW t \in Thread, NEW ts \in Int, NEW sq \in 0..(IdsPerMs - 1), Return(t, ts, sq)
        PROVE  /\ lastTimestamp' \in Int
               /\ sequence' \in 0..(IdsPerMs - 1)
               /\ issued' \in Seq(Int)
               /\ at' \in [Thread -> {"idle", "read", "test", "spin"}]
               /\ lock' \in SUBSET Thread
    <3>1. Pack(ts, sq) \in Int
      BY DEF Pack
    <3>2. QED
      BY <2>3, <3>1 DEF Return
  <2>4. ASSUME NEW t \in Thread, Enter(t)
        PROVE  TypeOK'
    BY <2>4 DEF Enter
  <2>5. ASSUME NEW t \in Thread, ReadClock(t)
        PROVE  TypeOK'
    BY <2>5 DEF ReadClock
  <2>6. ASSUME NEW t \in Thread, Throw(t)
        PROVE  TypeOK'
    BY <2>6 DEF Throw
  <2>7. ASSUME NEW t \in Thread, NewMillisecond(t)
        PROVE  TypeOK'
    <3>1. timestamp[t] \in Int /\ 0 \in 0..(IdsPerMs - 1) /\ Return(t, timestamp[t], 0)
      BY <2>7 DEF NewMillisecond
    <3>2. QED
      BY <2>7, <3>1, <2>3 DEF NewMillisecond
  <2>8. ASSUME NEW t \in Thread, SameMillisecond(t)
        PROVE  TypeOK'
    <3>1. timestamp[t] \in Int /\ NextSequence \in 0..(IdsPerMs - 1)
      BY DEF NextSequence
    <3>2. QED
      BY <2>8, <3>1, <2>3 DEF SameMillisecond
  <2>9. ASSUME NEW t \in Thread, Exhausted(t)
        PROVE  TypeOK'
    BY <2>9 DEF Exhausted
  <2>10. ASSUME NEW t \in Thread, LeaveSpin(t)
         PROVE  TypeOK'
    <3>1. Return(t, clock, sequence)
      BY <2>10 DEF LeaveSpin
    <3>2. QED
      BY <2>10, <3>1, <2>3 DEF LeaveSpin
  <2>11. CASE UNCHANGED vars
    BY <2>11 DEF vars
  <2>12. QED
    BY <2>1, <2>2, <2>4, <2>5, <2>6, <2>7, <2>8, <2>9, <2>10, <2>11 DEF Next, Step
<1>3. QED
  BY <1>1, <1>2, PTL DEF Spec

-----------------------------------------------------------------------------
\* An identifier of a later millisecond is greater, whatever the sequence numbers are.
LEMMA PackLater ==
    ASSUME NEW a \in Int, NEW b \in Int, a < b,
           NEW s \in 0..(IdsPerMs - 1), NEW r \in 0..(IdsPerMs - 1)
    PROVE  Pack(a, s) < Pack(b, r)
<1> USE SnowflakeAssumption
<1> DEFINE x == a - Epoch
           y == b - Epoch
           k == y - x - 1
<1>1. x \in Int /\ y \in Int /\ k \in Nat
  OBVIOUS
<1>2. y * LowField = x * LowField + LowField + k * LowField
  <2>1. y = x + 1 + k
    BY <1>1
  <2> HIDE DEF x, y, k
  <2>2. (x + 1 + k) * LowField = x * LowField + LowField + k * LowField
    BY <1>1
  <2>3. QED
    BY <2>1, <2>2
<1>3. k * LowField >= 0
  <2> HIDE DEF k
  <2>1. QED
    BY <1>1
<1>4. x * LowField \in Int /\ y * LowField \in Int /\ k * LowField \in Int
  BY <1>1
<1>5. Pack(a, s) = x * LowField + Tag + s /\ Pack(b, r) = y * LowField + Tag + r
  BY DEF Pack
<1> HIDE DEF x, y, k
<1>6. QED
  BY <1>2, <1>3, <1>4, <1>5

\* Within a millisecond identifiers follow the sequence number.
LEMMA PackSame ==
    ASSUME NEW a \in Int, NEW s \in Int, NEW r \in Int
    PROVE  /\ Pack(a, s) \in Int
           /\ s < r => Pack(a, s) < Pack(a, r)
           /\ s <= r => Pack(a, s) <= Pack(a, r)
<1> USE SnowflakeAssumption
<1> DEFINE x == (a - Epoch) * LowField
<1>1. x \in Int
  OBVIOUS
<1>2. Pack(a, s) = x + Tag + s /\ Pack(a, r) = x + Tag + r
  BY DEF Pack
<1> HIDE DEF x
<1>3. QED
  BY <1>1, <1>2

\* Identifiers are integers.
LEMMA PackInt ==
    ASSUME NEW a \in Int, NEW s \in Int
    PROVE  Pack(a, s) \in Int
BY SnowflakeAssumption DEF Pack

\* The masked increment either wraps to 0 or is the increment.
LEMMA NextSequenceValue ==
    ASSUME sequence \in 0..(IdsPerMs - 1), NextSequence # 0
    PROVE  NextSequence = sequence + 1 /\ sequence + 1 < IdsPerMs
<1> USE SnowflakeAssumption
<1>1. CASE sequence + 1 = IdsPerMs
  <2>1. IdsPerMs % IdsPerMs = 0
    OBVIOUS
  <2>2. QED
    BY <1>1, <2>1 DEF NextSequence
<1>2. CASE sequence + 1 < IdsPerMs
  <2>1. \A a, b \in Nat : a < b => a % b = a
    OBVIOUS
  <2>2. QED
    BY <1>2, <2>1 DEF NextSequence
<1>3. QED
  BY <1>1, <1>2

-----------------------------------------------------------------------------
\* The greatest sequence number that an identifier of lastTimestamp can carry: the counter
\* itself, except while a thread spins, when the counter has already been wrapped to 0.
Reached == IF \E t \in Thread : at[t] = "spin" THEN IdsPerMs - 1 ELSE sequence

\* The mutex is held by the one thread inside nextId.
Exclusive == \A t \in Thread : at[t] # "idle" => lock = {t}

\* The strengthening that makes IncreasingIds inductive.
BelowLast ==
    \A i \in 1..Len(issued) : issued[i] <= Pack(lastTimestamp, Reached)

\* sequence is 0 while a thread spins.
SpinsAtZero == \A t \in Thread : at[t] = "spin" => sequence = 0

IdInv == TypeOK /\ Exclusive /\ SpinsAtZero /\ BelowLast /\ IncreasingIds

\* Issuing an identifier above every earlier one keeps the history increasing, and the new
\* identifier is the greatest.
LEMMA AppendAbove ==
    ASSUME NEW s \in Seq(Int), NEW e \in Int,
           \A i, j \in 1..Len(s) : i < j => s[i] < s[j],
           \A i \in 1..Len(s) : s[i] < e
    PROVE  /\ \A i, j \in 1..Len(Append(s, e)) : i < j => Append(s, e)[i] < Append(s, e)[j]
           /\ \A i \in 1..Len(Append(s, e)) : Append(s, e)[i] <= e
<1>1. /\ Len(Append(s, e)) = Len(s) + 1
      /\ Len(s) \in Nat
      /\ \A i \in 1..Len(s) : Append(s, e)[i] = s[i] /\ s[i] \in Int
      /\ Append(s, e)[Len(s) + 1] = e
  OBVIOUS
<1>2. \A i \in 1..Len(Append(s, e)) : i \in 1..Len(s) \/ i = Len(s) + 1
  BY <1>1
<1>3. QED
  BY <1>1, <1>2

\* nextId "guarantees that no two IDs are identical" (include/models/snowflake.hpp:34):
\* identifiers are issued in strictly increasing order.
THEOREM IdsIncrease == Spec => []IncreasingIds
<1> USE SnowflakeAssumption
<1>1. Init => IdInv
  <2> SUFFICES ASSUME Init PROVE IdInv
    OBVIOUS
  <2>1. TypeOK
    BY DEF Init, TypeOK
  <2>2. QED
    BY <2>1 DEF Init, IdInv, Exclusive, SpinsAtZero, BelowLast, IncreasingIds
<1>2. IdInv /\ TypeOK' /\ [Next]_vars => IdInv'
  <2> SUFFICES ASSUME IdInv, TypeOK', [Next]_vars PROVE IdInv'
    OBVIOUS
  <2> USE DEF IdInv
  <2>1. /\ Reached \in 0..(IdsPerMs - 1)
        /\ Reached \in Int
        /\ IdsPerMs - 1 \in Int
        /\ lastTimestamp \in Int
    BY DEF TypeOK, Reached
  <2>2. ASSUME UNCHANGED <<at, lock, lastTimestamp, sequence, issued>>
        PROVE  IdInv'
    BY <2>2 DEF Exclusive, SpinsAtZero, BelowLast, Reached, IncreasingIds
  <2>3. ASSUME NEW t \in Thread, NEW ts \in Int, NEW sq \in 0..(IdsPerMs - 1),
               at[t] # "idle",
               Pack(lastTimestamp, Reached) < Pack(ts, sq),
               Return(t, ts, sq)
        PROVE  IdInv'
    <3>1. \A u \in Thread : at'[u] = "idle"
      BY <2>3 DEF Return, Exclusive, TypeOK
    <3>2. Exclusive' /\ SpinsAtZero' /\ Reached' = sq
      BY <2>3, <3>1 DEF Exclusive, SpinsAtZero, Reached, Return
    <3>3. Pack(ts, sq) \in Int /\ Pack(lastTimestamp, Reached) \in Int
      <4>1. sq \in Int
        OBVIOUS
      <4>2. QED
        BY <2>1, <4>1, PackInt
    <3>4. \A i \in 1..Len(issued) : issued[i] < Pack(ts, sq)
      BY <2>3, <3>3, SMTT(30) DEF BelowLast, TypeOK
    <3>5. /\ IncreasingIds'
          /\ \A i \in 1..Len(issued') : issued'[i] <= Pack(ts, sq)
      BY <2>3, <3>3, <3>4, AppendAbove DEF TypeOK, IncreasingIds, Return
    <3>6. BelowLast'
      BY <2>3, <3>2, <3>5 DEF BelowLast, Return, Pack
    <3>7. QED
      BY <3>2, <3>5, <3>6
  <2>4. CASE Tick
    BY <2>2, <2>4 DEF Tick
  <2>5. CASE SetBack
    BY <2>2, <2>5 DEF SetBack
  <2>6. ASSUME NEW t \in Thread, Enter(t)
        PROVE  IdInv'
    <3>1. \A u \in Thread : at[u] = "idle" /\ (u # t => at'[u] = at[u]) /\ at'[t] = "read"
      BY <2>6 DEF Enter, Exclusive, TypeOK
    <3>2. Reached' = Reached
      BY <2>6, <3>1 DEF Enter, Reached
    <3>3. QED
      BY <2>6, <3>1, <3>2
         DEF Enter, Exclusive, SpinsAtZero, BelowLast, IncreasingIds, Pack
  <2>7. ASSUME NEW t \in Thread, ReadClock(t)
        PROVE  IdInv'
    <3>1. \A u \in Thread : u # t => at[u] = "idle" /\ at'[u] = "idle"
      BY <2>7 DEF ReadClock, Exclusive, TypeOK
    <3>2. at[t] = "read" /\ at'[t] = "test"
      BY <2>7 DEF ReadClock, TypeOK
    <3>3. Reached' = Reached
      BY <2>7, <3>1, <3>2 DEF ReadClock, Reached
    <3>4. QED
      BY <2>7, <3>1, <3>2, <3>3
         DEF ReadClock, Exclusive, SpinsAtZero, BelowLast, IncreasingIds, Pack
  <2>8. ASSUME NEW t \in Thread, Throw(t)
        PROVE  IdInv'
    BY <2>2, <2>8 DEF Throw
  <2>9. ASSUME NEW t \in Thread, NewMillisecond(t)
        PROVE  IdInv'
    <3>1. timestamp[t] \in Int /\ 0 \in 0..(IdsPerMs - 1) /\ lastTimestamp \in Int
      BY DEF TypeOK
    <3>2. Pack(lastTimestamp, Reached) < Pack(timestamp[t], 0)
      BY <2>1, <2>9, <3>1, PackLater DEF NewMillisecond
    <3>3. QED
      BY <2>3, <2>9, <3>1, <3>2 DEF NewMillisecond
  <2>10. ASSUME NEW t \in Thread, SameMillisecond(t)
         PROVE  IdInv'
    <3>1. /\ lastTimestamp \in Int
          /\ NextSequence \in 0..(IdsPerMs - 1)
          /\ sequence < NextSequence
      BY <2>10, NextSequenceValue DEF TypeOK, SameMillisecond
    <3>2. Reached = sequence
      <4>1. \A u \in Thread : at[u] # "spin"
        BY <2>10 DEF Exclusive, TypeOK, SameMillisecond
      <4>2. QED
        BY <4>1 DEF Reached
    <3>3. Pack(lastTimestamp, Reached) < Pack(timestamp[t], NextSequence)
      BY <2>10, <3>1, <3>2, PackSame DEF SameMillisecond, TypeOK
    <3>4. QED
      BY <2>3, <2>10, <3>1, <3>3 DEF SameMillisecond
  <2>11. ASSUME NEW t \in Thread, Exhausted(t)
         PROVE  IdInv'
    <3>1. at[t] = "test" /\ at'[t] = "spin"
      BY <2>11 DEF Exhausted, TypeOK
    <3>2. \A u \in Thread : u # t => at[u] = "idle" /\ at'[u] = "idle"
      BY <2>11 DEF Exhausted, Exclusive, TypeOK
    <3>3. Reached = sequence /\ Reached' = IdsPerMs - 1
      BY <3>1, <3>2 DEF Reached
    <3>4. Pack(lastTimestamp, Reached) <= Pack(lastTimestamp, IdsPerMs - 1)
      BY <2>1, PackSame DEF TypeOK
    <3>5. BelowLast'
      <4>1. /\ Pack(lastTimestamp, Reached) \in Int
            /\ Pack(lastTimestamp, IdsPerMs - 1) \in Int
        BY <2>1, PackInt
      <4>2. \A i \in 1..Len(issued) : issued[i] \in Int
        BY DEF TypeOK
      <4>3. \A i \in 1..Len(issued) : issued[i] <= Pack(lastTimestamp, IdsPerMs - 1)
        BY <3>4, <4>1, <4>2 DEF BelowLast
      <4>4. QED
        BY <2>11, <3>3, <4>3 DEF BelowLast, Exhausted, Pack
    <3>6. Exclusive'
      BY <2>11, <3>1, <3>2 DEF Exclusive, Exhausted
    <3>7. SpinsAtZero' /\ IncreasingIds'
      BY <2>11 DEF Exhausted, SpinsAtZero, IncreasingIds
    <3>8. QED
      BY <3>5, <3>6, <3>7
  <2>12. ASSUME NEW t \in Thread, LeaveSpin(t)
         PROVE  IdInv'
    <3>1. clock \in Int /\ sequence \in 0..(IdsPerMs - 1) /\ lastTimestamp \in Int
      BY DEF TypeOK
    <3>2. Pack(lastTimestamp, Reached) < Pack(clock, sequence)
      BY <2>1, <2>12, <3>1, PackLater DEF LeaveSpin
    <3>3. QED
      BY <2>3, <2>12, <3>1, <3>2 DEF LeaveSpin
  <2>13. CASE UNCHANGED vars
    BY <2>2, <2>13 DEF vars
  <2>14. QED
    BY <2>4, <2>5, <2>6, <2>7, <2>8, <2>9, <2>10, <2>11, <2>12, <2>13 DEF Next, Step
<1>3. IdInv => IncreasingIds
  BY DEF IdInv
<1>4. QED
  BY <1>1, <1>2, <1>3, TypeCorrect, PTL DEF Spec
=============================================================================
