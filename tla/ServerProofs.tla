----------------------------- MODULE ServerProofs -----------------------------
(***************************************************************************)
(* What the operations on vectors return; then the types of Server and its   *)
(* accounts, for any number of connections, accounts, channels and messages,  *)
(* whatever the clients ask for.                                             *)
(***************************************************************************)
EXTENDS Server, FiniteSetTheorems, TLAPS

-----------------------------------------------------------------------------
(* Vectors                                                                  *)

\* A vector made from a list of elements is a vector of such elements.
LEMMA VectorOfType ==
    ASSUME NEW S, NEW s \in Seq(S)
    PROVE  VectorOf(s) \in Vectors(S)
BY DEF VectorOf, Vectors

\* push_back keeps the range of the elements.
LEMMA PushType ==
    ASSUME NEW S, NEW v \in Vectors(S), NEW x \in S
    PROVE  Push(v, x) \in Vectors(S)
<1> USE DEF Vectors, Push
<1>1. CASE v.len < Len(v.cells)
  <2>1. v.len + 1 \in 1..Len(v.cells)
    BY <1>1
  <2>2. [v.cells EXCEPT ![v.len + 1] = x] \in Seq(S)
    BY <2>1
  <2>3. Len([v.cells EXCEPT ![v.len + 1] = x]) = Len(v.cells)
    BY <2>1
  <2> QED BY <1>1, <2>2, <2>3
<1>2. CASE ~(v.len < Len(v.cells))
  <2>1. v.len = Len(v.cells)
    BY <1>2
  <2>2. Append(v.cells, x) \in Seq(S) /\ Len(Append(v.cells, x)) = Len(v.cells) + 1
    OBVIOUS
  <2> QED BY <1>2, <2>1, <2>2
<1> QED BY <1>1, <1>2

\* After push_back the elements are the old ones and the new one.
LEMMA PushLive ==
    ASSUME NEW S, NEW v \in Vectors(S), NEW x \in S
    PROVE  Live(Push(v, x)) = Live(v) \cup {x}
<1> DEFINE w == Push(v, x)
<1>1. w.len = v.len + 1 /\ v.len \in Nat /\ v.len <= Len(v.cells) /\ v.cells \in Seq(S)
  BY DEF Push, Vectors
<1>2. w.cells[v.len + 1] = x
  <2>1. CASE v.len < Len(v.cells)
    BY <2>1, <1>1 DEF Push
  <2>2. CASE ~(v.len < Len(v.cells))
    <3>1. v.len = Len(v.cells)
      BY <2>2, <1>1
    <3> QED BY <2>2, <3>1, <1>1 DEF Push
  <2> QED BY <2>1, <2>2
<1>3. ASSUME NEW i \in 1..v.len
      PROVE  w.cells[i] = v.cells[i]
  <2>1. CASE v.len < Len(v.cells)
    BY <2>1, <1>1 DEF Push
  <2>2. CASE ~(v.len < Len(v.cells))
    BY <2>2, <1>1 DEF Push
  <2> QED BY <2>1, <2>2
<1>4. 1..w.len = (1..v.len) \cup {v.len + 1}
  BY <1>1
<1> HIDE DEF w
<1> QED BY <1>2, <1>3, <1>4 DEF Live, w

\* What push_back leaves alone.
LEMMA PushKeeps ==
    ASSUME NEW S, NEW v \in Vectors(S), NEW x \in S, NEW i \in 1..v.len
    PROVE  Push(v, x).cells[i] = v.cells[i]
<1>1. v.len \in Nat /\ v.len <= Len(v.cells) /\ v.cells \in Seq(S)
  BY DEF Vectors
<1>2. CASE v.len < Len(v.cells)
  BY <1>1, <1>2 DEF Push
<1>3. CASE ~(v.len < Len(v.cells))
  BY <1>1, <1>3 DEF Push
<1> QED BY <1>2, <1>3

\* The elements that stay are counted by a number that fits the vector.
LEMMA KeptCount ==
    ASSUME NEW S, NEW v \in Vectors(S), NEW x
    PROVE  Cardinality(Kept(v, x)) \in 0..v.len
<1>1. v.len \in Nat
  BY DEF Vectors
<1>2. IsFiniteSet(1..v.len) /\ Cardinality(1..v.len) = v.len
  BY <1>1, FS_Interval, SMTT(30)
<1>3. Kept(v, x) \subseteq 1..v.len
  BY DEF Kept
<1>4. IsFiniteSet(Kept(v, x)) /\ Cardinality(Kept(v, x)) <= Cardinality(1..v.len)
  BY <1>2, <1>3, FS_Subset
<1>5. Cardinality(Kept(v, x)) \in Nat
  BY <1>4, FS_CardinalityType
<1> QED BY <1>1, <1>2, <1>4, <1>5

\* erase(remove_if(...)) keeps the range of the elements and never makes the vector longer.
LEMMA EraseType ==
    ASSUME NEW S, NEW v \in Vectors(S), NEW x
    PROVE  Erase(v, x) \in Vectors(S) /\ Erase(v, x).len <= v.len
<1> DEFINE K == Kept(v, x)
           N == Len(v.cells)
           src(j) == CHOOSE i \in K : Rank(K, i) = j
           new == [j \in 1..N |-> IF \E i \in K : Rank(K, i) = j THEN v.cells[src(j)]
                                  ELSE v.cells[j]]
<1>1. v.cells \in Seq(S) /\ v.len \in Nat /\ v.len <= N /\ N \in Nat
  BY DEF Vectors
<1>2. Cardinality(K) \in 0..v.len
  BY KeptCount
<1>3. K \subseteq 1..N
  BY <1>1 DEF Kept
<1>4. ASSUME NEW j \in 1..N
      PROVE  new[j] \in S
  <2>1. CASE \E i \in K : Rank(K, i) = j
    <3>1. src(j) \in K
      BY <2>1
    <3> QED BY <1>1, <1>3, <2>1, <3>1
  <2>2. CASE ~ \E i \in K : Rank(K, i) = j
    BY <1>1, <2>2
  <2> QED BY <2>1, <2>2
<1>5. new \in Seq(S) /\ Len(new) = N
  <2>1. new \in [1..N -> S]
    BY <1>4
  <2> HIDE DEF new
  <2> QED BY <2>1, <1>1
<1>6. Erase(v, x) = [cells |-> new, len |-> Cardinality(K)]
  BY DEF Erase
<1> HIDE DEF new, K
<1> QED BY <1>1, <1>2, <1>5, <1>6 DEF Vectors

\* The elements are in the range of the vector.
LEMMA LiveType ==
    ASSUME NEW S, NEW v \in Vectors(S)
    PROVE  Live(v) \subseteq S
BY DEF Live, Vectors

-----------------------------------------------------------------------------
(* What remove_if leaves                                                    *)

\* The elements that stay get different places.
LEMMA RankInjective ==
    ASSUME NEW S, NEW v \in Vectors(S), NEW x, NEW i \in Kept(v, x), NEW k \in Kept(v, x), i # k
    PROVE  Rank(Kept(v, x), i) # Rank(Kept(v, x), k)
<1> DEFINE K == Kept(v, x)
           Upto(j) == {y \in K : y <= j}
<1>1. v.len \in Nat /\ IsFiniteSet(1..v.len) /\ K \subseteq 1..v.len
  BY FS_Interval DEF Vectors, Kept
<1>2. IsFiniteSet(K)
  BY <1>1, FS_Subset
<1>3. ASSUME NEW a \in K, NEW b \in K, a < b
      PROVE  Cardinality(Upto(a)) # Cardinality(Upto(b))
  <2>1. IsFiniteSet(Upto(b))
    BY <1>2, FS_Subset
  <2>2. Upto(a) \subseteq Upto(b)
    BY <1>1, <1>3
  <2>3. b \in Upto(b) /\ b \notin Upto(a)
    BY <1>1, <1>3
  <2> HIDE DEF Upto
  <2> QED BY <2>1, <2>2, <2>3, FS_Subset
<1>4. i < k \/ k < i
  BY <1>1
<1>5. Rank(K, i) = Cardinality(Upto(i)) /\ Rank(K, k) = Cardinality(Upto(k))
  BY DEF Rank
<1> HIDE DEF K, Upto
<1> QED BY <1>3, <1>4, <1>5 DEF K

\* They are places of the new vector.
LEMMA RankType ==
    ASSUME NEW S, NEW v \in Vectors(S), NEW x, NEW i \in Kept(v, x)
    PROVE  Rank(Kept(v, x), i) \in 1..Cardinality(Kept(v, x))
<1> DEFINE K == Kept(v, x)
           U == {y \in K : y <= i}
<1>1. v.len \in Nat /\ IsFiniteSet(1..v.len) /\ K \subseteq 1..v.len
  BY FS_Interval DEF Vectors, Kept
<1>2. IsFiniteSet(K) /\ Cardinality(K) \in Nat
  BY <1>1, FS_Subset, FS_CardinalityType
<1>3. IsFiniteSet(U) /\ Cardinality(U) <= Cardinality(K) /\ Cardinality(U) \in Nat
  BY <1>2, FS_Subset, FS_CardinalityType
<1>4. i \in U
  BY <1>1
<1>5. Cardinality(U) # 0
  BY <1>3, <1>4, FS_EmptySet
<1> QED BY <1>2, <1>3, <1>5 DEF Rank

\* Every place up to the new size is somebody's.
LEMMA RankOnto ==
    ASSUME NEW S, NEW v \in Vectors(S), NEW x, NEW j \in 1..Cardinality(Kept(v, x))
    PROVE  \E i \in Kept(v, x) : Rank(Kept(v, x), i) = j
<1> DEFINE K == Kept(v, x)
           n == Cardinality(K)
           f == [i \in K |-> Rank(K, i)]
<1>1. v.len \in Nat /\ IsFiniteSet(1..v.len) /\ K \subseteq 1..v.len
  BY FS_Interval DEF Vectors, Kept
<1>2. IsFiniteSet(K) /\ n \in Nat
  BY <1>1, FS_Subset, FS_CardinalityType
<1>3. ASSUME NEW i \in K PROVE Rank(K, i) \in 1..n
  BY <1>3, RankType
<1>4. f \in [K -> 1..n]
  BY <1>3
<1>5. ASSUME \A i \in K : Rank(K, i) # j PROVE FALSE
  <2> DEFINE T == (1..n) \ {j}
  <2>1. f \in [K -> T]
    BY <1>4, <1>5
  <2>2. IsFiniteSet(1..n) /\ Cardinality(1..n) = n
    BY <1>2, FS_Interval
  <2>3. IsFiniteSet(T) /\ Cardinality(T) = n - 1
    BY <2>2, FS_RemoveElement
  <2>4. Cardinality(T) < Cardinality(K)
    BY <1>2, <2>3
  <2> HIDE DEF T, f, K
  <2>5. \E i, k \in K : i # k /\ f[i] = f[k]
    BY <1>2, <2>1, <2>3, <2>4, FS_PigeonHole
  <2>6. \A i, k \in K : f[i] = f[k] => Rank(K, i) = Rank(K, k)
    BY DEF f
  <2> QED BY <2>5, <2>6, RankInjective DEF K
<1> QED BY <1>5

\* erase(remove_if(...)) takes x out, every time it is there, and nothing else.
LEMMA EraseLive ==
    ASSUME NEW S, NEW v \in Vectors(S), NEW x
    PROVE  Live(Erase(v, x)) = Live(v) \ {x}
<1> DEFINE K == Kept(v, x)
           n == Cardinality(K)
           w == Erase(v, x)
<1>1. n \in 0..v.len /\ v.len \in Nat /\ v.len <= Len(v.cells) /\ Len(v.cells) \in Nat
  BY KeptCount DEF Vectors
<1>2. w.len = n
  BY DEF Erase
<1>3. ASSUME NEW j \in 1..n
      PROVE  \E i \in K : Rank(K, i) = j /\ w.cells[j] = v.cells[i]
  <2>1. \E i \in K : Rank(K, i) = j
    BY <1>3, RankOnto
  <2>2. j \in 1..Len(v.cells)
    BY <1>1
  <2>3. w.cells[j] = v.cells[CHOOSE i \in K : Rank(K, i) = j]
    BY <2>1, <2>2 DEF Erase
  <2> QED BY <2>1, <2>3
<1>4. ASSUME NEW i \in K
      PROVE  \E j \in 1..n : w.cells[j] = v.cells[i]
  <2> DEFINE j == Rank(K, i)
  <2>1. j \in 1..n
    BY <1>4, RankType
  <2>2. PICK k \in K : Rank(K, k) = j /\ w.cells[j] = v.cells[k]
    BY <1>3, <2>1
  <2>3. k = i
    BY <2>2, RankInjective
  <2> QED BY <2>1, <2>2, <2>3
<1>5. \A i \in 1..v.len : i \in K <=> v.cells[i] # x
  BY DEF Kept
<1>6. K \subseteq 1..v.len
  BY DEF Kept
<1> HIDE DEF K, n, w
<1>7. Live(w) \subseteq Live(v) \ {x}
  BY <1>2, <1>3, <1>5, <1>6 DEF Live
<1>8. Live(v) \ {x} \subseteq Live(w)
  BY <1>2, <1>4, <1>5 DEF Live
<1> QED BY <1>7, <1>8 DEF w

-----------------------------------------------------------------------------
(* What an unlocked loop may read                                           *)

\* The elements of all cells, live or not.
Cells(v) == {v.cells[i] : i \in 1..Len(v.cells)}

LEMMA LiveCells ==
    ASSUME NEW S, NEW v \in Vectors(S)
    PROVE  Live(v) \subseteq Cells(v) /\ Cells(v) \subseteq S
BY DEF Live, Cells, Vectors

\* push_back brings no other element than x into the cells.
LEMMA PushCells ==
    ASSUME NEW S, NEW v \in Vectors(S), NEW x \in S
    PROVE  Cells(Push(v, x)) \subseteq Cells(v) \cup {x}
<1>1. v.len \in Nat /\ v.len <= Len(v.cells) /\ v.cells \in Seq(S)
  BY DEF Vectors
<1>2. CASE v.len < Len(v.cells)
  BY <1>1, <1>2 DEF Push, Cells
<1>3. CASE ~(v.len < Len(v.cells))
  BY <1>1, <1>3 DEF Push, Cells
<1> QED BY <1>2, <1>3

\* erase(remove_if(...)) brings none.
LEMMA EraseCells ==
    ASSUME NEW S, NEW v \in Vectors(S), NEW x
    PROVE  Cells(Erase(v, x)) \subseteq Cells(v)
<1> DEFINE K == Kept(v, x)
           w == Erase(v, x)
<1>1. Len(v.cells) \in Nat /\ K \subseteq 1..Len(v.cells)
  BY DEF Kept, Vectors
<1>2. w.cells = [j \in 1..Len(v.cells) |->
                    IF \E i \in K : Rank(K, i) = j
                    THEN v.cells[CHOOSE i \in K : Rank(K, i) = j]
                    ELSE v.cells[j]]
  BY DEF Erase
<1>3. Len(w.cells) = Len(v.cells)
  BY <1>1, <1>2
<1>4. ASSUME NEW j \in 1..Len(v.cells)
      PROVE  w.cells[j] \in Cells(v)
  <2>1. CASE \E i \in K : Rank(K, i) = j
    <3>1. (CHOOSE i \in K : Rank(K, i) = j) \in K
      BY <2>1
    <3>2. w.cells[j] = v.cells[CHOOSE i \in K : Rank(K, i) = j]
      BY <1>2, <2>1
    <3> HIDE DEF K, w
    <3> QED BY <1>1, <3>1, <3>2 DEF Cells
  <2>2. CASE ~ \E i \in K : Rank(K, i) = j
    BY <1>2, <2>2 DEF Cells
  <2> QED BY <2>1, <2>2
<1> HIDE DEF K, w
<1> QED BY <1>3, <1>4 DEF Cells, w

\* Neither makes the buffer smaller.
LEMMA BufferKept ==
    ASSUME NEW S, NEW v \in Vectors(S), NEW x
    PROVE  /\ Len(Push(v, x).cells) >= Len(v.cells)
           /\ Len(Erase(v, x).cells) >= Len(v.cells)
<1>1. v.cells \in Seq(S) /\ Len(v.cells) \in Nat /\ v.len \in Nat /\ v.len <= Len(v.cells)
  BY DEF Vectors
<1>2. Len(Push(v, x).cells) >= Len(v.cells)
  <2>1. CASE v.len < Len(v.cells)
    <3>1. Push(v, x).cells = [v.cells EXCEPT ![v.len + 1] = x]
      BY <2>1 DEF Push
    <3>2. Len([v.cells EXCEPT ![v.len + 1] = x]) = Len(v.cells)
      BY <1>1
    <3> QED BY <1>1, <3>1, <3>2
  <2>2. CASE ~(v.len < Len(v.cells))
    <3>1. Push(v, x).cells = Append(v.cells, x)
      BY <2>2 DEF Push
    <3>2. Len(Append(v.cells, x)) = Len(v.cells) + 1
      BY <1>1
    <3> QED BY <1>1, <3>1, <3>2
  <2> QED BY <2>1, <2>2
<1>3. Len(Erase(v, x).cells) >= Len(v.cells)
  <2> DEFINE new == [j \in 1..Len(v.cells) |->
                        IF \E i \in Kept(v, x) : Rank(Kept(v, x), i) = j
                        THEN v.cells[CHOOSE i \in Kept(v, x) : Rank(Kept(v, x), i) = j]
                        ELSE v.cells[j]]
  <2>1. Erase(v, x).cells = new
    BY DEF Erase
  <2>2. Len(new) = Len(v.cells)
    BY <1>1
  <2> HIDE DEF new
  <2> QED BY <1>1, <2>1, <2>2
<1> QED BY <1>2, <1>3

\* erase(remove_if(...)) of what is not there writes what was there.
LEMMA EraseSame ==
    ASSUME NEW S, NEW v \in Vectors(S), NEW x, x \notin Live(v)
    PROVE  Erase(v, x).cells = v.cells /\ Erase(v, x).len = v.len
<1> DEFINE K == Kept(v, x)
           N == Len(v.cells)
<1>1. v.cells \in Seq(S) /\ v.len \in Nat /\ v.len <= N /\ N \in Nat
  BY DEF Vectors
<1>2. K = 1..v.len
  BY DEF Kept, Live
<1>3. ASSUME NEW i \in K PROVE Rank(K, i) = i
  <2>1. i \in Nat /\ i <= v.len
    BY <1>1, <1>2
  <2>2. {k \in 1..v.len : k <= i} = 1..i
    BY <1>1, <2>1
  <2>3. Cardinality(1..i) = i
    BY <2>1, FS_Interval, SMTT(30)
  <2> QED BY <1>2, <2>2, <2>3 DEF Rank
<1>4. Cardinality(1..v.len) = v.len
  BY <1>1, FS_Interval, SMTT(30)
<1> HIDE DEF K
<1>5. ASSUME NEW j \in 1..N
      PROVE  (IF \E i \in K : Rank(K, i) = j THEN v.cells[CHOOSE i \in K : Rank(K, i) = j]
              ELSE v.cells[j]) = v.cells[j]
  <2>1. CASE \E i \in K : Rank(K, i) = j
    <3>1. (CHOOSE i \in K : Rank(K, i) = j) \in K /\ Rank(K, CHOOSE i \in K : Rank(K, i) = j) = j
      BY <2>1
    <3>2. (CHOOSE i \in K : Rank(K, i) = j) = j
      BY <1>3, <3>1
    <3> QED BY <2>1, <3>2
  <2> QED BY <2>1
<1>6. Erase(v, x).cells = [j \in 1..N |-> v.cells[j]]
  BY <1>5 DEF Erase, K
<1>7. v.cells = [j \in 1..N |-> v.cells[j]]
  BY <1>1
<1>8. Erase(v, x).len = v.len
  BY <1>2, <1>4 DEF Erase, K
<1> QED BY <1>6, <1>7, <1>8

-----------------------------------------------------------------------------
(* Frames                                                                   *)

LEMMA IdleType == Idle \in Frames
BY DEF Idle, Frames, Places, Level

LEMMA LoopType ==
    ASSUME NEW f \in Frames, NEW level \in Level, NEW S, NEW v \in Vectors(S)
    PROVE  /\ Loop(f, level, v) \in Frames
           /\ Loop(f, level, v).at = f.at
           /\ Loop(f, level, v).uid = f.uid
           /\ Loop(f, level, v).password = f.password
           /\ Loop(f, level, v).cid = f.cid
           /\ Loop(f, level, v).mid = f.mid
<1>1. v.len \in Nat
  BY DEF Vectors
<1> QED BY <1>1 DEF Loop, Frames

LEMMA AdvanceType ==
    ASSUME NEW f \in Frames, NEW level \in Level
    PROVE  /\ Advance(f, level) \in Frames
           /\ Advance(f, level).at = f.at
           /\ Advance(f, level).uid = f.uid
           /\ Advance(f, level).password = f.password
           /\ Advance(f, level).cid = f.cid
           /\ Advance(f, level).mid = f.mid
BY DEF Advance, Frames

LEMMA MoveType ==
    ASSUME NEW f \in Frames, NEW p \in Places
    PROVE  [f EXCEPT !.at = p] \in Frames
BY DEF Frames

-----------------------------------------------------------------------------
(* The invariant                                                            *)

HasUid == {"add password", "add user", "login user", "login channels", "login messages",
           "delete user", "delete channels", "delete messages", "delete text",
           "delete notify", "create announce"}
HasCid == {"login messages", "delete messages", "delete text", "delete notify",
           "create members", "create announce", "append", "send notify", "remove text",
           "remove notify", "unlist"}
HasMid == {"delete text", "delete notify", "append", "send notify", "remove text",
           "remove notify", "unlist"}

\* What a handler put in its frame is there as long as it works on it.
Whole(f) ==
    /\ f.at \in HasUid => f.uid \in Uid
    /\ f.at = "add password" => f.password \in Password
    /\ f.at \in HasCid => f.cid \in Cid
    /\ f.at \in HasMid => f.mid \in Mid

FramesOK ==
    /\ frame \in [Conn -> Frames]
    /\ \A t \in Conn : Whole(frame[t])

\* A client that was told it is logged in is, until the connection is gone.
Known(t, packet) ==
    (link[t] \in {"none", "open"} /\ packet.kind = "login" /\ packet.ids # {}) => auth[t] \in Uid

WiresOK ==
    /\ link \in [Conn -> Links]
    /\ auth \in [Conn -> Uid \cup {Nil}]
    /\ queue \in [Conn -> Seq(Packets)]
    /\ out \in [Conn -> Seq(Packets)]
    /\ \A t \in Conn : \A i \in 1..Len(out[t]) : Known(t, out[t][i])

RestOK ==
    /\ up \in BOOLEAN
    /\ disturbed \in SUBSET Conn
    /\ budget \in [Op -> Nat]

TypeInv == TablesTypeOK /\ FramesOK /\ WiresOK /\ RestOK

\* A stored message was constructed: it names its channel.
Placed == \A m \in messages : channelOf[m] # Nil

LEMMA TypeInit == Init => TypeInv
<1> SUFFICES ASSUME Init PROVE TypeInv
  OBVIOUS
<1>1. TablesTypeOK
  <2>1. VectorOf(<<>>) \in Vectors(Uid) /\ VectorOf(<<>>) \in Vectors(Cid)
        /\ VectorOf(<<>>) \in Vectors(Mid)
    <3> \A S : <<>> \in Seq(S)
      OBVIOUS
    <3> QED BY VectorOfType
  <2> QED BY <2>1 DEF Init, TablesInit, TablesTypeOK
<1>2. FramesOK
  BY IdleType DEF Init, FramesOK, Whole, Idle, HasUid, HasCid, HasMid
<1>3. WiresOK
  BY DEF Init, WiresOK, Links
<1>4. RestOK
  BY BudgetAssumption DEF Init, RestOK
<1> QED BY <1>1, <1>2, <1>3, <1>4 DEF TypeInv

-----------------------------------------------------------------------------
(* What a step does to each part                                            *)

LEMMA FrameUpdate ==
    ASSUME FramesOK, NEW t \in Conn, NEW f \in Frames, Whole(f),
           frame' = [frame EXCEPT ![t] = f]
    PROVE  FramesOK'
BY DEF FramesOK, Whole

LEMMA FrameKept == FramesOK /\ UNCHANGED frame => FramesOK'
BY DEF FramesOK, Whole

LEMMA FrameReturn ==
    ASSUME FramesOK, NEW t \in Conn, NEW posted, Return(t, posted)
    PROVE  FramesOK'
<1> DEFINE f == [Idle EXCEPT !.at = IF posted = <<>> THEN "idle" ELSE "sweep"]
<1>1. f \in Frames
  BY IdleType, ZenonT(30) DEF Frames, Places
<1>2. Whole(f)
  BY IdleType DEF Frames, Whole, HasUid, HasCid, HasMid
<1>3. frame' = [frame EXCEPT ![t] = f]
  BY DEF Return
<1> QED BY <1>1, <1>2, <1>3, FrameUpdate

LEMMA AdvanceWhole ==
    ASSUME FramesOK, NEW t \in Conn, NEW level \in Level,
           frame' = [frame EXCEPT ![t] = Advance(@, level)]
    PROVE  FramesOK'
<1>1. frame[t] \in Frames /\ Whole(frame[t])
  BY DEF FramesOK
<1>2. Advance(frame[t], level) \in Frames /\ Whole(Advance(frame[t], level))
  BY <1>1, AdvanceType DEF Whole
<1>3. frame' = [frame EXCEPT ![t] = Advance(frame[t], level)]
  OBVIOUS
<1> QED BY <1>2, <1>3, FrameUpdate

LEMMA FrameGoto ==
    ASSUME FramesOK, NEW t \in Conn, NEW p \in Places, Goto(t, p),
           Whole([frame[t] EXCEPT !.at = p])
    PROVE  FramesOK'
<1>1. [frame[t] EXCEPT !.at = p] \in Frames
  BY MoveType DEF FramesOK
<1>2. frame' = [frame EXCEPT ![t] = [frame[t] EXCEPT !.at = p]]
  BY DEF Goto
<1> QED BY <1>1, <1>2, FrameUpdate

LEMMA WiresKept == WiresOK /\ UNCHANGED <<link, auth, queue, out>> => WiresOK'
BY DEF WiresOK, Known

\* Known looks at nothing else.
LEMMA KnownKept ==
    ASSUME WiresOK, UNCHANGED out,
           \A s \in Conn : link'[s] \in {"none", "open"} =>
                              link[s] \in {"none", "open"} /\ auth'[s] = auth[s]
    PROVE  \A s \in Conn : \A i \in 1..Len(out'[s]) : Known(s, out[s][i])'
BY DEF WiresOK, Known

LEMMA WirePost ==
    ASSUME WiresOK, NEW t \in Conn, NEW packet \in Packets
    PROVE  [queue EXCEPT ![t] = Append(@, packet)] \in [Conn -> Seq(Packets)]
<1>1. Append(queue[t], packet) \in Seq(Packets)
  BY DEF WiresOK
<1> QED BY <1>1 DEF WiresOK

\* A packet that tells of no login changes nobody's session.
LEMMA WireWrite ==
    ASSUME WiresOK, NEW t \in Conn, NEW packet \in Packets,
           packet.kind = "login" => packet.ids = {},
           Write(t, packet), UNCHANGED <<link, auth, queue>>
    PROVE  WiresOK'
<1>1. out' \in [Conn -> Seq(Packets)]
  BY DEF Write, WiresOK
<1>2. ASSUME NEW s \in Conn, NEW i \in 1..Len(out'[s])
      PROVE  Known(s, out[s][i])'
  <2>1. CASE s = t /\ i = Len(out[t]) + 1
    BY <2>1 DEF Write, WiresOK, Known
  <2>2. CASE ~(s = t /\ i = Len(out[t]) + 1)
    <3>1. i \in 1..Len(out[s]) /\ out'[s][i] = out[s][i]
      BY <2>2 DEF Write, WiresOK
    <3> QED BY <3>1 DEF WiresOK, Known
  <2> QED BY <2>1, <2>2
<1> QED BY <1>1, <1>2 DEF WiresOK, Known

LEMMA WireEmit ==
    ASSUME WiresOK, NEW t \in Conn, NEW u, NEW packet \in Packets, packet.kind # "login",
           Emit(t, u, packet), UNCHANGED <<link, auth>>
    PROVE  WiresOK'
<1>1. out' \in [Conn -> Seq(Packets)] /\ queue' \in [Conn -> Seq(Packets)]
  BY DEF Emit, WiresOK
<1>2. ASSUME NEW s \in Conn, NEW i \in 1..Len(out'[s])
      PROVE  Known(s, out[s][i])'
  <2>1. CASE s = t /\ auth[t] = u /\ i = Len(out[t]) + 1
    BY <2>1 DEF Emit, WiresOK, Known
  <2>2. CASE ~(s = t /\ auth[t] = u /\ i = Len(out[t]) + 1)
    <3>1. i \in 1..Len(out[s]) /\ out'[s][i] = out[s][i]
      BY <2>2 DEF Emit, WiresOK
    <3> QED BY <3>1 DEF WiresOK, Known
  <2> QED BY <2>1, <2>2
<1> QED BY <1>1, <1>2 DEF WiresOK, Known

LEMMA TablesKept == TablesTypeOK /\ UNCHANGED tables => TablesTypeOK'
BY DEF TablesTypeOK, tables, accounts, rooms, texts

LEMMA RestKept == RestOK /\ UNCHANGED <<up, disturbed, budget>> => RestOK'
BY DEF RestOK

LEMMA RestSpend ==
    ASSUME RestOK, NEW op \in Op, Spend(op), up' \in BOOLEAN, UNCHANGED disturbed
    PROVE  RestOK'
BY DEF RestOK, Spend

LEMMA RestCrash == RestOK /\ up' \in BOOLEAN /\ UNCHANGED <<disturbed, budget>> => RestOK'
BY DEF RestOK

LEMMA PacketType ==
    ASSUME NEW k \in Kinds, NEW ids \in SUBSET (Uid \cup Cid \cup Mid)
    PROVE  Packet(k, ids) \in Packets /\ Packet(k, ids).kind = k /\ Packet(k, ids).ids = ids
BY DEF Packet, Packets

LEMMA ErrorType ==
    ASSUME NEW k \in Kinds
    PROVE  Packet(k, {}) \in Packets /\ Packet(k, {}).kind = k /\ Packet(k, {}).ids = {}
BY DEF Packet, Packets

LEMMA OneType ==
    ASSUME NEW k \in Kinds, NEW x \in Uid \cup Cid \cup Mid
    PROVE  Packet(k, {x}) \in Packets /\ Packet(k, {x}).kind = k /\ Packet(k, {x}).ids = {x}
BY DEF Packet, Packets

\* One turn of a loop that tells the members of a channel.
LEMMA NotifyType ==
    ASSUME FramesOK, WiresOK, NEW t \in Conn, NEW packet \in Packets, packet.kind # "login",
           NotifyMember(t, packet), UNCHANGED <<link, auth>>
    PROVE  FramesOK' /\ WiresOK'
<1>1. FramesOK'
  <2>1. frame[t] \in Frames /\ Whole(frame[t])
    BY DEF FramesOK
  <2>2. "members" \in Level
    BY DEF Level
  <2>3. Advance(frame[t], "members") \in Frames /\ Whole(Advance(frame[t], "members"))
    BY <2>1, <2>2, AdvanceType DEF Whole
  <2>4. frame' = [frame EXCEPT ![t] = Advance(frame[t], "members")]
    BY DEF NotifyMember
  <2> QED BY <2>3, <2>4, FrameUpdate
<1>2. WiresOK'
  <2> DEFINE u == membersOf[frame[t].cid].cells[frame[t].pos["members"]]
  <2>1. CASE u \in users
    BY <2>1, WireEmit DEF NotifyMember
  <2>2. CASE u \notin users
    BY <2>2, WiresKept DEF NotifyMember
  <2> QED BY <2>1, <2>2
<1> QED BY <1>1, <1>2

-----------------------------------------------------------------------------
(* The steps                                                                *)

LEMMA AcceptType ==
    ASSUME TypeInv, NEW t \in Conn, Accept(t)
    PROVE  TypeInv'
<1>1. FramesOK'
  BY FrameKept DEF TypeInv, Accept
<1>2. WiresOK'
  <2>1. link' \in [Conn -> Links]
    BY DEF TypeInv, WiresOK, Accept, Links
  <2>2. \A s \in Conn : \A i \in 1..Len(out'[s]) : Known(s, out[s][i])'
    BY KnownKept DEF TypeInv, WiresOK, Accept
  <2> QED BY <2>1, <2>2 DEF TypeInv, WiresOK, Accept
<1>3. TablesTypeOK'
  BY TablesKept DEF TypeInv, Accept
<1>4. RestOK'
  BY RestSpend DEF TypeInv, Accept, Request, Op, RestOK
<1> QED BY <1>1, <1>2, <1>3, <1>4 DEF TypeInv

LEMMA DisconnectType ==
    ASSUME TypeInv, NEW t \in Conn, Disconnect(t)
    PROVE  TypeInv'
<1>1. FramesOK'
  <2>1. Whole([frame[t] EXCEPT !.at = "free handler"]) /\ "free handler" \in Places
    BY DEF TypeInv, FramesOK, Disconnect, Request, At, Frames, Whole, HasUid, HasCid, HasMid, Places
  <2> QED BY <2>1, FrameGoto DEF TypeInv, Disconnect, Request
<1>2. WiresOK'
  <2>1. queue' \in [Conn -> Seq(Packets)]
    BY PacketType, WirePost DEF Kinds, TypeInv, Disconnect
  <2>2. link' \in [Conn -> Links]
    BY DEF TypeInv, WiresOK, Disconnect, Links
  <2>3. \A s \in Conn : \A i \in 1..Len(out'[s]) : Known(s, out[s][i])'
    BY KnownKept DEF TypeInv, WiresOK, Disconnect
  <2> QED BY <2>1, <2>2, <2>3 DEF TypeInv, WiresOK, Disconnect
<1>3. TablesTypeOK'
  BY TablesKept DEF TypeInv, Disconnect
<1>4. RestOK'
  BY RestSpend DEF TypeInv, Disconnect, Request, Op, RestOK
<1> QED BY <1>1, <1>2, <1>3, <1>4 DEF TypeInv

LEMMA DisconnectFinishedType ==
    ASSUME TypeInv, NEW t \in Conn, DisconnectFinished(t)
    PROVE  TypeInv'
<1>1. FramesOK'
  BY FrameReturn DEF TypeInv, DisconnectFinished, Done
<1>2. WiresOK'
  <2>1. Packet("free handler", {}) \in Packets
    BY PacketType DEF Kinds
  <2>2. queue' \in [Conn -> Seq(Packets)]
    BY <2>1, WirePost DEF TypeInv, DisconnectFinished
  <2>3. \A s \in Conn : \A i \in 1..Len(out'[s]) : Known(s, out[s][i])'
    BY KnownKept DEF TypeInv, DisconnectFinished
  <2> QED BY <2>2, <2>3 DEF TypeInv, WiresOK, DisconnectFinished
<1>3. TablesTypeOK'
  BY TablesKept DEF TypeInv, DisconnectFinished
<1>4. RestOK'
  BY RestKept DEF TypeInv, DisconnectFinished, At
<1> QED BY <1>1, <1>2, <1>3, <1>4 DEF TypeInv

LEMMA WireClose ==
    ASSUME WiresOK, NEW t \in Conn, Close(t), UNCHANGED out
    PROVE  WiresOK'
<1>1. link' \in [Conn -> Links] /\ auth' \in [Conn -> Uid \cup {Nil}]
  BY DEF WiresOK, Close, Links
<1>2. queue' \in [Conn -> Seq(Packets)]
  <2>1. <<>> \in Seq(Packets)
    OBVIOUS
  <2> QED BY <2>1 DEF WiresOK, Close
<1>3. \A s \in Conn : \A i \in 1..Len(out'[s]) : Known(s, out[s][i])'
  BY KnownKept DEF WiresOK, Close
<1> QED BY <1>1, <1>2, <1>3 DEF WiresOK

LEMMA QuitThreadType ==
    ASSUME TypeInv, NEW t \in Conn, QuitThread(t)
    PROVE  TypeInv'
<1>1. FramesOK'
  BY FrameReturn DEF TypeInv, QuitThread, Done
<1>2. WiresOK'
  BY WireClose DEF TypeInv, QuitThread
<1>3. TablesTypeOK'
  BY TablesKept DEF TypeInv, QuitThread
<1>4. RestOK'
  BY RestKept DEF TypeInv, QuitThread
<1> QED BY <1>1, <1>2, <1>3, <1>4 DEF TypeInv

LEMMA DispatchType ==
    ASSUME TypeInv, NEW t \in Conn, Dispatch(t)
    PROVE  TypeInv'
<1>1. FramesOK'
  BY FrameReturn DEF TypeInv, Dispatch, Done
<1>2. WiresOK'
  <2> DEFINE e == Head(queue[t])
             rest == [queue EXCEPT ![t] = Tail(@)]
  <2>1. e \in Packets /\ rest \in [Conn -> Seq(Packets)]
    <3>1. queue[t] \in Seq(Packets) /\ queue[t] # <<>>
      BY DEF TypeInv, WiresOK, Dispatch
    <3>2. e \in Packets /\ Tail(queue[t]) \in Seq(Packets)
      BY <3>1
    <3> QED BY <3>2 DEF TypeInv, WiresOK
  <2>2. ASSUME e.kind # "login", Write(t, e), queue' = rest, UNCHANGED <<link, auth>>
        PROVE  WiresOK'
    <3>1. ASSUME NEW s \in Conn, NEW i \in 1..Len(out'[s])
          PROVE  Known(s, out[s][i])'
      <4>1. CASE s = t /\ i = Len(out[t]) + 1
        BY <2>1, <2>2, <4>1 DEF Write, TypeInv, WiresOK, Known
      <4>2. CASE ~(s = t /\ i = Len(out[t]) + 1)
        <5>1. i \in 1..Len(out[s]) /\ out'[s][i] = out[s][i]
          BY <2>1, <2>2, <4>2 DEF Write, TypeInv, WiresOK
        <5> QED BY <2>2, <5>1 DEF TypeInv, WiresOK, Known
      <4> QED BY <4>1, <4>2
    <3>2. Append(out[t], e) \in Seq(Packets)
      BY <2>1 DEF TypeInv, WiresOK
    <3>3. out' \in [Conn -> Seq(Packets)]
      BY <2>2, <3>2 DEF Write, TypeInv, WiresOK
    <3> QED BY <2>1, <2>2, <3>1, <3>3 DEF TypeInv, WiresOK
  <2>3. ASSUME queue' = rest, UNCHANGED <<link, auth, out>>
        PROVE  WiresOK'
    <3>1. \A s \in Conn : \A i \in 1..Len(out'[s]) : Known(s, out[s][i])'
      BY <2>3, KnownKept DEF TypeInv
    <3> QED BY <2>1, <2>3, <3>1 DEF TypeInv, WiresOK
  <2>4. ASSUME link' = [link EXCEPT ![t] = "freed"], queue' = rest, UNCHANGED <<auth, out>>
        PROVE  WiresOK'
    <3>1. link' \in [Conn -> Links]
      BY <2>4 DEF TypeInv, WiresOK, Links
    <3>2. \A s \in Conn : \A i \in 1..Len(out'[s]) : Known(s, out[s][i])'
      BY <2>4, KnownKept DEF TypeInv, WiresOK
    <3> QED BY <2>1, <2>4, <3>1, <3>2 DEF TypeInv, WiresOK
  <2>5. ASSUME Close(t), UNCHANGED out
        PROVE  WiresOK'
    BY <2>5, WireClose DEF TypeInv
  <2> HIDE DEF e, rest
  <2> QED BY <2>2, <2>3, <2>4, <2>5 DEF Dispatch, e, rest
<1>3. TablesTypeOK'
  BY TablesKept DEF TypeInv, Dispatch
<1>4. RestOK'
  BY RestCrash DEF TypeInv, RestOK, Dispatch, Close
<1> QED BY <1>1, <1>2, <1>3, <1>4 DEF TypeInv

LEMMA RegisterType ==
    ASSUME TypeInv, NEW t \in Conn, NEW n \in Name, NEW p \in Password, Register(t, n, p)
    PROVE  TypeInv'
<1>1. FramesOK'
  <2>1. ASSUME UNCHANGED frame PROVE FramesOK'
    BY <2>1, FrameKept DEF TypeInv
  <2>2. ASSUME FreeUids # {},
               frame' = [frame EXCEPT ![t].at = "add password", ![t].uid = Fresh(FreeUids),
                                      ![t].password = p]
        PROVE  FramesOK'
    <3> DEFINE f == [frame[t] EXCEPT !.at = "add password", !.uid = Fresh(FreeUids),
                                     !.password = p]
    <3>1. Fresh(FreeUids) \in Uid
      BY <2>2 DEF Fresh, FreeUids
    <3>2. f \in Frames
      <4>1. frame[t] \in Frames
        BY DEF TypeInv, FramesOK
      <4> QED BY <3>1, <4>1 DEF Frames, Places
    <3>3. Whole(f)
      BY <3>1 DEF TypeInv, FramesOK, Frames, Whole, HasUid, HasCid, HasMid
    <3>4. frame' = [frame EXCEPT ![t] = f]
      BY <2>2 DEF TypeInv, FramesOK
    <3> QED BY <3>2, <3>3, <3>4, FrameUpdate DEF TypeInv
  <2> QED BY <2>1, <2>2 DEF Register
<1>2. WiresOK'
  <2>1. CASE Write(t, Packet("register", {}))
    <3>1. "register" \in Kinds
      BY DEF Kinds
    <3> QED BY <2>1, <3>1, ErrorType, WireWrite DEF TypeInv, Register
  <2>2. CASE UNCHANGED out
    BY <2>2, WiresKept DEF TypeInv, Register
  <2> QED BY <2>1, <2>2 DEF Register
<1>3. TablesTypeOK'
  <2>1. CASE UNCHANGED nameOf
    BY <2>1, TablesKept DEF TypeInv, Register, tables, accounts
  <2>2. CASE FreeUids # {} /\ MakeUser(Fresh(FreeUids), n)
    BY <2>2 DEF TypeInv, TablesTypeOK, Register, MakeUser, rooms, texts
  <2> QED BY <2>1, <2>2 DEF Register
<1>4. RestOK'
  BY RestSpend DEF TypeInv, Register, Request, Op, RestOK
<1> QED BY <1>1, <1>2, <1>3, <1>4 DEF TypeInv

LEMMA RegisterPasswordType ==
    ASSUME TypeInv, NEW t \in Conn, RegisterPassword(t)
    PROVE  TypeInv'
<1>1. FramesOK'
  <2>1. frame[t] \in Frames /\ frame[t].uid \in Uid
    BY DEF TypeInv, FramesOK, RegisterPassword, At, Whole, HasUid
  <2>2. Whole([frame[t] EXCEPT !.at = "add user"])
    BY <2>1 DEF Frames, Whole, HasUid, HasCid, HasMid
  <2>3. "add user" \in Places
    BY DEF Places
  <2> QED BY <2>2, <2>3, FrameGoto DEF TypeInv, RegisterPassword
<1>2. WiresOK'
  BY WiresKept DEF TypeInv, RegisterPassword
<1>3. TablesTypeOK'
  BY DEF TypeInv, TablesTypeOK, RegisterPassword, AddPassword, rooms, texts, FramesOK, Whole,
         Frames, At
<1>4. RestOK'
  BY RestKept DEF TypeInv, RegisterPassword
<1> QED BY <1>1, <1>2, <1>3, <1>4 DEF TypeInv

LEMMA RegisterUserType ==
    ASSUME TypeInv, NEW t \in Conn, RegisterUser(t)
    PROVE  TypeInv'
<1>1. FramesOK'
  BY FrameReturn DEF TypeInv, RegisterUser, Done
<1>2. WiresOK'
  <2>1. frame[t].uid \in Uid
    BY DEF TypeInv, FramesOK, Whole, HasUid, RegisterUser, At
  <2>2. "register" \in Kinds
    BY DEF Kinds
  <2> QED BY <2>1, <2>2, OneType, WireWrite DEF TypeInv, RegisterUser
<1>3. TablesTypeOK'
  BY DEF TypeInv, TablesTypeOK, RegisterUser, AddUser, rooms, texts, FramesOK, Whole, HasUid, At
<1>4. RestOK'
  BY RestKept DEF TypeInv, RegisterUser
<1> QED BY <1>1, <1>2, <1>3, <1>4 DEF TypeInv

LEMMA LoginType ==
    ASSUME TypeInv, NEW t \in Conn, NEW n \in Name, NEW p \in Password, Login(t, n, p)
    PROVE  TypeInv'
<1>1. FramesOK'
  <2>1. ASSUME UNCHANGED frame PROVE FramesOK'
    BY <2>1, FrameKept DEF TypeInv
  <2>2. ASSUME NEW u \in Uid, frame' = [frame EXCEPT ![t].at = "login user", ![t].uid = u]
        PROVE  FramesOK'
    <3> DEFINE f == [frame[t] EXCEPT !.at = "login user", !.uid = u]
    <3>1. f \in Frames
      <4>1. frame[t] \in Frames
        BY DEF TypeInv, FramesOK
      <4> QED BY <4>1 DEF Frames, Places
    <3>2. Whole(f)
      BY DEF TypeInv, FramesOK, Frames, Whole, HasUid, HasCid, HasMid
    <3>3. frame' = [frame EXCEPT ![t] = f]
      BY <2>2 DEF TypeInv, FramesOK
    <3> QED BY <3>1, <3>2, <3>3, FrameUpdate DEF TypeInv
  <2>3. WithName(n) \subseteq Uid
    BY DEF WithName, TypeInv, TablesTypeOK
  <2> QED BY <2>1, <2>2, <2>3 DEF Login
<1>2. WiresOK'
  <2>1. CASE Write(t, Packet("login", {}))
    <3>1. "login" \in Kinds
      BY DEF Kinds
    <3> QED BY <2>1, <3>1, ErrorType, WireWrite DEF TypeInv, Login
  <2>2. CASE UNCHANGED out
    BY <2>2, WiresKept DEF TypeInv, Login
  <2> QED BY <2>1, <2>2 DEF Login
<1>3. TablesTypeOK'
  BY TablesKept DEF TypeInv, Login
<1>4. RestOK'
  BY RestSpend DEF TypeInv, Login, Request, Op, RestOK
<1> QED BY <1>1, <1>2, <1>3, <1>4 DEF TypeInv

LEMMA LoginUserType ==
    ASSUME TypeInv, NEW t \in Conn, LoginUser(t)
    PROVE  TypeInv'
<1>1. FramesOK'
  <2> DEFINE u == frame[t].uid
             g == [frame[t] EXCEPT !.at = "login channels"]
             f == Loop(g, "channels", chansOf[u])
  <2>1. CASE UNCHANGED frame
    BY <2>1, FrameKept DEF TypeInv
  <2>2. CASE frame' = [frame EXCEPT ![t] = f]
    <3>1. u \in Uid /\ chansOf[u] \in Vectors(Cid) /\ "channels" \in Level
      BY DEF TypeInv, FramesOK, Whole, HasUid, LoginUser, At, TablesTypeOK, Level
    <3>2. g \in Frames /\ g.at = "login channels" /\ g.uid = u
      <4>1. frame[t] \in Frames
        BY DEF TypeInv, FramesOK
      <4> QED BY <4>1 DEF Frames, Places
    <3> HIDE DEF g
    <3>3. f \in Frames /\ f.at = "login channels" /\ f.uid = u
      BY <3>1, <3>2, LoopType, ZenonT(60)
    <3> HIDE DEF f
    <3>4. Whole(f)
      BY <3>1, <3>3 DEF Whole, HasUid, HasCid, HasMid
    <3> QED BY <2>2, <3>3, <3>4, FrameUpdate DEF TypeInv
  <2> QED BY <2>1, <2>2 DEF LoginUser
<1>2. WiresOK'
  <2> DEFINE u == frame[t].uid
  <2>1. CASE UNCHANGED <<auth, out>>
    BY <2>1, WiresKept DEF TypeInv, LoginUser
  <2>2. CASE auth' = [auth EXCEPT ![t] = u] /\ Write(t, Packet("login", {u}))
    <3>1. u \in Uid
      BY DEF TypeInv, FramesOK, Whole, HasUid, LoginUser, At
    <3>2. Packet("login", {u}) \in Packets
      BY <3>1, OneType DEF Kinds
    <3>3. Append(out[t], Packet("login", {u})) \in Seq(Packets)
      BY <3>2 DEF TypeInv, WiresOK
    <3>4. out' \in [Conn -> Seq(Packets)] /\ auth' \in [Conn -> Uid \cup {Nil}]
      BY <2>2, <3>1, <3>3 DEF Write, TypeInv, WiresOK
    <3>5. ASSUME NEW s \in Conn, NEW i \in 1..Len(out'[s])
          PROVE  Known(s, out[s][i])'
      <4>1. CASE s = t
        BY <2>2, <3>1, <4>1 DEF TypeInv, WiresOK, Known
      <4>2. CASE s # t
        BY <2>2, <4>2 DEF Write, TypeInv, WiresOK, Known, LoginUser
      <4> QED BY <4>1, <4>2
    <3> QED BY <3>4, <3>5 DEF TypeInv, WiresOK, LoginUser
  <2> QED BY <2>1, <2>2 DEF LoginUser
<1>3. TablesTypeOK'
  BY TablesKept DEF TypeInv, LoginUser
<1>4. RestOK'
  BY RestCrash DEF TypeInv, RestOK, LoginUser
<1> QED BY <1>1, <1>2, <1>3, <1>4 DEF TypeInv

LEMMA LoginChannelType ==
    ASSUME TypeInv, NEW t \in Conn, LoginChannel(t)
    PROVE  TypeInv'
<1>1. FramesOK'
  <2>1. CASE frame' = [frame EXCEPT ![t] = Advance(@, "channels")]
    BY <2>1, AdvanceWhole DEF TypeInv, Level
  <2>2. ASSUME NEW c \in channels,
               frame' = [frame EXCEPT ![t] =
                   Loop(Advance([@ EXCEPT !.at = "login messages", !.cid = c], "channels"),
                        "messages", logOf[c])]
        PROVE  FramesOK'
    <3> DEFINE g == [frame[t] EXCEPT !.at = "login messages", !.cid = c]
               h == Advance(g, "channels")
               f == Loop(h, "messages", logOf[c])
    <3>1. c \in Cid /\ logOf[c] \in Vectors(Mid)
      BY DEF TypeInv, TablesTypeOK
    <3>2. frame[t] \in Frames /\ frame[t].uid \in Uid
      BY DEF TypeInv, FramesOK, Whole, HasUid, LoginChannel, At
    <3>3. g \in Frames /\ g.at = "login messages" /\ g.uid \in Uid /\ g.cid \in Cid
      BY <3>1, <3>2 DEF Frames, Places
    <3>4. frame' = [frame EXCEPT ![t] = f]
      BY <2>2
    <3> HIDE DEF g
    <3>5. h \in Frames /\ h.at = "login messages" /\ h.uid \in Uid /\ h.cid \in Cid
      BY <3>3, AdvanceType DEF Level
    <3> HIDE DEF h
    <3>6. f \in Frames /\ f.at = "login messages" /\ f.uid \in Uid /\ f.cid \in Cid
      BY <3>1, <3>5, LoopType DEF Level
    <3> HIDE DEF f
    <3>7. Whole(f)
      BY <3>6 DEF Whole, HasUid, HasCid, HasMid
    <3> QED BY <3>4, <3>6, <3>7, FrameUpdate DEF TypeInv
  <2> QED BY <2>1, <2>2 DEF LoginChannel
<1>2. WiresOK'
  <2>1. CASE UNCHANGED out
    BY <2>1, WiresKept DEF TypeInv, LoginChannel
  <2>2. ASSUME NEW c \in channels, Write(t, Packet("channel", {c}))
        PROVE  WiresOK'
    <3>1. c \in Cid /\ "channel" \in Kinds
      BY DEF TypeInv, TablesTypeOK, Kinds
    <3> QED BY <2>2, <3>1, OneType, WireWrite DEF TypeInv, LoginChannel
  <2> QED BY <2>1, <2>2 DEF LoginChannel
<1>3. TablesTypeOK'
  BY TablesKept DEF TypeInv, LoginChannel
<1>4. RestOK'
  BY RestKept DEF TypeInv, LoginChannel
<1> QED BY <1>1, <1>2, <1>3, <1>4 DEF TypeInv

LEMMA LoginMessageType ==
    ASSUME TypeInv, NEW t \in Conn, LoginMessage(t)
    PROVE  TypeInv'
<1>1. FramesOK'
  BY AdvanceWhole DEF TypeInv, LoginMessage, Level
<1>2. WiresOK'
  <2>1. CASE UNCHANGED out
    BY <2>1, WiresKept DEF TypeInv, LoginMessage
  <2>2. ASSUME NEW m \in messages, Write(t, Packet("message", {m}))
        PROVE  WiresOK'
    <3>1. m \in Mid /\ "message" \in Kinds
      BY DEF TypeInv, TablesTypeOK, Kinds
    <3> QED BY <2>2, <3>1, OneType, WireWrite DEF TypeInv, LoginMessage
  <2> QED BY <2>1, <2>2 DEF LoginMessage
<1>3. TablesTypeOK'
  BY TablesKept DEF TypeInv, LoginMessage
<1>4. RestOK'
  BY RestKept DEF TypeInv, LoginMessage
<1> QED BY <1>1, <1>2, <1>3, <1>4 DEF TypeInv

LEMMA LoginChannelReplayedType ==
    ASSUME TypeInv, NEW t \in Conn, LoginChannelReplayed(t)
    PROVE  TypeInv'
<1>1. FramesOK'
  <2>1. Whole([frame[t] EXCEPT !.at = "login channels"]) /\ "login channels" \in Places
    BY DEF TypeInv, FramesOK, LoginChannelReplayed, At, Frames, Whole, HasUid, HasCid, HasMid, Places
  <2> QED BY <2>1, FrameGoto DEF TypeInv, LoginChannelReplayed
<1>2. WiresOK'
  BY WiresKept DEF TypeInv, LoginChannelReplayed
<1>3. TablesTypeOK'
  BY TablesKept DEF TypeInv, LoginChannelReplayed
<1>4. RestOK'
  BY RestKept DEF TypeInv, LoginChannelReplayed
<1> QED BY <1>1, <1>2, <1>3, <1>4 DEF TypeInv

LEMMA LoginFinishedType ==
    ASSUME TypeInv, NEW t \in Conn, LoginFinished(t)
    PROVE  TypeInv'
<1>1. FramesOK'
  BY FrameReturn DEF TypeInv, LoginFinished, Done
<1>2. WiresOK'
  BY WiresKept DEF TypeInv, LoginFinished
<1>3. TablesTypeOK'
  BY TablesKept DEF TypeInv, LoginFinished
<1>4. RestOK'
  BY RestKept DEF TypeInv, LoginFinished
<1> QED BY <1>1, <1>2, <1>3, <1>4 DEF TypeInv

LEMMA ListAccountsType ==
    ASSUME TypeInv, NEW t \in Conn, NEW regex, ListAccounts(t, regex)
    PROVE  TypeInv'
<1>1. FramesOK'
  <2>1. CASE UNCHANGED frame
    BY <2>1, FrameKept DEF TypeInv
  <2>2. CASE frame' = [frame EXCEPT ![t].at = "list",
                                    ![t].todo = {u \in users : nameOf[u] \in regex}]
    <3> DEFINE us == {u \in users : nameOf[u] \in regex}
               f == [frame[t] EXCEPT !.at = "list", !.todo = us]
    <3>1. us \in SUBSET Uid
      BY DEF TypeInv, TablesTypeOK
    <3>2. frame[t] \in Frames
      BY DEF TypeInv, FramesOK
    <3> HIDE DEF us
    <3>3. f \in Frames
      BY <3>1, <3>2 DEF Frames, Places
    <3>4. Whole(f)
      BY <3>2 DEF Frames, Whole, HasUid, HasCid, HasMid
    <3>5. frame' = [frame EXCEPT ![t] = f]
      BY <2>2 DEF TypeInv, FramesOK, us
    <3> QED BY <3>3, <3>4, <3>5, FrameUpdate DEF TypeInv
  <2> QED BY <2>1, <2>2 DEF ListAccounts
<1>2. WiresOK'
  <2>1. CASE Write(t, Packet("accounts", {}))
    <3>1. "accounts" \in Kinds
      BY DEF Kinds
    <3> QED BY <2>1, <3>1, ErrorType, WireWrite DEF TypeInv, ListAccounts
  <2>2. CASE UNCHANGED out
    BY <2>2, WiresKept DEF TypeInv, ListAccounts
  <2> QED BY <2>1, <2>2 DEF ListAccounts
<1>3. TablesTypeOK'
  BY TablesKept DEF TypeInv, ListAccounts
<1>4. RestOK'
  BY RestSpend DEF TypeInv, ListAccounts, Request, Op, RestOK
<1> QED BY <1>1, <1>2, <1>3, <1>4 DEF TypeInv

LEMMA ListAccountType ==
    ASSUME TypeInv, NEW t \in Conn, ListAccount(t)
    PROVE  TypeInv'
<1>1. FramesOK'
  <2>1. PICK u \in frame[t].todo :
          frame' = [frame EXCEPT ![t].todo = @ \ {u}, ![t].found = @ \cup ({u} \cap users)]
    BY DEF ListAccount
  <2> DEFINE f == [frame[t] EXCEPT !.todo = @ \ {u}, !.found = @ \cup ({u} \cap users)]
  <2>2. frame[t] \in Frames /\ frame[t].at = "list" /\ users \subseteq Uid
    BY DEF TypeInv, FramesOK, ListAccount, At, TablesTypeOK
  <2>3. f \in Frames /\ f.at = "list"
    BY <2>2 DEF Frames
  <2>4. Whole(f)
    BY <2>3 DEF Whole, HasUid, HasCid, HasMid
  <2>5. frame' = [frame EXCEPT ![t] = f]
    BY <2>1 DEF TypeInv, FramesOK
  <2> QED BY <2>3, <2>4, <2>5, FrameUpdate DEF TypeInv
<1>2. WiresOK'
  BY WiresKept DEF TypeInv, ListAccount
<1>3. TablesTypeOK'
  BY TablesKept DEF TypeInv, ListAccount
<1>4. RestOK'
  BY RestKept DEF TypeInv, ListAccount
<1> QED BY <1>1, <1>2, <1>3, <1>4 DEF TypeInv

LEMMA ListFinishedType ==
    ASSUME TypeInv, NEW t \in Conn, ListFinished(t)
    PROVE  TypeInv'
<1>1. FramesOK'
  BY FrameReturn DEF TypeInv, ListFinished, Done
<1>2. WiresOK'
  <2>1. frame[t].found \in SUBSET (Uid \cup Cid \cup Mid) /\ "accounts" \in Kinds
    BY DEF TypeInv, FramesOK, Frames, Kinds
  <2> QED BY <2>1, PacketType, WireWrite DEF TypeInv, ListFinished
<1>3. TablesTypeOK'
  BY TablesKept DEF TypeInv, ListFinished
<1>4. RestOK'
  BY RestKept DEF TypeInv, ListFinished
<1> QED BY <1>1, <1>2, <1>3, <1>4 DEF TypeInv

LEMMA ErasedType ==
    ASSUME RestOK, NEW t, NEW level, NEW x, NEW v, NEW y, Erased(t, level, x, v, y),
           UNCHANGED <<up, budget>>
    PROVE  RestOK'
<1>1. Walking(level, x) \subseteq Conn
  BY DEF Walking
<1> QED BY <1>1 DEF RestOK, Erased

LEMMA PushedType ==
    ASSUME FramesOK, RestOK, NEW t \in Conn, NEW f \in Frames, Whole(f), NEW level \in Level,
           NEW x, NEW v, Pushed(t, f, level, x, v), UNCHANGED <<up, budget>>
    PROVE  FramesOK' /\ RestOK'
<1>1. Walking(level, x) \subseteq Conn
  BY DEF Walking
<1>2. PICK moved \in {Walking(level, x), {}} :
        /\ frame' = [s \in Conn |-> IF s = t THEN f
                                    ELSE IF s \in moved
                                    THEN [frame[s] EXCEPT !.loose = @ \cup {level}]
                                    ELSE frame[s]]
        /\ disturbed' = disturbed \cup moved
                        \cup {s \in Walking(level, x) : frame[s].end[level] > v.len}
  BY DEF Pushed
<1>3. ASSUME NEW s \in Conn
      PROVE  frame'[s] \in Frames /\ Whole(frame[s])'
  <2>1. frame[s] \in Frames /\ Whole(frame[s])
    BY DEF FramesOK
  <2> DEFINE g == [frame[s] EXCEPT !.loose = @ \cup {level}]
  <2>2. g \in Frames /\ Whole(g)
    BY <2>1 DEF Frames, Whole
  <2>3. frame'[s] \in {f, g, frame[s]}
    BY <1>2
  <2> HIDE DEF g
  <2>4. frame'[s] \in Frames /\ Whole(frame'[s])
    BY <2>1, <2>2, <2>3
  <2> QED BY <2>4 DEF Whole
<1>4. FramesOK'
  BY <1>2, <1>3 DEF FramesOK
<1>5. disturbed' \in SUBSET Conn
  BY <1>1, <1>2 DEF RestOK
<1> QED BY <1>4, <1>5 DEF RestOK

LEMMA DeleteAccountType ==
    ASSUME TypeInv, NEW t \in Conn, NEW n \in Name, NEW p \in Password, DeleteAccount(t, n, p)
    PROVE  TypeInv'
<1>1. FramesOK'
  <2>1. CASE UNCHANGED frame
    BY <2>1, FrameKept DEF TypeInv
  <2>2. ASSUME NEW u \in Uid, frame' = [frame EXCEPT ![t].at = "delete user", ![t].uid = u]
        PROVE  FramesOK'
    <3> DEFINE f == [frame[t] EXCEPT !.at = "delete user", !.uid = u]
    <3>1. frame[t] \in Frames
      BY DEF TypeInv, FramesOK
    <3>2. f \in Frames
      BY <3>1 DEF Frames, Places
    <3>3. Whole(f)
      BY <3>1 DEF Frames, Whole, HasUid, HasCid, HasMid
    <3>4. frame' = [frame EXCEPT ![t] = f]
      BY <2>2 DEF TypeInv, FramesOK
    <3> QED BY <3>2, <3>3, <3>4, FrameUpdate DEF TypeInv
  <2>3. WithName(n) \subseteq Uid
    BY DEF WithName, TypeInv, TablesTypeOK
  <2> QED BY <2>1, <2>2, <2>3 DEF DeleteAccount
<1>2. WiresOK'
  <2>1. CASE Write(t, Packet("delete account", {}))
    <3>1. "delete account" \in Kinds
      BY DEF Kinds
    <3> QED BY <2>1, <3>1, ErrorType, WireWrite DEF TypeInv, DeleteAccount
  <2>2. CASE UNCHANGED out
    BY <2>2, WiresKept DEF TypeInv, DeleteAccount
  <2> QED BY <2>1, <2>2 DEF DeleteAccount
<1>3. TablesTypeOK'
  BY TablesKept DEF TypeInv, DeleteAccount
<1>4. RestOK'
  BY RestSpend DEF TypeInv, DeleteAccount, Request, Op, RestOK
<1> QED BY <1>1, <1>2, <1>3, <1>4 DEF TypeInv

LEMMA DeleteUserType ==
    ASSUME TypeInv, NEW t \in Conn, DeleteUser(t)
    PROVE  TypeInv'
<1>1. FramesOK'
  <2> DEFINE u == frame[t].uid
             g == [frame[t] EXCEPT !.at = "delete channels"]
             f == Loop(g, "channels", chansOf[u])
  <2>1. CASE Done(t)
    BY <2>1, FrameReturn DEF TypeInv, Done
  <2>2. CASE frame' = [frame EXCEPT ![t] = f]
    <3>1. u \in Uid /\ chansOf[u] \in Vectors(Cid) /\ "channels" \in Level
      BY DEF TypeInv, FramesOK, Whole, HasUid, DeleteUser, At, TablesTypeOK, Level
    <3>2. frame[t] \in Frames
      BY DEF TypeInv, FramesOK
    <3>3. g \in Frames /\ g.at = "delete channels" /\ g.uid = u
      BY <3>2 DEF Frames, Places
    <3> HIDE DEF g
    <3>4. f \in Frames /\ f.at = "delete channels" /\ f.uid = u
      BY <3>1, <3>3, LoopType, ZenonT(60)
    <3> HIDE DEF f
    <3>5. Whole(f)
      BY <3>1, <3>4 DEF Whole, HasUid, HasCid, HasMid
    <3> QED BY <2>2, <3>4, <3>5, FrameUpdate DEF TypeInv
  <2> QED BY <2>1, <2>2 DEF DeleteUser
<1>2. WiresOK'
  <2>1. CASE Write(t, Packet("delete account", {}))
    <3>1. "delete account" \in Kinds
      BY DEF Kinds
    <3> QED BY <2>1, <3>1, ErrorType, WireWrite DEF TypeInv, DeleteUser
  <2>2. CASE UNCHANGED out
    BY <2>2, WiresKept DEF TypeInv, DeleteUser
  <2> QED BY <2>1, <2>2 DEF DeleteUser
<1>3. TablesTypeOK'
  BY TablesKept DEF TypeInv, DeleteUser
<1>4. RestOK'
  BY RestKept DEF TypeInv, DeleteUser
<1> QED BY <1>1, <1>2, <1>3, <1>4 DEF TypeInv

LEMMA DeleteFromChannelType ==
    ASSUME TypeInv, NEW t \in Conn, DeleteFromChannel(t)
    PROVE  TypeInv'
<1>1. FramesOK'
  <2>1. CASE frame' = [frame EXCEPT ![t] = Advance(@, "channels")]
    BY <2>1, AdvanceWhole DEF TypeInv, Level
  <2>2. ASSUME NEW c \in channels,
               frame' = [frame EXCEPT ![t] =
                   Loop(Advance([@ EXCEPT !.at = "delete messages", !.cid = c], "channels"),
                        "messages", logOf[c])]
        PROVE  FramesOK'
    <3> DEFINE g == [frame[t] EXCEPT !.at = "delete messages", !.cid = c]
               h == Advance(g, "channels")
               f == Loop(h, "messages", logOf[c])
    <3>1. c \in Cid /\ logOf[c] \in Vectors(Mid)
      BY DEF TypeInv, TablesTypeOK
    <3>2. frame[t] \in Frames /\ frame[t].uid \in Uid
      BY DEF TypeInv, FramesOK, Whole, HasUid, DeleteFromChannel, At
    <3>3. g \in Frames /\ g.at = "delete messages" /\ g.uid \in Uid /\ g.cid \in Cid
      BY <3>1, <3>2 DEF Frames, Places
    <3>4. frame' = [frame EXCEPT ![t] = f]
      BY <2>2
    <3> HIDE DEF g
    <3>5. h \in Frames /\ h.at = "delete messages" /\ h.uid \in Uid /\ h.cid \in Cid
      BY <3>3, AdvanceType DEF Level
    <3> HIDE DEF h
    <3>6. f \in Frames /\ f.at = "delete messages" /\ f.uid \in Uid /\ f.cid \in Cid
      BY <3>1, <3>5, LoopType DEF Level
    <3> HIDE DEF f
    <3>7. Whole(f)
      BY <3>6 DEF Whole, HasUid, HasCid, HasMid
    <3> QED BY <3>4, <3>6, <3>7, FrameUpdate DEF TypeInv
  <2> QED BY <2>1, <2>2 DEF DeleteFromChannel
<1>2. WiresOK'
  BY WiresKept DEF TypeInv, DeleteFromChannel
<1>3. TablesTypeOK'
  <2>1. CASE UNCHANGED membersOf
    BY <2>1, TablesKept DEF TypeInv, DeleteFromChannel, tables, rooms
  <2>2. ASSUME NEW c \in channels, ChannelRemoveUser(c, frame[t].uid)
        PROVE  TablesTypeOK'
    <3>1. c \in Cid /\ membersOf[c] \in Vectors(Uid)
      BY DEF TypeInv, TablesTypeOK
    <3>2. Erase(membersOf[c], frame[t].uid) \in Vectors(Uid)
      BY <3>1, EraseType
    <3> QED BY <2>2, <3>2 DEF TypeInv, TablesTypeOK, ChannelRemoveUser, DeleteFromChannel,
                              accounts, texts
  <2> QED BY <2>1, <2>2 DEF DeleteFromChannel
<1>4. RestOK'
  <2>1. CASE UNCHANGED disturbed
    BY <2>1, RestKept DEF TypeInv, DeleteFromChannel
  <2>2. ASSUME NEW c \in channels, Erased(t, "members", c, membersOf[c], frame[t].uid)
        PROVE  RestOK'
    BY <2>2, ErasedType DEF TypeInv, DeleteFromChannel
  <2> QED BY <2>1, <2>2 DEF DeleteFromChannel
<1> QED BY <1>1, <1>2, <1>3, <1>4 DEF TypeInv

LEMMA DeleteFindMessageType ==
    ASSUME TypeInv, NEW t \in Conn, DeleteFindMessage(t)
    PROVE  TypeInv'
<1>1. FramesOK'
  <2>1. CASE frame' = [frame EXCEPT ![t] = Advance(@, "messages")]
    BY <2>1, AdvanceWhole DEF TypeInv, Level
  <2>2. ASSUME NEW m \in messages, frame' = [frame EXCEPT ![t].at = "delete text", ![t].mid = m]
        PROVE  FramesOK'
    <3> DEFINE f == [frame[t] EXCEPT !.at = "delete text", !.mid = m]
    <3>1. frame[t] \in Frames /\ m \in Mid
      BY DEF TypeInv, FramesOK, TablesTypeOK
    <3>2. frame[t].uid \in Uid /\ frame[t].cid \in Cid
      BY DEF TypeInv, FramesOK, DeleteFindMessage, At, Whole, HasUid, HasCid
    <3>3. f \in Frames
      BY <3>1 DEF Frames, Places
    <3>4. Whole(f)
      BY <3>1, <3>2 DEF Frames, Whole, HasUid, HasCid, HasMid
    <3>5. frame' = [frame EXCEPT ![t] = f]
      BY <2>2 DEF TypeInv, FramesOK
    <3> QED BY <3>3, <3>4, <3>5, FrameUpdate DEF TypeInv
  <2> QED BY <2>1, <2>2 DEF DeleteFindMessage
<1>2. WiresOK'
  BY WiresKept DEF TypeInv, DeleteFindMessage
<1>3. TablesTypeOK'
  BY TablesKept DEF TypeInv, DeleteFindMessage
<1>4. RestOK'
  BY RestKept DEF TypeInv, DeleteFindMessage
<1> QED BY <1>1, <1>2, <1>3, <1>4 DEF TypeInv

LEMMA DeleteListedMessageType ==
    ASSUME TypeInv, NEW t \in Conn, DeleteListedMessage(t)
    PROVE  TypeInv'
<1>1. FramesOK'
  <2> DEFINE c == frame[t].cid
             g == [frame[t] EXCEPT !.at = "delete notify"]
             h == Advance(g, "messages")
             f == Loop(h, "members", membersOf[c])
  <2>1. frame[t] \in Frames /\ frame[t].uid \in Uid /\ c \in Cid /\ frame[t].mid \in Mid
    BY DEF TypeInv, FramesOK, DeleteListedMessage, At, Whole, HasUid, HasCid, HasMid
  <2>2. membersOf[c] \in Vectors(Uid)
    BY <2>1 DEF TypeInv, TablesTypeOK
  <2>3. g \in Frames /\ g.at = "delete notify" /\ g.uid \in Uid /\ g.cid \in Cid /\ g.mid \in Mid
    BY <2>1 DEF Frames, Places
  <2>4. frame' = [frame EXCEPT ![t] = f]
    BY DEF DeleteListedMessage
  <2> HIDE DEF g
  <2>5. h \in Frames /\ h.at = "delete notify" /\ h.uid \in Uid /\ h.cid \in Cid /\ h.mid \in Mid
    BY <2>3, AdvanceType DEF Level
  <2> HIDE DEF h
  <2>6. f \in Frames /\ f.at = "delete notify" /\ f.uid \in Uid /\ f.cid \in Cid /\ f.mid \in Mid
    BY <2>2, <2>5, LoopType DEF Level
  <2> HIDE DEF f
  <2>7. Whole(f)
    BY <2>6 DEF Whole, HasUid, HasCid, HasMid
  <2> QED BY <2>4, <2>6, <2>7, FrameUpdate DEF TypeInv
<1>2. WiresOK'
  BY WiresKept DEF TypeInv, DeleteListedMessage
<1>3. TablesTypeOK'
  <2>1. PICK m : ChannelRemoveMessage(frame[t].cid, m)
    BY DEF DeleteListedMessage
  <2>2. frame[t].cid \in Cid
    BY DEF TypeInv, FramesOK, DeleteListedMessage, At, Whole, HasCid
  <2>3. Erase(logOf[frame[t].cid], m) \in Vectors(Mid)
    BY <2>2, EraseType DEF TypeInv, TablesTypeOK
  <2> QED BY <2>1, <2>2, <2>3 DEF TypeInv, TablesTypeOK, ChannelRemoveMessage, DeleteListedMessage,
                                  accounts, texts
<1>4. RestOK'
  BY ErasedType DEF TypeInv, DeleteListedMessage
<1> QED BY <1>1, <1>2, <1>3, <1>4 DEF TypeInv

LEMMA DeleteNotifyType ==
    ASSUME TypeInv, NEW t \in Conn, DeleteNotify(t)
    PROVE  TypeInv'
<1>1. FramesOK'
  <2>1. CASE NotifyMember(t, Packet("deleted", {frame[t].mid}))
    <3>1. frame[t].mid \in Mid /\ "deleted" \in Kinds
      BY DEF TypeInv, FramesOK, DeleteNotify, At, Whole, HasMid, Kinds
    <3> QED BY <2>1, <3>1, OneType, NotifyType DEF TypeInv, DeleteNotify
  <2>2. CASE Goto(t, "delete messages")
    <3>1. Whole([frame[t] EXCEPT !.at = "delete messages"]) /\ "delete messages" \in Places
      BY DEF TypeInv, FramesOK, DeleteNotify, At, Frames, Whole, HasUid, HasCid, HasMid, Places
    <3> QED BY <2>2, <3>1, FrameGoto DEF TypeInv
  <2> QED BY <2>1, <2>2 DEF DeleteNotify
<1>2. WiresOK'
  <2>1. CASE NotifyMember(t, Packet("deleted", {frame[t].mid}))
    <3>1. frame[t].mid \in Mid /\ "deleted" \in Kinds
      BY DEF TypeInv, FramesOK, DeleteNotify, At, Whole, HasMid, Kinds
    <3> QED BY <2>1, <3>1, OneType, NotifyType DEF TypeInv, DeleteNotify
  <2>2. CASE UNCHANGED <<out, queue>>
    BY <2>2, WiresKept DEF TypeInv, DeleteNotify
  <2> QED BY <2>1, <2>2 DEF DeleteNotify
<1>3. TablesTypeOK'
  BY TablesKept DEF TypeInv, DeleteNotify
<1>4. RestOK'
  BY RestKept DEF TypeInv, DeleteNotify
<1> QED BY <1>1, <1>2, <1>3, <1>4 DEF TypeInv

LEMMA DeleteChannelFinishedType ==
    ASSUME TypeInv, NEW t \in Conn, DeleteChannelFinished(t)
    PROVE  TypeInv'
<1>1. FramesOK'
  <2>1. Whole([frame[t] EXCEPT !.at = "delete channels"]) /\ "delete channels" \in Places
    BY DEF TypeInv, FramesOK, DeleteChannelFinished, At, Frames, Whole, HasUid, HasCid, HasMid, Places
  <2> QED BY <2>1, FrameGoto DEF TypeInv, DeleteChannelFinished
<1>2. WiresOK'
  BY WiresKept DEF TypeInv, DeleteChannelFinished
<1>3. TablesTypeOK'
  BY TablesKept DEF TypeInv, DeleteChannelFinished
<1>4. RestOK'
  BY RestKept DEF TypeInv, DeleteChannelFinished
<1> QED BY <1>1, <1>2, <1>3, <1>4 DEF TypeInv

LEMMA DeleteAccountFinishedType ==
    ASSUME TypeInv, NEW t \in Conn, DeleteAccountFinished(t)
    PROVE  TypeInv'
<1>1. FramesOK'
  BY FrameReturn DEF TypeInv, DeleteAccountFinished, Done
<1>2. WiresOK'
  <2> DEFINE ids == {frame[t].uid} \cap users
  <2>1. ids \in SUBSET (Uid \cup Cid \cup Mid) /\ "delete account" \in Kinds
    BY DEF TypeInv, TablesTypeOK, Kinds
  <2> QED BY <2>1, PacketType, WireWrite DEF TypeInv, DeleteAccountFinished
<1>3. TablesTypeOK'
  BY DEF TypeInv, TablesTypeOK, DeleteAccountFinished, RemoveUser, rooms, texts
<1>4. RestOK'
  BY RestKept DEF TypeInv, DeleteAccountFinished
<1> QED BY <1>1, <1>2, <1>3, <1>4 DEF TypeInv

\* The user of a client that was told it is logged in.
LEMMA LoggedInUser ==
    ASSUME WiresOK, NEW t \in Conn, link[t] = "open", LoggedIn(t)
    PROVE  auth[t] \in Uid
BY DEF WiresOK, LoggedIn, Known

LEMMA CreateChannelType ==
    ASSUME TypeInv, NEW t \in Conn, NEW other \in Announced, CreateChannel(t, other)
    PROVE  TypeInv'
<1> DEFINE c == Fresh(Cid \ channels)
           uids == <<auth[t], other>>
<1>a. c \in Cid
  BY DEF TypeInv, TablesTypeOK, CreateChannel, Fresh
<1>b. uids \in Seq(Uid)
  <2>1. auth[t] \in Uid
    BY LoggedInUser DEF TypeInv, CreateChannel, Request
  <2>2. other \in Uid
    BY DEF Announced
  <2> QED BY <2>1, <2>2
<1>1. FramesOK'
  <2> DEFINE g == [frame[t] EXCEPT !.at = "create members", !.cid = c]
             f == Loop(g, "members", VectorOf(uids))
  <2>1. frame[t] \in Frames
    BY DEF TypeInv, FramesOK
  <2>2. g \in Frames /\ g.at = "create members" /\ g.cid \in Cid
    BY <1>a, <2>1 DEF Frames, Places
  <2>3. VectorOf(uids) \in Vectors(Uid)
    BY <1>b, VectorOfType
  <2>4. frame' = [frame EXCEPT ![t] = f]
    BY DEF CreateChannel
  <2> HIDE DEF g
  <2>5. f \in Frames /\ f.at = "create members" /\ f.cid \in Cid
    BY <2>2, <2>3, LoopType DEF Level
  <2> HIDE DEF f
  <2>6. Whole(f)
    BY <2>5 DEF Whole, HasUid, HasCid, HasMid
  <2> QED BY <2>4, <2>5, <2>6, FrameUpdate DEF TypeInv
<1>2. WiresOK'
  BY WiresKept DEF TypeInv, CreateChannel
<1>3. TablesTypeOK'
  <2>1. VectorOf(uids) \in Vectors(Uid)
    BY <1>b, VectorOfType
  <2>2. AddChannel(c, uids)
    BY DEF CreateChannel
  <2> HIDE DEF c, uids
  <2> QED BY <1>a, <2>1, <2>2 DEF TypeInv, TablesTypeOK, AddChannel, CreateChannel, accounts, texts
<1>4. RestOK'
  BY RestSpend DEF TypeInv, CreateChannel, Request, Op, RestOK
<1> QED BY <1>1, <1>2, <1>3, <1>4 DEF TypeInv

LEMMA CreateMemberType ==
    ASSUME TypeInv, NEW t \in Conn, CreateMember(t)
    PROVE  TypeInv'
<1> DEFINE c == frame[t].cid
           u == membersOf[c].cells[frame[t].pos["members"]]
           f == [frame[t] EXCEPT !.at = "create announce", !.uid = u]
<1>1. WiresOK'
  BY WiresKept DEF TypeInv, CreateMember
<1>2. CASE u \notin users
  <2>1. frame' = [frame EXCEPT ![t] = Advance(@, "members")]
    BY <1>2 DEF CreateMember
  <2>2. FramesOK'
    BY <2>1, AdvanceWhole DEF TypeInv, Level
  <2>3. UNCHANGED <<chansOf, disturbed>>
    BY <1>2 DEF CreateMember
  <2>4. TablesTypeOK'
    BY <2>3, TablesKept DEF TypeInv, CreateMember, tables, rooms
  <2>5. RestOK'
    BY <2>3, RestKept DEF TypeInv, CreateMember
  <2> QED BY <1>1, <2>2, <2>4, <2>5 DEF TypeInv
<1>3. CASE u \in users
  <2>1. u \in Uid /\ c \in Cid /\ frame[t] \in Frames
    BY <1>3 DEF TypeInv, TablesTypeOK, FramesOK, CreateMember, At, Whole, HasCid
  <2>2. UserAddChannel(u, c) /\ Pushed(t, f, "channels", u, chansOf[u])
    BY <1>3 DEF CreateMember
  <2>3. f \in Frames /\ f.at = "create announce" /\ f.uid = u /\ f.cid = c
    BY <2>1 DEF Frames, Places
  <2>4. Push(chansOf[u], c) \in Vectors(Cid)
    BY <2>1, PushType DEF TypeInv, TablesTypeOK
  <2> HIDE DEF f, u, c
  <2>5. Whole(f)
    BY <2>1, <2>3 DEF Whole, HasUid, HasCid, HasMid
  <2>6. FramesOK' /\ RestOK'
    BY <2>2, <2>3, <2>5, PushedType DEF TypeInv, CreateMember, Level
  <2>7. TablesTypeOK'
    BY <2>2, <2>4 DEF TypeInv, TablesTypeOK, UserAddChannel, CreateMember, accounts, texts
  <2> QED BY <1>1, <2>6, <2>7 DEF TypeInv
<1> QED BY <1>2, <1>3

LEMMA CreateAnnounceType ==
    ASSUME TypeInv, NEW t \in Conn, CreateAnnounce(t)
    PROVE  TypeInv'
<1>1. FramesOK'
  <2> DEFINE g == [frame[t] EXCEPT !.at = "create members"]
             f == Advance(g, "members")
  <2>1. frame[t] \in Frames /\ frame[t].cid \in Cid
    BY DEF TypeInv, FramesOK, CreateAnnounce, At, Whole, HasCid
  <2>2. g \in Frames /\ g.at = "create members" /\ g.cid \in Cid
    BY <2>1 DEF Frames, Places
  <2>3. frame' = [frame EXCEPT ![t] = f]
    BY DEF CreateAnnounce
  <2> HIDE DEF g
  <2>4. f \in Frames /\ f.at = "create members" /\ f.cid \in Cid
    BY <2>2, AdvanceType DEF Level
  <2> HIDE DEF f
  <2>5. Whole(f)
    BY <2>4 DEF Whole, HasUid, HasCid, HasMid
  <2> QED BY <2>3, <2>4, <2>5, FrameUpdate DEF TypeInv
<1>2. WiresOK'
  <2>1. frame[t].cid \in Cid /\ "channel" \in Kinds
    BY DEF TypeInv, FramesOK, CreateAnnounce, At, Whole, HasCid, Kinds
  <2> QED BY <2>1, OneType, WireEmit DEF TypeInv, CreateAnnounce
<1>3. TablesTypeOK'
  BY TablesKept DEF TypeInv, CreateAnnounce
<1>4. RestOK'
  BY RestKept DEF TypeInv, CreateAnnounce
<1> QED BY <1>1, <1>2, <1>3, <1>4 DEF TypeInv

LEMMA CreateFinishedType ==
    ASSUME TypeInv, NEW t \in Conn, CreateFinished(t)
    PROVE  TypeInv'
<1>1. FramesOK'
  BY FrameReturn DEF TypeInv, CreateFinished, Done
<1>2. WiresOK'
  BY WiresKept DEF TypeInv, CreateFinished
<1>3. TablesTypeOK'
  BY TablesKept DEF TypeInv, CreateFinished
<1>4. RestOK'
  BY RestKept DEF TypeInv, CreateFinished
<1> QED BY <1>1, <1>2, <1>3, <1>4 DEF TypeInv

LEMMA SendMessageType ==
    ASSUME TypeInv, NEW t \in Conn, NEW c \in Cid, SendMessage(t, c)
    PROVE  TypeInv'
<1>1. PICK m \in NextSnowflake :
        /\ AddMessage(m, auth[t], c)
        /\ frame' = [frame EXCEPT ![t].at = "append", ![t].cid = c, ![t].mid = m]
  BY DEF SendMessage
<1>2. m \in Mid
  BY DEF NextSnowflake, FreeMids
<1>3. auth[t] \in Uid
  BY LoggedInUser DEF TypeInv, SendMessage, Request
<1>4. FramesOK'
  <2> DEFINE f == [frame[t] EXCEPT !.at = "append", !.cid = c, !.mid = m]
  <2>1. frame[t] \in Frames
    BY DEF TypeInv, FramesOK
  <2>2. f \in Frames /\ f.at = "append" /\ f.cid \in Cid /\ f.mid \in Mid
    BY <1>2, <2>1 DEF Frames, Places
  <2>3. Whole(f)
    BY <2>2 DEF Whole, HasUid, HasCid, HasMid
  <2>4. frame' = [frame EXCEPT ![t] = f]
    BY <1>1 DEF TypeInv, FramesOK
  <2> QED BY <2>2, <2>3, <2>4, FrameUpdate DEF TypeInv
<1>5. WiresOK'
  BY WiresKept DEF TypeInv, SendMessage
<1>6. TablesTypeOK'
  BY <1>1, <1>2, <1>3 DEF TypeInv, TablesTypeOK, AddMessage, SendMessage, accounts, rooms
<1>7. RestOK'
  BY RestSpend DEF TypeInv, SendMessage, Request, Op, RestOK
<1> QED BY <1>4, <1>5, <1>6, <1>7 DEF TypeInv

LEMMA AppendMessageType ==
    ASSUME TypeInv, NEW t \in Conn, AppendMessage(t)
    PROVE  TypeInv'
<1> DEFINE c == frame[t].cid
           m == frame[t].mid
           g == [frame[t] EXCEPT !.at = "send notify"]
           f == Loop(g, "members", membersOf[c])
<1>1. c \in Cid /\ m \in Mid /\ frame[t] \in Frames
  BY DEF TypeInv, FramesOK, AppendMessage, At, Whole, HasCid, HasMid
<1>2. membersOf[c] \in Vectors(Uid) /\ Push(logOf[c], m) \in Vectors(Mid)
  BY <1>1, PushType DEF TypeInv, TablesTypeOK
<1>3. ChannelAddMessage(c, m) /\ Pushed(t, f, "messages", c, logOf[c])
  BY DEF AppendMessage
<1>4. g \in Frames /\ g.at = "send notify" /\ g.cid = c /\ g.mid = m
  BY <1>1 DEF Frames, Places
<1> HIDE DEF g
<1>5. f \in Frames /\ f.at = "send notify" /\ f.cid = c /\ f.mid = m
  BY <1>2, <1>4, LoopType DEF Level
<1> HIDE DEF f, c, m
<1>6. Whole(f)
  BY <1>1, <1>5 DEF Whole, HasUid, HasCid, HasMid
<1>7. FramesOK' /\ RestOK'
  BY <1>3, <1>5, <1>6, PushedType DEF TypeInv, AppendMessage, Level
<1>8. WiresOK'
  BY WiresKept DEF TypeInv, AppendMessage
<1>9. TablesTypeOK'
  BY <1>1, <1>2, <1>3 DEF TypeInv, TablesTypeOK, ChannelAddMessage, AppendMessage, accounts, texts
<1> QED BY <1>7, <1>8, <1>9 DEF TypeInv

LEMMA SendNotifyType ==
    ASSUME TypeInv, NEW t \in Conn, SendNotify(t)
    PROVE  TypeInv'
<1>1. FramesOK'
  <2>1. CASE NotifyMember(t, Packet("message", {frame[t].mid}))
    <3>1. frame[t].mid \in Mid /\ "message" \in Kinds
      BY DEF TypeInv, FramesOK, SendNotify, At, Whole, HasMid, Kinds
    <3> QED BY <2>1, <3>1, OneType, NotifyType DEF TypeInv, SendNotify
  <2>2. CASE Done(t)
    BY <2>2, FrameReturn DEF TypeInv, Done
  <2> QED BY <2>1, <2>2 DEF SendNotify
<1>2. WiresOK'
  <2>1. CASE NotifyMember(t, Packet("message", {frame[t].mid}))
    <3>1. frame[t].mid \in Mid /\ "message" \in Kinds
      BY DEF TypeInv, FramesOK, SendNotify, At, Whole, HasMid, Kinds
    <3> QED BY <2>1, <3>1, OneType, NotifyType DEF TypeInv, SendNotify
  <2>2. CASE UNCHANGED <<out, queue>>
    BY <2>2, WiresKept DEF TypeInv, SendNotify
  <2> QED BY <2>1, <2>2 DEF SendNotify
<1>3. TablesTypeOK'
  BY TablesKept DEF TypeInv, SendNotify
<1>4. RestOK'
  BY RestKept DEF TypeInv, SendNotify
<1> QED BY <1>1, <1>2, <1>3, <1>4 DEF TypeInv

LEMMA DeleteMessageType ==
    ASSUME TypeInv, Placed, NEW t \in Conn, NEW m \in Mid, DeleteMessage(t, m)
    PROVE  TypeInv'
<1>1. FramesOK'
  <2>1. CASE UNCHANGED frame
    BY <2>1, FrameKept DEF TypeInv
  <2>2. CASE /\ m \in messages
             /\ frame' = [frame EXCEPT ![t].at = "remove text", ![t].cid = channelOf[m],
                                       ![t].mid = m]
    <3> DEFINE f == [frame[t] EXCEPT !.at = "remove text", !.cid = channelOf[m], !.mid = m]
    <3>1. frame[t] \in Frames
      BY DEF TypeInv, FramesOK
    <3>2. channelOf[m] \in Cid
      BY <2>2 DEF TypeInv, TablesTypeOK, DeleteMessage, Placed
    <3>3. f \in Frames /\ f.at = "remove text" /\ f.cid \in Cid /\ f.mid \in Mid
      BY <3>1, <3>2 DEF Frames, Places
    <3>4. Whole(f)
      BY <3>3 DEF Whole, HasUid, HasCid, HasMid
    <3>5. frame' = [frame EXCEPT ![t] = f]
      BY <2>2 DEF TypeInv, FramesOK
    <3> QED BY <3>3, <3>4, <3>5, FrameUpdate DEF TypeInv
  <2> QED BY <2>1, <2>2 DEF DeleteMessage
<1>2. WiresOK'
  BY WiresKept DEF TypeInv, DeleteMessage
<1>3. TablesTypeOK'
  BY TablesKept DEF TypeInv, DeleteMessage
<1>4. RestOK'
  BY RestSpend DEF TypeInv, DeleteMessage, Request, Op, RestOK
<1> QED BY <1>1, <1>2, <1>3, <1>4 DEF TypeInv

LEMMA RemoveTextType ==
    ASSUME TypeInv, NEW t \in Conn, RemoveText(t)
    PROVE  TypeInv'
<1>1. FramesOK'
  <2> DEFINE c == frame[t].cid
             g == [frame[t] EXCEPT !.at = "remove notify"]
             f == Loop(g, "members", membersOf[c])
  <2>1. frame[t] \in Frames /\ c \in Cid /\ frame[t].mid \in Mid
    BY DEF TypeInv, FramesOK, RemoveText, At, Whole, HasCid, HasMid
  <2>2. membersOf[c] \in Vectors(Uid)
    BY <2>1 DEF TypeInv, TablesTypeOK
  <2>3. g \in Frames /\ g.at = "remove notify" /\ g.cid \in Cid /\ g.mid \in Mid
    BY <2>1 DEF Frames, Places
  <2>4. frame' = [frame EXCEPT ![t] = f]
    BY DEF RemoveText
  <2> HIDE DEF g
  <2>5. f \in Frames /\ f.at = "remove notify" /\ f.cid \in Cid /\ f.mid \in Mid
    BY <2>2, <2>3, LoopType DEF Level
  <2> HIDE DEF f
  <2>6. Whole(f)
    BY <2>5 DEF Whole, HasUid, HasCid, HasMid
  <2> QED BY <2>4, <2>5, <2>6, FrameUpdate DEF TypeInv
<1>2. WiresOK'
  BY WiresKept DEF TypeInv, RemoveText
<1>3. TablesTypeOK'
  BY DEF TypeInv, TablesTypeOK, RemoveText, RemoveMessage, accounts, rooms
<1>4. RestOK'
  BY RestKept DEF TypeInv, RemoveText
<1> QED BY <1>1, <1>2, <1>3, <1>4 DEF TypeInv

LEMMA RemoveNotifyType ==
    ASSUME TypeInv, NEW t \in Conn, RemoveNotify(t)
    PROVE  TypeInv'
<1>1. FramesOK'
  <2>1. CASE NotifyMember(t, Packet("deleted", {frame[t].mid}))
    <3>1. frame[t].mid \in Mid /\ "deleted" \in Kinds
      BY DEF TypeInv, FramesOK, RemoveNotify, At, Whole, HasMid, Kinds
    <3> QED BY <2>1, <3>1, OneType, NotifyType DEF TypeInv, RemoveNotify
  <2>2. CASE Goto(t, "unlist")
    <3>1. Whole([frame[t] EXCEPT !.at = "unlist"]) /\ "unlist" \in Places
      BY DEF TypeInv, FramesOK, RemoveNotify, At, Frames, Whole, HasUid, HasCid, HasMid, Places
    <3> QED BY <2>2, <3>1, FrameGoto DEF TypeInv
  <2> QED BY <2>1, <2>2 DEF RemoveNotify
<1>2. WiresOK'
  <2>1. CASE NotifyMember(t, Packet("deleted", {frame[t].mid}))
    <3>1. frame[t].mid \in Mid /\ "deleted" \in Kinds
      BY DEF TypeInv, FramesOK, RemoveNotify, At, Whole, HasMid, Kinds
    <3> QED BY <2>1, <3>1, OneType, NotifyType DEF TypeInv, RemoveNotify
  <2>2. CASE UNCHANGED <<out, queue>>
    BY <2>2, WiresKept DEF TypeInv, RemoveNotify
  <2> QED BY <2>1, <2>2 DEF RemoveNotify
<1>3. TablesTypeOK'
  BY TablesKept DEF TypeInv, RemoveNotify
<1>4. RestOK'
  BY RestKept DEF TypeInv, RemoveNotify
<1> QED BY <1>1, <1>2, <1>3, <1>4 DEF TypeInv

LEMMA UnlistType ==
    ASSUME TypeInv, NEW t \in Conn, Unlist(t)
    PROVE  TypeInv'
<1>1. FramesOK'
  BY FrameReturn DEF TypeInv, Unlist, Done
<1>2. WiresOK'
  BY WiresKept DEF TypeInv, Unlist
<1>3. TablesTypeOK'
  <2>1. PICK m : ChannelRemoveMessage(frame[t].cid, m)
    BY DEF Unlist
  <2>2. frame[t].cid \in Cid
    BY DEF TypeInv, FramesOK, Unlist, At, Whole, HasCid
  <2>3. Erase(logOf[frame[t].cid], m) \in Vectors(Mid)
    BY <2>2, EraseType DEF TypeInv, TablesTypeOK
  <2> QED BY <2>1, <2>2, <2>3 DEF TypeInv, TablesTypeOK, ChannelRemoveMessage, Unlist,
                                  accounts, texts
<1>4. RestOK'
  BY ErasedType DEF TypeInv, Unlist
<1> QED BY <1>1, <1>2, <1>3, <1>4 DEF TypeInv

-----------------------------------------------------------------------------
(* All steps                                                                *)

LEMMA AskType ==
    ASSUME TypeInv, Placed, NEW t \in Conn, Ask(t)
    PROVE  TypeInv'
<1>1. ASSUME NEW n \in Name, NEW p \in Password, Register(t, n, p) PROVE TypeInv'
  BY <1>1, RegisterType
<1>2. ASSUME NEW n \in Name, NEW p \in Password, Login(t, n, p) PROVE TypeInv'
  BY <1>2, LoginType
<1>3. ASSUME NEW n \in Name, NEW p \in Password, DeleteAccount(t, n, p) PROVE TypeInv'
  BY <1>3, DeleteAccountType
<1>4. ASSUME NEW regex \in (SUBSET Name) \cup {Nil}, ListAccounts(t, regex) PROVE TypeInv'
  BY <1>4, ListAccountsType
<1>5. ASSUME NEW other \in Announced, CreateChannel(t, other) PROVE TypeInv'
  BY <1>5, CreateChannelType
<1>6. ASSUME NEW c \in Cid, SendMessage(t, c) PROVE TypeInv'
  BY <1>6, SendMessageType
<1>7. ASSUME NEW m \in Mid, DeleteMessage(t, m) PROVE TypeInv'
  BY <1>7, DeleteMessageType
<1>8. CASE Accept(t)
  BY <1>8, AcceptType
<1>9. CASE Disconnect(t)
  BY <1>9, DisconnectType
<1> QED BY <1>1, <1>2, <1>3, <1>4, <1>5, <1>6, <1>7, <1>8, <1>9 DEF Ask

LEMMA ContinueType ==
    ASSUME TypeInv, NEW t \in Conn, Continue(t)
    PROVE  TypeInv'
BY RegisterPasswordType, RegisterUserType, LoginUserType, LoginChannelType, LoginMessageType,
   LoginChannelReplayedType, LoginFinishedType, ListAccountType, ListFinishedType,
   DeleteUserType, DeleteFromChannelType, DeleteFindMessageType, DeleteListedMessageType,
   DeleteNotifyType, DeleteChannelFinishedType, DeleteAccountFinishedType, CreateMemberType,
   CreateAnnounceType, CreateFinishedType, AppendMessageType, SendNotifyType, RemoveTextType,
   RemoveNotifyType, UnlistType, DisconnectFinishedType, QuitThreadType, DispatchType DEF
   Continue

LEMMA TypeNext ==
    ASSUME TypeInv, Placed, [Next]_vars
    PROVE  TypeInv'
<1>1. ASSUME NEW t \in Conn, Ask(t) PROVE TypeInv'
  BY <1>1, AskType
<1>2. ASSUME NEW t \in Conn, Continue(t) PROVE TypeInv'
  BY <1>2, ContinueType
<1>3. CASE UNCHANGED vars
  BY <1>3, FrameKept, WiresKept, TablesKept, RestKept DEF TypeInv, vars, threads
<1> QED BY <1>1, <1>2, <1>3 DEF Next, Rest

-----------------------------------------------------------------------------
(* Theorems                                                                 *)

\* Messages come into being in SendMessage and leave the table in RemoveText.
LEMMA PlacedNext ==
    ASSUME TypeInv, Placed, [Next]_vars
    PROVE  Placed'
<1>1. CASE UNCHANGED texts
  BY <1>1 DEF texts, Placed
<1>2. ASSUME NEW t \in Conn, Ask(t) PROVE Placed'
  <2>1. ASSUME NEW c \in Cid, SendMessage(t, c) PROVE Placed'
    <3>1. PICK m \in NextSnowflake : AddMessage(m, auth[t], c)
      BY <2>1 DEF SendMessage
    <3>2. m \in Mid
      BY DEF NextSnowflake, FreeMids
    <3> QED BY <3>1, <3>2, NilAssumption DEF Placed, AddMessage, TypeInv, TablesTypeOK
  <2>2. CASE ~\E c \in Cid : SendMessage(t, c)
    BY <1>1, <1>2, <2>2 DEF Ask, tables, Register, Login, DeleteAccount, ListAccounts,
       CreateChannel, DeleteMessage, Accept, Disconnect
  <2> QED BY <2>1, <2>2
<1>3. ASSUME NEW t \in Conn, Continue(t) PROVE Placed'
  <2>1. CASE RemoveText(t)
    BY <2>1 DEF Placed, RemoveText, RemoveMessage
  <2>2. CASE ~RemoveText(t)
    BY <1>1, <1>3, <2>2 DEF Continue, tables, RegisterPassword, RegisterUser, LoginUser,
       LoginChannel, LoginMessage, LoginChannelReplayed, LoginFinished, ListAccount,
       ListFinished, DeleteUser, DeleteFromChannel, DeleteFindMessage, DeleteListedMessage,
       DeleteNotify, DeleteChannelFinished, DeleteAccountFinished, CreateMember, CreateAnnounce,
       CreateFinished, AppendMessage, SendNotify, RemoveNotify, Unlist, DisconnectFinished,
       QuitThread, Dispatch
  <2> QED BY <2>1, <2>2
<1> QED BY <1>1, <1>2, <1>3 DEF Next, Rest, vars, tables

LEMMA Typed == Spec => [](TypeInv /\ Placed)
<1>1. Init => TypeInv /\ Placed
  BY TypeInit DEF Init, TablesInit, Placed
<1>2. TypeInv /\ Placed /\ [Next]_vars => TypeInv' /\ Placed'
  BY TypeNext, PlacedNext
<1> QED BY <1>1, <1>2, PTL DEF Spec

\* Every variable stays in its range, whatever the clients ask for and however the threads
\* interleave: no handler uses a local it has not set, no packet or event names a thing that
\* never existed, and the vectors the loops walk never hold fewer cells than size() says.
THEOREM TypeCorrect == Spec => []TypeOK
<1>1. TypeInv => TypeOK
  BY DEF TypeInv, TypeOK, FramesOK, WiresOK, RestOK
<1> QED BY <1>1, Typed, PTL

\* No registration begins or goes on, and no account appears.
Registering == {"add password", "add user"}

FramesStay ==
    \A s \in Conn : frame'[s].at \in Registering =>
                        frame'[s].at = frame[s].at /\ frame'[s].uid = frame[s].uid

AccountsStay == UNCHANGED <<nameOf, passwordOf>> /\ users' \subseteq users

\* The step of a thread whose handler is another.
LEMMA OneFrame ==
    ASSUME FramesOK, NEW t \in Conn, frame'[t].at \notin Registering,
           \A s \in Conn \ {t} : frame'[s].at = frame[s].at /\ frame'[s].uid = frame[s].uid
    PROVE  FramesStay
BY DEF FramesStay

LEMMA OtherAsks ==
    ASSUME TypeInv, NEW t \in Conn, Ask(t), \A n \in Name, p \in Password : ~Register(t, n, p)
    PROVE  AccountsStay /\ FramesStay
<1> USE DEF Registering
<1>a. frame \in [Conn -> Frames]
  BY DEF TypeInv, FramesOK
<1>b. UNCHANGED frame => FramesStay
  BY DEF FramesStay
<1>1. ASSUME NEW n \in Name, NEW p \in Password, Login(t, n, p) PROVE AccountsStay /\ FramesStay
  <2>1. AccountsStay
    BY <1>1 DEF AccountsStay, Login, tables, accounts
  <2>2. CASE UNCHANGED frame
    BY <1>b, <2>1, <2>2
  <2>3. ASSUME NEW u, frame' = [frame EXCEPT ![t].at = "login user", ![t].uid = u]
        PROVE  FramesStay
    <3>1. frame'[t].at = "login user"
      BY <1>a, <2>3 DEF Frames
    <3>2. \A s \in Conn \ {t} : frame'[s].at = frame[s].at /\ frame'[s].uid = frame[s].uid
      BY <1>a, <2>3
    <3> QED BY <3>1, <3>2, OneFrame DEF TypeInv
  <2> QED BY <1>1, <2>1, <2>2, <2>3 DEF Login
<1>2. ASSUME NEW n \in Name, NEW p \in Password, DeleteAccount(t, n, p) PROVE AccountsStay /\ FramesStay
  <2>1. AccountsStay
    BY <1>2 DEF AccountsStay, DeleteAccount, tables, accounts
  <2>2. CASE UNCHANGED frame
    BY <1>b, <2>1, <2>2
  <2>3. ASSUME NEW u, frame' = [frame EXCEPT ![t].at = "delete user", ![t].uid = u]
        PROVE  FramesStay
    BY <1>a, <2>3 DEF FramesStay, Frames
  <2> QED BY <1>2, <2>1, <2>2, <2>3 DEF DeleteAccount
<1>3. ASSUME NEW regex \in (SUBSET Name) \cup {Nil}, ListAccounts(t, regex) PROVE AccountsStay /\ FramesStay
  BY <1>a, <1>3, ZenonT(60) DEF FramesStay, AccountsStay, ListAccounts, Frames, tables, accounts,
                              Loop, Goto
<1>4. ASSUME NEW other \in Announced, CreateChannel(t, other) PROVE AccountsStay /\ FramesStay
  <2>1. AccountsStay
    BY <1>4 DEF AccountsStay, CreateChannel, tables, accounts
  <2>2. CASE UNCHANGED frame
    BY <1>b, <2>1, <2>2
  <2>3. CASE frame' # frame
    <3>1. frame'[t].at \notin Registering
      BY <1>a, <1>4, <2>3 DEF CreateChannel, Frames, Loop, Goto
    <3>2. \A s \in Conn \ {t} : frame'[s].at = frame[s].at /\ frame'[s].uid = frame[s].uid
      BY <1>a, <1>4, <2>3 DEF CreateChannel, Frames, Loop, Goto
    <3> QED BY <2>1, <3>1, <3>2, OneFrame DEF TypeInv
  <2> QED BY <2>2, <2>3
<1>5. ASSUME NEW c \in Cid, SendMessage(t, c) PROVE AccountsStay /\ FramesStay
  <2>1. AccountsStay
    BY <1>5 DEF AccountsStay, SendMessage, tables, accounts
  <2>2. CASE UNCHANGED frame
    BY <1>b, <2>1, <2>2
  <2>3. CASE frame' # frame
    <3>1. frame'[t].at \notin Registering
      BY <1>a, <1>5, <2>3 DEF SendMessage, Frames, Loop, Goto
    <3>2. \A s \in Conn \ {t} : frame'[s].at = frame[s].at /\ frame'[s].uid = frame[s].uid
      BY <1>a, <1>5, <2>3 DEF SendMessage, Frames, Loop, Goto
    <3> QED BY <2>1, <3>1, <3>2, OneFrame DEF TypeInv
  <2> QED BY <2>2, <2>3
<1>6. ASSUME NEW m \in Mid, DeleteMessage(t, m) PROVE AccountsStay /\ FramesStay
  <2>1. AccountsStay
    BY <1>6 DEF AccountsStay, DeleteMessage, tables, accounts
  <2>2. CASE UNCHANGED frame
    BY <1>b, <2>1, <2>2
  <2>3. CASE frame' # frame
    <3>1. frame'[t].at \notin Registering
      BY <1>a, <1>6, <2>3, ZenonT(60) DEF DeleteMessage, Frames, Loop, Goto
    <3>2. \A s \in Conn \ {t} : frame'[s].at = frame[s].at /\ frame'[s].uid = frame[s].uid
      BY <1>a, <1>6, <2>3 DEF DeleteMessage, Frames, Loop, Goto
    <3> QED BY <2>1, <3>1, <3>2, OneFrame DEF TypeInv
  <2> QED BY <2>2, <2>3
<1>7. CASE Accept(t)
  BY <1>b, <1>7 DEF Accept, tables, accounts, AccountsStay
<1>8. CASE Disconnect(t)
  BY <1>a, <1>8 DEF FramesStay, AccountsStay, Disconnect, Frames, tables, accounts, Loop, Goto
<1> QED BY <1>1, <1>2, <1>3, <1>4, <1>5, <1>6, <1>7, <1>8 DEF Ask

LEMMA OtherContinues ==
    ASSUME TypeInv, NEW t \in Conn, Continue(t), ~RegisterPassword(t), ~RegisterUser(t)
    PROVE  AccountsStay /\ FramesStay
<1> USE DEF Registering
<1>a. frame \in [Conn -> Frames]
  BY DEF TypeInv, FramesOK
<1>b. UNCHANGED frame => FramesStay
  BY DEF FramesStay
<1>1. CASE LoginUser(t)
  <2>1. AccountsStay
    BY <1>1 DEF AccountsStay, LoginUser, tables, accounts
  <2>2. CASE UNCHANGED frame
    BY <1>b, <2>1, <2>2
  <2>3. CASE frame' # frame
    <3>1. frame'[t].at \notin Registering
      BY <1>a, <1>1, <2>3, ZenonT(60) DEF LoginUser, Frames, At, Loop, Goto, Advance, Done, Return,
                                        Idle
    <3>2. \A s \in Conn \ {t} : frame'[s].at = frame[s].at /\ frame'[s].uid = frame[s].uid
      BY <1>a, <1>1, <2>3 DEF LoginUser, Frames, At, Loop, Goto, Advance, Done, Return, Idle
    <3> QED BY <2>1, <3>1, <3>2, OneFrame DEF TypeInv
  <2> QED BY <2>2, <2>3
<1>2. CASE LoginChannel(t)
  <2>1. AccountsStay
    BY <1>2 DEF AccountsStay, LoginChannel, tables, accounts
  <2>2. ASSUME frame' = [frame EXCEPT ![t] = Advance(@, "channels")]
        PROVE  FramesStay
    BY <1>a, <2>2 DEF FramesStay, Frames, Advance
  <2>3. ASSUME NEW c, frame' = [frame EXCEPT ![t] =
                   Loop(Advance([@ EXCEPT !.at = "login messages", !.cid = c], "channels"),
                        "messages", logOf[c])]
        PROVE  FramesStay
    <3> DEFINE g == [frame[t] EXCEPT !.at = "login messages", !.cid = c]
               h == Advance(g, "channels")
    <3>1. g.at = "login messages" /\ "at" \in DOMAIN g
      BY <1>a DEF Frames
    <3> HIDE DEF g
    <3>2. h.at = "login messages" /\ "at" \in DOMAIN h
      BY <3>1 DEF Advance
    <3> HIDE DEF h
    <3>3. Loop(h, "messages", logOf[c]).at = "login messages"
      BY <3>2 DEF Loop
    <3>4. frame' = [frame EXCEPT ![t] = Loop(h, "messages", logOf[c])]
      BY <2>3 DEF g, h
    <3>5. frame'[t].at = "login messages"
      BY <1>a, <3>3, <3>4
    <3> QED BY <1>a, <3>4, <3>5, OneFrame DEF TypeInv
  <2> QED BY <1>2, <2>1, <2>2, <2>3 DEF LoginChannel
<1>3. CASE LoginMessage(t)
  BY <1>a, <1>3 DEF FramesStay, AccountsStay, LoginMessage, Frames, tables, accounts, At, Loop,
     Goto, Advance, Done, Return, Idle
<1>4. CASE LoginChannelReplayed(t)
  BY <1>a, <1>4 DEF FramesStay, AccountsStay, LoginChannelReplayed, Frames, tables, accounts,
     At, Loop, Goto, Advance, Done, Return, Idle
<1>5. CASE LoginFinished(t)
  BY <1>a, <1>5 DEF FramesStay, AccountsStay, LoginFinished, Frames, tables, accounts, At, Loop,
     Goto, Advance, Done, Return, Idle
<1>6. CASE ListAccount(t)
  BY <1>a, <1>6, ZenonT(60) DEF FramesStay, AccountsStay, ListAccount, Frames, tables, accounts, At, Loop,
     Goto, Advance, Done, Return, Idle
<1>7. CASE ListFinished(t)
  BY <1>a, <1>7 DEF FramesStay, AccountsStay, ListFinished, Frames, tables, accounts, At, Loop,
     Goto, Advance, Done, Return, Idle
<1>8. CASE DeleteUser(t)
  <2>1. AccountsStay
    BY <1>8 DEF AccountsStay, DeleteUser, tables, accounts
  <2>2. ASSUME Done(t) PROVE FramesStay
    BY <1>a, <2>2 DEF FramesStay, Frames, Done, Return, Idle
  <2>3. ASSUME frame' = [frame EXCEPT ![t] =
                 Loop([@ EXCEPT !.at = "delete channels"], "channels", chansOf[frame[t].uid])]
        PROVE  FramesStay
    <3>1. frame'[t].at = "delete channels"
      BY <1>a, <2>3 DEF Frames, Loop
    <3> QED BY <1>a, <2>3, <3>1, OneFrame DEF TypeInv
  <2> QED BY <1>8, <2>1, <2>2, <2>3 DEF DeleteUser
<1>9. CASE DeleteFromChannel(t)
  <2>1. AccountsStay
    BY <1>9 DEF AccountsStay, DeleteFromChannel, tables, accounts
  <2>2. ASSUME frame' = [frame EXCEPT ![t] = Advance(@, "channels")]
        PROVE  FramesStay
    BY <1>a, <2>2 DEF FramesStay, Frames, Advance
  <2>3. ASSUME NEW c, frame' = [frame EXCEPT ![t] =
                   Loop(Advance([@ EXCEPT !.at = "delete messages", !.cid = c], "channels"),
                        "messages", logOf[c])]
        PROVE  FramesStay
    <3> DEFINE g == [frame[t] EXCEPT !.at = "delete messages", !.cid = c]
               h == Advance(g, "channels")
    <3>1. g.at = "delete messages" /\ "at" \in DOMAIN g
      BY <1>a DEF Frames
    <3> HIDE DEF g
    <3>2. h.at = "delete messages" /\ "at" \in DOMAIN h
      BY <3>1 DEF Advance
    <3> HIDE DEF h
    <3>3. Loop(h, "messages", logOf[c]).at = "delete messages"
      BY <3>2 DEF Loop
    <3>4. frame' = [frame EXCEPT ![t] = Loop(h, "messages", logOf[c])]
      BY <2>3 DEF g, h
    <3>5. frame'[t].at = "delete messages"
      BY <1>a, <3>3, <3>4
    <3> QED BY <1>a, <3>4, <3>5, OneFrame DEF TypeInv
  <2> QED BY <1>9, <2>1, <2>2, <2>3 DEF DeleteFromChannel
<1>10. CASE DeleteFindMessage(t)
  <2>1. AccountsStay
    BY <1>10 DEF AccountsStay, DeleteFindMessage, tables, accounts
  <2>2. CASE UNCHANGED frame
    BY <1>b, <2>1, <2>2
  <2>3. CASE frame' # frame
    <3>1. frame'[t].at \notin Registering
      BY <1>a, <1>10, <2>3, ZenonT(60) DEF DeleteFindMessage, Frames, At, Loop, Goto, Advance, Done,
                                         Return,
         Idle
    <3>2. \A s \in Conn \ {t} : frame'[s].at = frame[s].at /\ frame'[s].uid = frame[s].uid
      BY <1>a, <1>10, <2>3 DEF DeleteFindMessage, Frames, At, Loop, Goto, Advance, Done, Return,
         Idle
    <3> QED BY <2>1, <3>1, <3>2, OneFrame DEF TypeInv
  <2> QED BY <2>2, <2>3
<1>11. CASE DeleteListedMessage(t)
  <2>1. AccountsStay
    BY <1>11 DEF AccountsStay, DeleteListedMessage, tables, accounts
  <2>2. CASE UNCHANGED frame
    BY <1>b, <2>1, <2>2
  <2>3. CASE frame' # frame
    <3>1. frame'[t].at \notin Registering
      BY <1>a, <1>11, <2>3, ZenonT(60) DEF DeleteListedMessage, Frames, At, Loop, Goto, Advance, Done,
         Return, Idle
    <3>2. \A s \in Conn \ {t} : frame'[s].at = frame[s].at /\ frame'[s].uid = frame[s].uid
      BY <1>a, <1>11, <2>3 DEF DeleteListedMessage, Frames, At, Loop, Goto, Advance, Done,
         Return, Idle
    <3> QED BY <2>1, <3>1, <3>2, OneFrame DEF TypeInv
  <2> QED BY <2>2, <2>3
<1>12. CASE DeleteNotify(t)
  BY <1>a, <1>12 DEF FramesStay, AccountsStay, DeleteNotify, Frames, tables, accounts, At, Loop,
     Goto, Advance, Done, Return, Idle, NotifyMember
<1>13. CASE DeleteChannelFinished(t)
  BY <1>a, <1>13 DEF FramesStay, AccountsStay, DeleteChannelFinished, Frames, tables, accounts,
     At, Loop, Goto, Advance, Done, Return, Idle
<1>14. CASE DeleteAccountFinished(t)
  BY <1>a, <1>14 DEF FramesStay, AccountsStay, DeleteAccountFinished, Frames, tables, accounts,
     RemoveUser, At, Loop, Goto, Advance, Done, Return, Idle
<1>15. CASE CreateMember(t)
  <2>1. AccountsStay
    BY <1>15 DEF AccountsStay, CreateMember, tables, accounts
  <2>2. ASSUME frame' = [frame EXCEPT ![t] = Advance(@, "members")]
        PROVE  FramesStay
    BY <1>a, <2>2 DEF FramesStay, Frames, Advance
  <2>3. ASSUME NEW u, NEW v,
               Pushed(t, [frame[t] EXCEPT !.at = "create announce", !.uid = u], "channels", u, v)
        PROVE  FramesStay
    <3>1. frame'[t].at = "create announce"
      BY <1>a, <2>3, ZenonT(60) DEF Frames, Pushed
    <3>2. \A s \in Conn \ {t} : frame'[s].at = frame[s].at /\ frame'[s].uid = frame[s].uid
      BY <1>a, <2>3 DEF Frames, Pushed
    <3> QED BY <3>1, <3>2, OneFrame DEF TypeInv
  <2> QED BY <1>15, <2>1, <2>2, <2>3 DEF CreateMember
<1>16. CASE CreateAnnounce(t)
  BY <1>a, <1>16, ZenonT(60) DEF FramesStay, AccountsStay, CreateAnnounce, Frames, tables, accounts,
                               At,
     Loop, Goto, Advance, Done, Return, Idle
<1>17. CASE CreateFinished(t)
  BY <1>a, <1>17 DEF FramesStay, AccountsStay, CreateFinished, Frames, tables, accounts, At,
     Loop, Goto, Advance, Done, Return, Idle
<1>18. CASE AppendMessage(t)
  <2>1. AccountsStay
    BY <1>18 DEF AccountsStay, AppendMessage, tables, accounts
  <2>2. CASE UNCHANGED frame
    BY <1>b, <2>1, <2>2
  <2>3. CASE frame' # frame
    <3>1. frame'[t].at \notin Registering
      BY <1>a, <1>18, <2>3, ZenonT(60) DEF AppendMessage, Frames, At, Loop, Goto, Advance, Done, Return,
         Idle, Pushed
    <3>2. \A s \in Conn \ {t} : frame'[s].at = frame[s].at /\ frame'[s].uid = frame[s].uid
      BY <1>a, <1>18, <2>3 DEF AppendMessage, Frames, At, Loop, Goto, Advance, Done, Return,
         Idle, Pushed
    <3> QED BY <2>1, <3>1, <3>2, OneFrame DEF TypeInv
  <2> QED BY <2>2, <2>3
<1>19. CASE SendNotify(t)
  BY <1>a, <1>19, ZenonT(60) DEF FramesStay, AccountsStay, SendNotify, Frames, tables, accounts, At,
                               Loop,
     Goto, Advance, Done, Return, Idle, NotifyMember
<1>20. CASE RemoveText(t)
  BY <1>a, <1>20, ZenonT(60) DEF FramesStay, AccountsStay, RemoveText, Frames, tables, accounts, At,
                               Loop,
     Goto, Advance, Done, Return, Idle
<1>21. CASE RemoveNotify(t)
  BY <1>a, <1>21 DEF FramesStay, AccountsStay, RemoveNotify, Frames, tables, accounts, At, Loop,
     Goto, Advance, Done, Return, Idle, NotifyMember
<1>22. CASE Unlist(t)
  BY <1>a, <1>22 DEF FramesStay, AccountsStay, Unlist, Frames, tables, accounts, At, Loop, Goto,
     Advance, Done, Return, Idle
<1>23. CASE DisconnectFinished(t)
  BY <1>a, <1>23 DEF FramesStay, AccountsStay, DisconnectFinished, Frames, tables, accounts, At,
     Loop, Goto, Advance, Done, Return, Idle
<1>24. CASE QuitThread(t)
  BY <1>a, <1>24 DEF FramesStay, AccountsStay, QuitThread, Frames, tables, accounts, At, Loop,
     Goto, Advance, Done, Return, Idle
<1>25. CASE Dispatch(t)
  BY <1>a, <1>25 DEF FramesStay, AccountsStay, Dispatch, Frames, tables, accounts, At, Loop,
     Goto, Advance, Done, Return, Idle
<1> QED BY <1>1, <1>2, <1>3, <1>4, <1>5, <1>6, <1>7, <1>8, <1>9, <1>10, <1>11, <1>12, <1>13,
   <1>14, <1>15, <1>16, <1>17, <1>18, <1>19, <1>20, <1>21, <1>22, <1>23, <1>24, <1>25 DEF
   Continue

\* While a registration is at its last step, the password of its account is there.
PasswordBefore ==
    \A t \in Conn : frame[t].at = "add user" => passwordOf[frame[t].uid] # Nil

PasswordInv == EveryAccountHasPassword /\ PasswordBefore

LEMMA PasswordStays ==
    ASSUME PasswordInv, AccountsStay, FramesStay
    PROVE  PasswordInv'
<1>1. EveryAccountHasPassword'
  BY DEF PasswordInv, EveryAccountHasPassword, AccountsStay
<1>2. PasswordBefore'
  BY DEF PasswordInv, PasswordBefore, AccountsStay, FramesStay, Registering
<1> QED BY <1>1, <1>2 DEF PasswordInv

LEMMA PasswordNext ==
    ASSUME TypeInv, PasswordInv, [Next]_vars
    PROVE  PasswordInv'
<1>a. frame \in [Conn -> Frames] /\ passwordOf \in [Uid -> Password \cup {Nil}]
  BY DEF TypeInv, FramesOK, TablesTypeOK
<1>1. ASSUME NEW t \in Conn, NEW n \in Name, NEW p \in Password, Register(t, n, p)
      PROVE  PasswordInv'
  <2>1. UNCHANGED <<passwordOf, users>>
    BY <1>1 DEF Register
  <2>2. \A s \in Conn : frame'[s].at = "add user" =>
                           frame[s].at = "add user" /\ frame'[s].uid = frame[s].uid
    <3>1. CASE UNCHANGED frame
      BY <3>1
    <3>2. ASSUME NEW u, frame' = [frame EXCEPT ![t].at = "add password", ![t].uid = u,
                                               ![t].password = p]
          PROVE  \A s \in Conn : frame'[s].at = "add user" =>
                                    frame[s].at = "add user" /\ frame'[s].uid = frame[s].uid
      BY <1>a, <3>2, ZenonT(60) DEF Frames
    <3> QED BY <1>1, <3>1, <3>2 DEF Register
  <2> QED BY <2>1, <2>2 DEF PasswordInv, EveryAccountHasPassword, PasswordBefore
<1>2. ASSUME NEW t \in Conn, RegisterPassword(t)
      PROVE  PasswordInv'
  <2>1. frame[t].uid \in Uid /\ frame[t].password # Nil
    BY <1>2, NilAssumption DEF TypeInv, FramesOK, Whole, HasUid, RegisterPassword, At
  <2>2. \A u \in Uid : passwordOf'[u] # Nil <=> (u = frame[t].uid \/ passwordOf[u] # Nil)
    BY <1>a, <1>2, <2>1 DEF RegisterPassword, AddPassword
  <2>3. \A s \in Conn : frame'[s].uid = frame[s].uid /\ (s # t => frame'[s].at = frame[s].at)
    BY <1>a, <1>2 DEF RegisterPassword, Goto, Frames
  <2>4. EveryAccountHasPassword'
    BY <1>2, <2>2 DEF PasswordInv, EveryAccountHasPassword, RegisterPassword, TypeInv, TablesTypeOK
  <2>5. ASSUME NEW s \in Conn, frame'[s].at = "add user" PROVE passwordOf'[frame'[s].uid] # Nil
    <3>1. CASE s = t
      BY <2>1, <2>2, <2>3, <3>1
    <3>2. CASE s # t
      <4>1. frame[s].at = "add user" /\ frame[s].uid \in Uid
        BY <2>3, <2>5, <3>2 DEF TypeInv, FramesOK, Whole, HasUid
      <4> QED BY <2>2, <2>3, <4>1 DEF PasswordInv, PasswordBefore
    <3> QED BY <3>1, <3>2
  <2> QED BY <2>4, <2>5 DEF PasswordInv, PasswordBefore
<1>3. ASSUME NEW t \in Conn, RegisterUser(t)
      PROVE  PasswordInv'
  <2>1. UNCHANGED passwordOf /\ users' = users \cup {frame[t].uid} /\ frame[t].at = "add user"
    BY <1>3 DEF RegisterUser, AddUser, At
  <2>2. \A s \in Conn : frame'[s].at = "add user" =>
                           frame[s].at = "add user" /\ frame'[s].uid = frame[s].uid
    BY <1>a, <1>3 DEF RegisterUser, Done, Return, Idle, Frames
  <2> QED BY <2>1, <2>2 DEF PasswordInv, EveryAccountHasPassword, PasswordBefore
<1>4. ASSUME NEW t \in Conn, Ask(t) PROVE PasswordInv'
  <2>1. CASE \A n \in Name, p \in Password : ~Register(t, n, p)
    BY <1>4, <2>1, OtherAsks, PasswordStays
  <2> QED BY <1>1, <2>1
<1>5. ASSUME NEW t \in Conn, Continue(t) PROVE PasswordInv'
  <2>1. CASE ~RegisterPassword(t) /\ ~RegisterUser(t)
    BY <1>5, <2>1, OtherContinues, PasswordStays
  <2> QED BY <1>2, <1>3, <2>1
<1>6. CASE UNCHANGED vars
  BY <1>6 DEF vars, tables, accounts, threads, PasswordInv, EveryAccountHasPassword, PasswordBefore
<1> QED BY <1>4, <1>5, <1>6 DEF Next, Rest

\* However registrations, logins and deletions interleave, and whoever registers the same name
\* at once, an account that can be found has its password: Database::add_user writes the
\* PasswordTable first and no operation takes an entry out of it.
THEOREM PasswordsKept == Spec => []EveryAccountHasPassword
<1>1. Init => PasswordInv
  <2>1. Init => \A t \in Conn : frame[t].at # "add user"
    <3> SUFFICES ASSUME Init, NEW t \in Conn PROVE frame[t].at # "add user"
      OBVIOUS
    <3>1. frame[t] = Idle
      BY DEF Init
    <3>2. Idle.at = "idle"
      BY DEF Idle
    <3> QED BY <3>1, <3>2
  <2> QED BY <2>1 DEF Init, TablesInit, PasswordInv, EveryAccountHasPassword, PasswordBefore
<1>2. TypeInv /\ PasswordInv /\ [Next]_vars => PasswordInv'
  BY PasswordNext
<1>3. PasswordInv => EveryAccountHasPassword
  BY DEF PasswordInv
<1> QED BY <1>1, <1>2, <1>3, Typed, PTL DEF Spec

-----------------------------------------------------------------------------
(* Of several clients that delete one account, one is told that it did       *)

\* The client of t was told, by its i-th packet, that it deleted u.
ToldOf(t, i, u) == out[t][i] = Packet("delete account", {u})

\* The registration of u is under way in t.
Registers(t, u) == frame[t].at \in Registering /\ frame[t].uid = u

\* Every account was made with a name, by one registration, before it was stored.
Made ==
    /\ \A u \in users : nameOf[u] # Nil
    /\ \A t \in Conn : \A u \in Uid : Registers(t, u) =>
           /\ nameOf[u] # Nil /\ u \notin users
           /\ \A s \in Conn \ {t} : ~Registers(s, u)

\* A deleted account has gone for good: it is not stored, nor will a registration store it.
GoneForGood ==
    \A t \in Conn : \A i \in 1..Len(out[t]) : \A u \in Uid : ToldOf(t, i, u) =>
        /\ nameOf[u] # Nil /\ u \notin users
        /\ \A s \in Conn : ~Registers(s, u)

ToldOnce ==
    \A s, t \in Conn : \A i \in 1..Len(out[s]), j \in 1..Len(out[t]) : \A u \in Uid :
        ToldOf(s, i, u) /\ ToldOf(t, j, u) => s = t /\ i = j

DeleterInv == Made /\ GoneForGood /\ ToldOnce

-----------------------------------------------------------------------------
(* What is told                                                             *)

\* No client is told of a deletion by this step.
NoneTold(t) ==
    \/ UNCHANGED out
    \/ \E packet : Write(t, packet) /\ (packet.kind = "delete account" => packet.ids = {})

LEMMA Tells ==
    ASSUME NEW t \in Conn, NEW k, NEW ids, Write(t, Packet(k, ids)),
           k # "delete account" \/ ids = {}
    PROVE  NoneTold(t)
<1> DEFINE packet == Packet(k, ids)
<1>1. packet.kind = k /\ packet.ids = ids
  BY DEF Packet
<1>2. Write(t, packet)
  OBVIOUS
<1> HIDE DEF packet
<1> QED BY <1>1, <1>2 DEF NoneTold

LEMMA AppendParts ==
    ASSUME TypeInv, NEW t \in Conn, NEW packet, Write(t, packet)
    PROVE  /\ \A s \in Conn \ {t} : out'[s] = out[s]
           /\ Len(out[t]) \in Nat /\ Len(out'[t]) = Len(out[t]) + 1
           /\ \A i \in 1..Len(out[t]) : out'[t][i] = out[t][i]
           /\ out'[t][Len(out[t]) + 1] = packet
<1>1. out \in [Conn -> Seq(Packets)] /\ out[t] \in Seq(Packets)
  BY DEF TypeInv, WiresOK
<1>2. out'[t] = Append(out[t], packet) /\ \A s \in Conn \ {t} : out'[s] = out[s]
  BY <1>1 DEF Write
<1> QED BY <1>1, <1>2

LEMMA ToldBefore ==
    ASSUME TypeInv, NEW t \in Conn, NoneTold(t),
           NEW s \in Conn, NEW i \in 1..Len(out'[s]), NEW u \in Uid, ToldOf(s, i, u)'
    PROVE  i \in 1..Len(out[s]) /\ ToldOf(s, i, u)
<1>1. CASE UNCHANGED out
  BY <1>1 DEF ToldOf
<1>2. ASSUME NEW packet, Write(t, packet), packet.kind = "delete account" => packet.ids = {}
      PROVE  i \in 1..Len(out[s]) /\ ToldOf(s, i, u)
  <2>a. /\ \A r \in Conn \ {t} : out'[r] = out[r]
        /\ Len(out[t]) \in Nat /\ Len(out'[t]) = Len(out[t]) + 1
        /\ \A j \in 1..Len(out[t]) : out'[t][j] = out[t][j]
        /\ out'[t][Len(out[t]) + 1] = packet
    BY <1>2, AppendParts
  <2>1. ASSUME packet = Packet("delete account", {u}) PROVE FALSE
    <3>1. packet.kind = "delete account" /\ packet.ids = {u}
      BY <2>1 DEF Packet
    <3> QED BY <1>2, <3>1
  <2>2. CASE s = t
    <3>1. i # Len(out[t]) + 1
      BY <2>a, <2>1, <2>2 DEF ToldOf
    <3>2. i \in 1..Len(out[t])
      BY <2>a, <2>2, <3>1
    <3> QED BY <2>a, <2>2, <3>2 DEF ToldOf
  <2>3. CASE s # t
    BY <2>a, <2>3 DEF ToldOf
  <2> QED BY <2>2, <2>3
<1> QED BY <1>1, <1>2 DEF NoneTold

LEMMA NoneToldKeeps ==
    ASSUME TypeInv, DeleterInv, NEW t \in Conn, NoneTold(t), AccountsStay, FramesStay
    PROVE  DeleterInv'
<1>1. \A s \in Conn : \A u \in Uid : Registers(s, u)' => Registers(s, u)
  BY DEF Registers, FramesStay
<1>2. UNCHANGED nameOf /\ users' \subseteq users
  BY DEF AccountsStay
<1>3. Made'
  BY <1>1, <1>2 DEF DeleterInv, Made
<1>4. GoneForGood'
  BY <1>1, <1>2, ToldBefore DEF DeleterInv, GoneForGood
<1>5. ToldOnce'
  BY ToldBefore DEF DeleterInv, ToldOnce
<1> QED BY <1>3, <1>4, <1>5 DEF DeleterInv

LEMMA EmitTells ==
    ASSUME TypeInv, NEW t \in Conn, NEW u, NEW packet, packet.kind # "delete account",
           Emit(t, u, packet)
    PROVE  NoneTold(t)
<1>1. CASE auth[t] = u
  BY <1>1 DEF Emit, Write, NoneTold
<1>2. CASE auth[t] # u
  <2>1. out' = out
    BY <1>2 DEF Emit, TypeInv, WiresOK
  <2> QED BY <2>1 DEF NoneTold
<1> QED BY <1>1, <1>2

LEMMA NotifyTells ==
    ASSUME TypeInv, NEW t \in Conn, NEW packet, packet.kind # "delete account",
           NotifyMember(t, packet)
    PROVE  NoneTold(t)
<1> DEFINE u == membersOf[frame[t].cid].cells[frame[t].pos["members"]]
<1>1. CASE u \in users
  BY <1>1, EmitTells DEF NotifyMember
<1>2. CASE u \notin users
  BY <1>2 DEF NotifyMember, NoneTold
<1> QED BY <1>1, <1>2

-----------------------------------------------------------------------------
(* The steps                                                                *)

LEMMA AskTells == ASSUME NEW t \in Conn, Ask(t) PROVE NoneTold(t)
<1>1. ASSUME NEW n \in Name, NEW p \in Password, Register(t, n, p) PROVE NoneTold(t)
  BY <1>1, Tells DEF Register, NoneTold
<1>2. ASSUME NEW n \in Name, NEW p \in Password, Login(t, n, p) PROVE NoneTold(t)
  BY <1>2, Tells DEF Login, NoneTold
<1>3. ASSUME NEW n \in Name, NEW p \in Password, DeleteAccount(t, n, p) PROVE NoneTold(t)
  BY <1>3, Tells DEF DeleteAccount, NoneTold
<1>4. ASSUME NEW regex, ListAccounts(t, regex) PROVE NoneTold(t)
  BY <1>4, Tells DEF ListAccounts, NoneTold
<1>5. ASSUME NEW other, CreateChannel(t, other) PROVE NoneTold(t)
  BY <1>5 DEF CreateChannel, NoneTold
<1>6. ASSUME NEW c, SendMessage(t, c) PROVE NoneTold(t)
  BY <1>6 DEF SendMessage, NoneTold
<1>7. ASSUME NEW m, DeleteMessage(t, m) PROVE NoneTold(t)
  BY <1>7 DEF DeleteMessage, NoneTold
<1>8. CASE Accept(t) \/ Disconnect(t)
  BY <1>8 DEF Accept, Disconnect, NoneTold
<1> QED BY <1>1, <1>2, <1>3, <1>4, <1>5, <1>6, <1>7, <1>8 DEF Ask

LEMMA ContinueTells ==
    ASSUME TypeInv, NEW t \in Conn, Continue(t), ~DeleteAccountFinished(t)
    PROVE  NoneTold(t)
<1>1. CASE RegisterUser(t)
  BY <1>1, Tells DEF RegisterUser, NoneTold
<1>2. CASE LoginUser(t)
  BY <1>2, Tells DEF LoginUser, NoneTold
<1>3. CASE LoginChannel(t)
  BY <1>3, Tells DEF LoginChannel, NoneTold
<1>4. CASE LoginMessage(t)
  BY <1>4, Tells DEF LoginMessage, NoneTold
<1>5. CASE ListFinished(t)
  BY <1>5, Tells DEF ListFinished, NoneTold
<1>6. CASE DeleteUser(t)
  BY <1>6, Tells DEF DeleteUser, NoneTold
<1>7. CASE CreateAnnounce(t)
  <2>1. Packet("channel", {frame[t].cid}).kind # "delete account"
    BY DEF Packet
  <2> QED BY <1>7, <2>1, EmitTells DEF CreateAnnounce
<1>8. CASE SendNotify(t)
  <2>1. CASE UNCHANGED out
    BY <2>1 DEF NoneTold
  <2> QED BY <1>8, <2>1, NotifyTells DEF SendNotify, Packet
<1>9. CASE RemoveNotify(t)
  <2>1. CASE UNCHANGED out
    BY <2>1 DEF NoneTold
  <2> QED BY <1>9, <2>1, NotifyTells DEF RemoveNotify, Packet
<1>10. CASE DeleteNotify(t)
  <2>1. CASE UNCHANGED out
    BY <2>1 DEF NoneTold
  <2> QED BY <1>10, <2>1, NotifyTells DEF DeleteNotify, Packet
<1>11. CASE Dispatch(t)
  <2>1. CASE UNCHANGED out
    BY <2>1 DEF NoneTold
  <2>2. CASE out' # out
    <3>1. Write(t, Head(queue[t])) /\ Head(queue[t]).kind # "delete account"
      BY <1>11, <2>2 DEF Dispatch
    <3> QED BY <3>1 DEF NoneTold
  <2> QED BY <2>1, <2>2
<1>12. RegisterPassword(t) \/ LoginChannelReplayed(t) \/ LoginFinished(t) \/ ListAccount(t)
         \/ DeleteFromChannel(t) \/ DeleteFindMessage(t) \/ DeleteListedMessage(t)
         \/ DeleteChannelFinished(t) \/ CreateMember(t) \/ CreateFinished(t) \/ AppendMessage(t)
         \/ RemoveText(t) \/ Unlist(t) \/ DisconnectFinished(t) \/ QuitThread(t)
       => NoneTold(t)
  BY DEF NoneTold, RegisterPassword, LoginChannelReplayed, LoginFinished, ListAccount,
     DeleteFromChannel, DeleteFindMessage, DeleteListedMessage, DeleteChannelFinished,
     CreateMember, CreateFinished, AppendMessage, RemoveText, Unlist, DisconnectFinished,
     QuitThread
<1> QED BY <1>1, <1>2, <1>3, <1>4, <1>5, <1>6, <1>7, <1>8, <1>9, <1>10, <1>11, <1>12 DEF Continue

\* The identifier of a new account was never used.
LEMMA RegisterDeletes ==
    ASSUME TypeInv, DeleterInv, NEW t \in Conn, NEW n \in Name, NEW p \in Password,
           Register(t, n, p)
    PROVE  DeleterInv'
<1>1. frame \in [Conn -> Frames] /\ nameOf \in [Uid -> Name \cup {Nil}] /\ n # Nil
      /\ users \subseteq Uid
  BY NilAssumption DEF TypeInv, FramesOK, TablesTypeOK
<1>2. NoneTold(t)
  BY AskTells DEF Ask
<1>3. CASE UNCHANGED <<nameOf, frame, users>>
  <2>1. AccountsStay /\ FramesStay
    BY <1>3 DEF Register, AccountsStay, FramesStay
  <2> QED BY <1>2, <2>1, NoneToldKeeps
<1>4. ASSUME NEW v \in FreeUids, MakeUser(v, n),
             frame' = [frame EXCEPT ![t].at = "add password", ![t].uid = v, ![t].password = p]
      PROVE  DeleterInv'
  <2>1. v \in Uid /\ nameOf[v] = Nil
    BY DEF FreeUids
  <2>2. nameOf'[v] = n /\ \A u \in Uid \ {v} : nameOf'[u] = nameOf[u]
    BY <1>1, <1>4, <2>1 DEF MakeUser
  <2>3. UNCHANGED users
    BY DEF Register
  <2>4. frame'[t].uid = v /\ \A s \in Conn \ {t} : frame'[s] = frame[s]
    BY <1>1, <1>4 DEF Frames
  <2>5. \A s \in Conn : \A u \in Uid : Registers(s, u)' => (s = t /\ u = v) \/ (s # t /\ Registers(s, u))
    BY <2>4 DEF Registers
  <2>6. Made'
    BY <1>1, <2>1, <2>2, <2>3, <2>5 DEF DeleterInv, Made
  <2>7. GoneForGood'
    BY <1>1, <1>2, <2>1, <2>2, <2>3, <2>5, ToldBefore DEF DeleterInv, GoneForGood
  <2>8. ToldOnce'
    BY <1>2, ToldBefore DEF DeleterInv, ToldOnce
  <2> QED BY <2>6, <2>7, <2>8 DEF DeleterInv
<1>5. CASE WithName(n) = {} /\ FreeUids # {}
  <2>1. Fresh(FreeUids) \in FreeUids
    BY <1>5 DEF Fresh
  <2>2. MakeUser(Fresh(FreeUids), n)
        /\ frame' = [frame EXCEPT ![t].at = "add password", ![t].uid = Fresh(FreeUids),
                                  ![t].password = p]
    BY <1>5 DEF Register
  <2> QED BY <1>4, <2>1, <2>2
<1> QED BY <1>3, <1>5 DEF Register

LEMMA RegisterPasswordDeletes ==
    ASSUME TypeInv, DeleterInv, NEW t \in Conn, RegisterPassword(t)
    PROVE  DeleterInv'
<1>1. frame \in [Conn -> Frames]
  BY DEF TypeInv, FramesOK
<1>2. NoneTold(t)
  BY DEF RegisterPassword, NoneTold
<1>3. \A s \in Conn : \A u \in Uid : Registers(s, u)' => Registers(s, u)
  BY <1>1 DEF Registers, Registering, RegisterPassword, At, Goto, Frames
<1>4. UNCHANGED <<nameOf, users>>
  BY DEF RegisterPassword
<1>5. Made'
  BY <1>3, <1>4 DEF DeleterInv, Made
<1>6. GoneForGood'
  BY <1>2, <1>3, <1>4, ToldBefore DEF DeleterInv, GoneForGood
<1>7. ToldOnce'
  BY <1>2, ToldBefore DEF DeleterInv, ToldOnce
<1> QED BY <1>5, <1>6, <1>7 DEF DeleterInv

\* Nobody else registers what is stored here.
LEMMA RegisterUserDeletes ==
    ASSUME TypeInv, DeleterInv, NEW t \in Conn, RegisterUser(t)
    PROVE  DeleterInv'
<1> DEFINE v == frame[t].uid
<1>1. frame \in [Conn -> Frames] /\ v \in Uid /\ Registers(t, v)
  BY DEF TypeInv, FramesOK, Whole, HasUid, RegisterUser, At, Registers, Registering
<1>2. NoneTold(t)
  BY Tells DEF RegisterUser, NoneTold
<1>3. users' = users \cup {v} /\ UNCHANGED nameOf
  BY DEF RegisterUser, AddUser
<1>4. \A s \in Conn : \A u \in Uid : Registers(s, u)' => Registers(s, u) /\ s # t
  BY <1>1 DEF Registers, Registering, RegisterUser, Done, Return, Idle
<1> HIDE DEF v
<1>5. Made'
  BY <1>1, <1>3, <1>4 DEF DeleterInv, Made
<1>6. GoneForGood'
  BY <1>1, <1>2, <1>3, <1>4, ToldBefore DEF DeleterInv, GoneForGood
<1>7. ToldOnce'
  BY <1>2, ToldBefore DEF DeleterInv, ToldOnce
<1> QED BY <1>5, <1>6, <1>7 DEF DeleterInv

\* Who finds the account in the table takes it out and is told, in one step.
LEMMA DeleteAccountFinishedDeletes ==
    ASSUME TypeInv, DeleterInv, NEW t \in Conn, DeleteAccountFinished(t)
    PROVE  DeleterInv'
<1> DEFINE v == frame[t].uid
           packet == Packet("delete account", {v} \cap users)
<1>1. AccountsStay /\ FramesStay
  <2>1. Continue(t) /\ ~RegisterPassword(t) /\ ~RegisterUser(t)
    BY DEF Continue, DeleteAccountFinished, RegisterPassword, RegisterUser, At
  <2> QED BY <2>1, OtherContinues
<1>2. Write(t, packet) /\ users' = users \ {v} /\ UNCHANGED nameOf
  BY DEF DeleteAccountFinished, RemoveUser
<1>3. CASE v \notin users
  <2>1. {v} \cap users = {}
    BY <1>3
  <2>2. NoneTold(t)
    BY <1>2, <2>1, Tells
  <2> QED BY <1>1, <2>2, NoneToldKeeps
<1>4. CASE v \in users
  <2>1. packet = Packet("delete account", {v}) /\ v \in Uid
    <3>1. {v} \cap users = {v}
      BY <1>4
    <3> QED BY <1>4, <3>1 DEF TypeInv, TablesTypeOK
  <2>2. \A s \in Conn : \A u \in Uid : Registers(s, u)' => Registers(s, u)
    BY <1>1 DEF Registers, FramesStay
  <2>3. \A u \in Uid : packet = Packet("delete account", {u}) => u = v
    <3>1. ASSUME NEW u \in Uid, packet = Packet("delete account", {u}) PROVE u = v
      <4>1. packet.ids = {u} /\ packet.ids = {v}
        BY <2>1, <3>1 DEF Packet
      <4> QED BY <4>1
    <3> QED BY <3>1
  <2> HIDE DEF packet
  <2>4. nameOf[v] # Nil /\ \A s \in Conn : ~Registers(s, v)
    BY <1>4, <2>1 DEF DeleterInv, Made
  <2> HIDE DEF v
  <2>5. ASSUME NEW s \in Conn, NEW i \in 1..Len(out'[s]), NEW u \in Uid, ToldOf(s, i, u)'
        PROVE  \/ s = t /\ i = Len(out[t]) + 1 /\ u = v
               \/ i \in 1..Len(out[s]) /\ ToldOf(s, i, u) /\ u # v
    <3>1. CASE s = t /\ i = Len(out[t]) + 1
      BY <1>2, <2>3, <2>5, <3>1, AppendParts DEF ToldOf
    <3>2. CASE ~(s = t /\ i = Len(out[t]) + 1)
      <4>1. i \in 1..Len(out[s]) /\ ToldOf(s, i, u)
        <5>a. /\ \A r \in Conn \ {t} : out'[r] = out[r]
              /\ Len(out[t]) \in Nat /\ Len(out'[t]) = Len(out[t]) + 1
              /\ \A j \in 1..Len(out[t]) : out'[t][j] = out[t][j]
          BY <1>2, AppendParts
        <5>1. CASE s = t
          <6>1. i \in 1..(Len(out[t]) + 1) /\ i # Len(out[t]) + 1
            BY <2>5, <3>2, <5>a, <5>1
          <6>2. i \in 1..Len(out[t])
            BY <5>a, <6>1
          <6> QED BY <2>5, <5>a, <5>1, <6>2 DEF ToldOf
        <5>2. CASE s # t
          BY <2>5, <5>a, <5>2 DEF ToldOf
        <5> QED BY <5>1, <5>2
      <4>2. u \notin users
        BY <4>1 DEF DeleterInv, GoneForGood
      <4> QED BY <1>4, <4>1, <4>2
    <3> QED BY <3>1, <3>2
  <2>6. Made'
    BY <1>2, <2>2 DEF DeleterInv, Made
  <2>7. GoneForGood'
    BY <1>2, <2>2, <2>4, <2>5 DEF DeleterInv, GoneForGood
  <2>8. ToldOnce'
    BY <2>5 DEF DeleterInv, ToldOnce
  <2> QED BY <2>6, <2>7, <2>8 DEF DeleterInv
<1> QED BY <1>3, <1>4

-----------------------------------------------------------------------------
(* The theorem                                                              *)

LEMMA DeleterInit == Init => DeleterInv
<1> SUFFICES ASSUME Init PROVE DeleterInv
  OBVIOUS
<1>1. \A t \in Conn : frame[t].at = "idle" /\ out[t] = <<>>
  BY DEF Init, Idle
<1>2. users = {}
  BY DEF Init, TablesInit
<1>3. Made
  BY <1>1, <1>2 DEF Made, Registers, Registering
<1>4. GoneForGood /\ ToldOnce
  <2>1. \A t \in Conn : 1..Len(out[t]) = {}
    BY <1>1
  <2> QED BY <2>1 DEF GoneForGood, ToldOnce
<1> QED BY <1>3, <1>4 DEF DeleterInv

LEMMA DeleterNext ==
    ASSUME TypeInv, DeleterInv, [Next]_vars
    PROVE  DeleterInv'
<1>1. ASSUME NEW t \in Conn, Ask(t) PROVE DeleterInv'
  <2>1. CASE \A n \in Name, p \in Password : ~Register(t, n, p)
    BY <1>1, <2>1, AskTells, OtherAsks, NoneToldKeeps
  <2> QED BY <2>1, RegisterDeletes
<1>2. ASSUME NEW t \in Conn, Continue(t) PROVE DeleterInv'
  <2>1. CASE ~RegisterPassword(t) /\ ~RegisterUser(t) /\ ~DeleteAccountFinished(t)
    BY <1>2, <2>1, ContinueTells, OtherContinues, NoneToldKeeps
  <2> QED BY <2>1, RegisterPasswordDeletes, RegisterUserDeletes, DeleteAccountFinishedDeletes
<1>3. CASE UNCHANGED vars
  <2>1. UNCHANGED <<nameOf, users, frame, out>>
    BY <1>3 DEF vars, tables, accounts, threads
  <2>2. Made'
    BY <2>1 DEF DeleterInv, Made, Registers
  <2>3. GoneForGood'
    BY <2>1 DEF DeleterInv, GoneForGood, Registers, ToldOf
  <2>4. ToldOnce'
    <3>1. ToldOnce' <=> ToldOnce
      BY <2>1 DEF ToldOnce, ToldOf
    <3> QED BY <3>1 DEF DeleterInv
  <2> QED BY <2>2, <2>3, <2>4 DEF DeleterInv
<1> QED BY <1>1, <1>2, <1>3 DEF Next, Rest

\* Any number of clients may be deleting the same account, each past the test of its password:
\* at most one of them is told that it deleted it, and from then on it is stored no more, also
\* where its name is registered again. UserTable::remove_user erases and looks in one critical
\* section, and an identifier is given out once.
THEOREM OneDeleter == Spec => []OneDeleterWins
<1>1. TypeInv /\ DeleterInv /\ [Next]_vars => DeleterInv'
  BY DeleterNext
<1>2. DeleterInv => OneDeleterWins
  <2> SUFFICES ASSUME DeleterInv, NEW s \in Conn, NEW t \in Conn, NEW i \in 1..Len(out[s]),
                      NEW j \in 1..Len(out[t]), NEW u \in Uid,
                      out[s][i] = Packet("delete account", {u}) /\ out[t][j] = out[s][i]
               PROVE  u \notin users /\ s = t /\ i = j
    BY DEF OneDeleterWins
  <2>1. ToldOf(s, i, u) /\ ToldOf(t, j, u)
    BY DEF ToldOf
  <2> QED BY <2>1 DEF DeleterInv, GoneForGood, ToldOnce
<1> QED BY <1>1, <1>2, DeleterInit, Typed, PTL DEF Spec
=============================================================================
