-------------------------------- MODULE Vector --------------------------------
(***************************************************************************)
(* std::vector as a range-for without a lock sees it.                        *)
(*                                                                          *)
(* Channel::get_user_uids, Channel::get_message_snowflakes and              *)
(* User::get_channels lock only to return a reference; the loops in          *)
(* src/bin/server/db/database.cpp then walk the live buffer.  The loop takes *)
(* begin() and end() once, so what it reads at a position is whatever the    *)
(* buffer holds there by then, even past size().  A vector is therefore the  *)
(* cells written so far and the number of them that are live.                *)
(***************************************************************************)
EXTENDS Integers, Sequences, FiniteSets

Vectors(S) == {v \in [cells : Seq(S), len : Nat] : v.len <= Len(v.cells)}

VectorOf(s) == [cells |-> s, len |-> Len(s)]

\* The elements, as size() delimits them.
Live(v) == {v.cells[i] : i \in 1..v.len}

\* Mutation: the length is counted, the element is not stored.
PushNothing(v, x) == [v EXCEPT !.len = @ + 1]

\* push_back.  A full buffer may have to move: CanMove says when.
Push(v, x) ==
    [cells |-> IF v.len < Len(v.cells)
               THEN [v.cells EXCEPT ![v.len + 1] = x]
               ELSE Append(v.cells, x),
     len   |-> v.len + 1]

CanMove(v) == v.len = Len(v.cells)

\* Mutation: the predicate of remove_if is inverted.
KeptOnly(v, x) == {i \in 1..v.len : v.cells[i] = x}

\* erase(remove_if(...)): the elements kept move to the front in order; the cells behind
\* them are not written.
Kept(v, x) == {i \in 1..v.len : v.cells[i] # x}

Rank(K, i) == Cardinality({k \in K : k <= i})

Erase(v, x) ==
    LET K == Kept(v, x)
    IN  [cells |-> [j \in 1..Len(v.cells) |->
                       IF \E i \in K : Rank(K, i) = j
                       THEN v.cells[CHOOSE i \in K : Rank(K, i) = j]
                       ELSE v.cells[j]],
         len   |-> Cardinality(K)]
=============================================================================
