------------------------------- MODULE Orders -------------------------------
(***************************************************************************)
(* Finite sets put into a strict total order, a set of pairs: what a loop  *)
(* that goes through the elements in that order, or a sort, produces.      *)
(***************************************************************************)
EXTENDS Integers, Sequences, FiniteSets

(* How many elements of S precede x. *)
Rank(S, order, x) == Cardinality({y \in S : <<y, x>> \in order})

(* The elements of S, the n-th being the one that n - 1 others precede. *)
Ranking(S, order) ==
    [n \in 1 .. Cardinality(S) |-> CHOOSE x \in S : Rank(S, order, x) = n - 1]

IsStrictTotalOrder(S, order) ==
    /\ \A x \in S : <<x, x>> \notin order
    /\ \A x, y, z \in S : <<x, y>> \in order /\ <<y, z>> \in order => <<x, z>> \in order
    /\ \A x, y \in S : x = y \/ <<x, y>> \in order \/ <<y, x>> \in order

(* The sequence f has every element of S, in that order. *)
Enumerates(f, S, order) ==
    /\ f \in Seq(S)
    /\ \A x \in S : \E n \in 1 .. Len(f) : f[n] = x
    /\ \A a, b \in 1 .. Len(f) : a < b => <<f[a], f[b]>> \in order

(* U cut in two: every element of S comes before every element of T. *)
IsCut(U, S, T, order) ==
    /\ U = S \cup T
    /\ \A x \in S, y \in T : <<x, y>> \in order

(* Numbers by size, ... *)
LessThan == {p \in Int \X Int : p[1] < p[2]}

Ascending(S) == Ranking(S, LessThan)

(* ... and the elements of a sequence at the places in S, in their order. *)
Picked(seq, S) ==
    LET places == Ascending(S) IN [n \in 1 .. Cardinality(S) |-> seq[places[n]]]

(* Pairs by their first component and then by their second. *)
PairBefore(p, q) == p[1] < q[1] \/ (p[1] = q[1] /\ p[2] < q[2])

LexicalOrder == {p \in (Int \X Int) \X (Int \X Int) : PairBefore(p[1], p[2])}
=============================================================================
