------------------------------ MODULE Ordering ------------------------------
(* ORDER BY: a finite set of numbers as a sequence. *)
EXTENDS Integers, FiniteSets

\* How many members are less than x.
Rank(S, x) == Cardinality({y \in S : y < x})

\* The members of S, least first.
Ascending(S) == [i \in 1 .. Cardinality(S) |-> CHOOSE x \in S : Rank(S, x) = i - 1]
=============================================================================
