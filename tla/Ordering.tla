------------------------------- MODULE Ordering -------------------------------
(***************************************************************************)
(* What ORDER BY and sorted() make of a finite set of ids.                   *)
(***************************************************************************)
EXTENDS Integers, FiniteSets

(* How many members come before n.                                             *)
Place(S, n) == Cardinality({m \in S : m < n})

Ascending(S) == [k \in 1..Cardinality(S) |-> CHOOSE n \in S : Place(S, n) = k - 1]
===============================================================================
