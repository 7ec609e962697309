------------------------------ MODULE Sorting ------------------------------
(***************************************************************************)
(* What the code's loops over a list and its sorted() calls visit, in the  *)
(* order in which they visit it: a finite set of numbers in ascending      *)
(* order.  There is exactly one such sequence; it is stated as the set     *)
(* that has it as its only element, since the sort of the community        *)
(* modules is recursive and out of the provers' reach.                     *)
(***************************************************************************)
EXTENDS Naturals, FiniteSets

Sorted(S) == {q \in [1..Cardinality(S) -> S] :
                 \A i, j \in DOMAIN q : i < j => q[i] < q[j]}
=============================================================================
