----------------------------- MODULE Quantities -----------------------------
(***************************************************************************)
(* Sums over sets of rows, as the code's loops over order items and its    *)
(* SQL aggregates compute them.  A sum is the number of its units: x       *)
(* contributes the pairs <<x, 1>> .. <<x, q[x]>>.  Stated this way it is a *)
(* cardinality, about which the library has theorems.                      *)
(***************************************************************************)
EXTENDS Naturals, FiniteSets

Units(q, S) == UNION {{x} \X (1..q[x]) : x \in S}

Total(q, S) == Cardinality(Units(q, S))
=============================================================================
