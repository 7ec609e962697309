---------------------------- MODULE MCPayments ----------------------------
(* Instances of Payments for TLC. *)
EXTENDS Payments, TLC

CONSTANTS q1, q2, k1, k2

Symmetric == Permutations(Requests) \union Permutations(Refunders)
=============================================================================
