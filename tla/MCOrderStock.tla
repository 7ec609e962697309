---------------------------- MODULE MCOrderStock ----------------------------
(* Instances of OrderStock for TLC: two variants of one product, one cart  *)
(* that takes both and one that competes for the first.                    *)
EXTENDS OrderStock, TLC

CONSTANTS v1, v2, p1, c1, c2, o1, o2, s1, s2, s3

TwoVariants == {v1, v2}
MCProductOf == (v1 :> p1) @@ (v2 :> p1)
MCCartItems ==
    (c1 :> ((v1 :> 1) @@ (v2 :> 1))) @@ (c2 :> ((v1 :> 2) @@ (v2 :> 0)))
MCOneCart == (c1 :> ((v1 :> 1) @@ (v2 :> 1)))
MCInitStock == (v1 :> 2) @@ (v2 :> 1)
MCInitMore  == (v1 :> 3) @@ (v2 :> 1)

Symmetric == Permutations(Sessions) \union Permutations(Orders)
=============================================================================
