---------------------------- MODULE MCBackInStock ----------------------------
(* Instances of BackInStock for TLC. *)
EXTENDS BackInStock, TLC

CONSTANTS u1, u2, v1, v2, p1, p2

\* One variety per product, or two varieties of the same product.
MCProductOf == (v1 :> p1) @@ (v2 :> p2)
MCOneVariety == v1 :> p1

Symmetry == Permutations(User)
=============================================================================
