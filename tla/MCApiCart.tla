------------------------------ MODULE MCApiCart -------------------------------
(* Instances of ApiCart for TLC. *)
EXTENDS ApiCart, TLC

Symmetry == Permutations(Slot) \cup Permutations(Item)
=============================================================================
