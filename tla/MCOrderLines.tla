----------------------------- MODULE MCOrderLines -----------------------------
(* Instances of OrderLines for TLC. *)
EXTENDS OrderLines, TLC

Symmetry == Permutations(Slot) \cup Permutations(Line)
               \cup Permutations(Item \ Bare)
=============================================================================
