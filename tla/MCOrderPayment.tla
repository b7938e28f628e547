---------------------------- MODULE MCOrderPayment ----------------------------
(* Instances of OrderPayment for TLC. *)
EXTENDS OrderPayment, TLC

Symmetry == Permutations(Slot) \cup Permutations(Receipt) \cup Permutations(Payment)
=============================================================================
