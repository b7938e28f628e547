------------------------------ MODULE MCCheckout ------------------------------
(* Instances of Checkout for TLC. *)
EXTENDS Checkout, TLC

SlotSymmetry == Permutations(Tab) \cup Permutations(Stamp)

===============================================================================
