----------------------------- MODULE MCPhoneCodes -----------------------------
(* Instances of PhoneCodes for TLC. *)
EXTENDS PhoneCodes, TLC

CONSTANTS u1, u2, p1, p2

MCOwnPhone == u1 :> p1 @@ u2 :> p2

SlotSymmetry == Permutations(Slot)
=============================================================================
