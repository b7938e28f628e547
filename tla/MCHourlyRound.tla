---------------------------- MODULE MCHourlyRound -----------------------------
(* Instances of HourlyRound for TLC. *)
EXTENDS HourlyRound, TLC

CONSTANTS u1, u2, v1, p1

MCProductOf == v1 :> p1
=============================================================================
