------------------------------ MODULE MCTickets ------------------------------
(* Instances of Tickets for TLC. *)
EXTENDS Tickets, TLC
=============================================================================
