--------------------------- MODULE AlertLifecycle ---------------------------
(***************************************************************************)
(* What the back-in-stock subsystem promises about one subscription, with  *)
(* no job, no transaction and no crash in sight: a customer asks once, is  *)
(* told (perhaps more than once) while the request is alive, and only a    *)
(* request whose customer was told is filed as answered.  A request that   *)
(* was answered or withdrawn never waits again.                            *)
(***************************************************************************)
CONSTANT Key

VARIABLES phase,   \* where each request stands
          told     \* requests whose customer has been sent a message

vars == <<phase, told>>

Phase == {"none", "waiting", "answered", "withdrawn"}

Init == /\ phase = [k \in Key |-> "none"]
        /\ told = {}

Ask(k) == /\ phase[k] = "none"
          /\ phase' = [phase EXCEPT ![k] = "waiting"]
          /\ UNCHANGED told

Withdraw(k) == /\ phase[k] \in {"waiting", "answered"}
               /\ phase' = [phase EXCEPT ![k] = "withdrawn"]
               /\ UNCHANGED told

\* Messages go out for requests that were asked for at some time; the ones
\* in Filed are at the same step recorded as answered.
Tell(Sent, Filed) ==
    /\ \A k \in Sent : phase[k] # "none"
    /\ Filed \subseteq told \cup Sent
    /\ told' = told \cup Sent
    /\ phase' = [k \in Key |-> IF k \in Filed /\ phase[k] = "waiting"
                               THEN "answered" ELSE phase[k]]

Next == \/ \E k \in Key : Ask(k) \/ Withdraw(k)
        \/ \E Sent, Filed \in SUBSET Key : Tell(Sent, Filed)

Spec == Init /\ [][Next]_vars
=============================================================================
