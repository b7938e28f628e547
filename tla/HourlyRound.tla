----------------------------- MODULE HourlyRound ------------------------------
(***************************************************************************)
(* The hourly round of the background task: stale tickets are closed and   *)
(* committed, then the back-in-stock alerts are sent and committed, on one *)
(* database session.  An error in either part rolls back what that part    *)
(* has not committed and ends the round; the task survives it and begins   *)
(* another one an hour later.                                              *)
(*                                                                         *)
(* The module composes the two jobs, which know nothing of each other, by  *)
(* the round they share: BackInStock is extended, Tickets instantiated.    *)
(***************************************************************************)
EXTENDS BackInStock

CONSTANTS Ticket, Slot,
          MaxClosingsCut   \* bound: closings that may be cut short

ASSUME ClosingsCutType == MaxClosingsCut \in Nat

VARIABLES
    round,                              \* which part of the round is running
    status, lastBy, idle, req,          \* the tickets and their requests
    closing, contended, closingsCut     \* the closing of stale tickets

ticketVars == <<status, lastBy, idle, req, closing, contended, closingsCut>>
allVars == <<vars, ticketVars, round>>

T == INSTANCE Tickets WITH job <- closing, interruptions <- closingsCut,
                           MaxInterruptions <- MaxClosingsCut

Part == {"asleep", "closing", "alerting"}

\* The parts share a session: what one has not committed is gone before the
\* other begins.
RoundTypeOK == /\ TypeOK
               /\ T!TypeOK
               /\ round \in Part
               /\ job # Idle => round = "alerting"
               /\ closing # T!Asleep => round = "closing"

RoundInit == Init /\ T!Init /\ round = "asleep"

Goto(from, to) == round = from /\ round' = to

-----------------------------------------------------------------------------
\* Mutant: the task ends with the first error.
HourPassesUntilError ==
    /\ closingsCut + interruptions = 0
    /\ Goto("asleep", "closing")
    /\ UNCHANGED <<vars, ticketVars>>

HourPasses ==
    /\ Goto("asleep", "closing")
    /\ UNCHANGED <<vars, ticketVars>>

\* close_stale_tickets up to its last SELECT.
Closes == /\ round = "closing"
          /\ T!JobLists \/ T!JobWeighs
          /\ UNCHANGED <<vars, round>>

NothingStale == /\ closing = T!Asleep
                /\ T!Live = {}
                /\ UNCHANGED ticketVars

\* Mutant: a round that closes tickets leaves the alerts to the next one.
ClosingEndsRound == /\ IF closing.closing = {} THEN Goto("closing", "alerting")
                                               ELSE Goto("closing", "asleep")
                    /\ T!JobCommits \/ NothingStale
                    /\ UNCHANGED vars

\* The commit of the closed tickets, if there are tickets to close at all.
ClosingEnds == /\ Goto("closing", "alerting")
               /\ T!JobCommits \/ NothingStale
               /\ UNCHANGED vars

\* process_back_in_stock_notifications.
Alerts == /\ round = "alerting"
          /\ JobWakes \/ \E k \in Key : JobSends(k)
          /\ UNCHANGED <<ticketVars, round>>

NothingPending == /\ job = Idle
                  /\ Pending = {}
                  /\ UNCHANGED vars

\* The commit of the marks.
AlertsEnd == /\ Goto("alerting", "asleep")
             /\ JobCommits \/ NothingPending
             /\ UNCHANGED ticketVars

\* Mutant: an error among the tickets is caught and the alerts follow.
RoundFailsGoesOn ==
    \/ /\ Goto("closing", "alerting")
       /\ closing # T!Asleep
       /\ UNCHANGED <<vars, ticketVars>>
    \/ /\ Goto("alerting", "asleep")
       /\ JobInterrupted
       /\ UNCHANGED ticketVars

\* An error, or a shutdown that cancels the task: the session is rolled back.
RoundFails ==
    \/ /\ Goto("closing", "asleep")
       /\ T!JobInterrupted
       /\ UNCHANGED vars
    \/ /\ Goto("alerting", "asleep")
       /\ JobInterrupted
       /\ UNCHANGED ticketVars

-----------------------------------------------------------------------------
Round == HourPasses \/ Closes \/ ClosingEnds \/ Alerts \/ AlertsEnd

\* Everybody else goes on during a round.
Requests ==
    \/ /\ Customer \/ Staff
       /\ UNCHANGED <<ticketVars, round>>
    \/ /\ \/ \E k \in Ticket : T!Create(k) \/ T!WeekPasses(k)
          \/ \E t \in Slot : T!Handler(t)
       /\ UNCHANGED <<vars, round>>

RoundNext == Requests \/ Round \/ RoundFails

\* The loop of TimedHostedService never ends and a started round goes on.
RoundSpec == RoundInit /\ [][RoundNext]_allVars /\ WF_allVars(Round)

-----------------------------------------------------------------------------
(* Properties.                                                             *)

\* Though an error in one part keeps the other from running, the round does for
\* the alerts what their job does on its own, and no less often.
ServesAlerts == FairSpec

\* The same of the tickets: an error among the alerts takes back no closing, and
\* the tickets' turn comes again.
ServesTickets == T!FairSpec
=============================================================================
