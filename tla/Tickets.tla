------------------------------- MODULE Tickets -------------------------------
(***************************************************************************)
(* Support tickets: customers and staff write into a ticket and close it,  *)
(* and the hourly job closes the tickets nobody has written into for a     *)
(* week.                                                                   *)
(*                                                                         *)
(* Every handler reads the ticket, decides on the status it has read and   *)
(* writes in a later commit; the job does so for all tickets at once.  No  *)
(* discipline is assumed of customers and staff.  Instead, `contended'     *)
(* remembers the tickets two of these were ever at work on at one time:    *)
(* what is promised of a ticket is promised as long as it is not one.      *)
(***************************************************************************)
EXTENDS Naturals

CONSTANTS
    Ticket,            \* the tickets that may be created
    Slot,              \* how many requests run at the same time
    MaxInterruptions   \* bound: runs of the job that may be cut short

ASSUME InterruptionsType == MaxInterruptions \in Nat

Author == {"user", "admin"}
Status == {"Open", "Answered", "Closed"}

VARIABLES
    status,        \* Tickets.Status, or "none" before the ticket is created
    lastBy,        \* is_admin of the newest message: who wrote last
    idle,          \* tickets whose last activity is a week old
    req,           \* what each request slot is doing
    job,           \* the background job: the tickets it has listed, and those
                   \* it is going to close by what it has read so far
    contended,     \* tickets two handlers were ever at work on at one time
    interruptions  \* runs of the job cut short so far

vars == <<status, lastBy, idle, req, job, contended, interruptions>>

Free == [does |-> "nothing"]
Asleep == [pc |-> "asleep", listed |-> {}, closing |-> {}]

\* A request writes a message as one of Author, or closes the ticket.
Request == [does : Author \cup {"close"}, ticket : Ticket, seen : Status]

TypeOK == /\ status \in [Ticket -> Status \cup {"none"}]
          /\ lastBy \in [Ticket -> Author]
          /\ idle \subseteq Ticket
          /\ req \in [Slot -> {Free} \cup Request]
          /\ job \in [pc : {"asleep", "listed", "closing"},
                      listed : SUBSET Ticket, closing : SUBSET Ticket]
          /\ contended \subseteq Ticket
          /\ interruptions \in 0..MaxInterruptions

Init == /\ status = [k \in Ticket |-> "none"]
        /\ lastBy = [k \in Ticket |-> "user"]
        /\ idle = {}
        /\ req = [t \in Slot |-> Free]
        /\ job = Asleep
        /\ contended = {}
        /\ interruptions = 0

-----------------------------------------------------------------------------
AtWork(k) == \E t \in Slot : req[t] # Free /\ req[t].ticket = k

\* An assignment writes its column only if it changes what was loaded.
Assign(loaded, new, stored) == IF new = loaded THEN stored ELSE new

\* create_ticket: a customer's, and the description is its first message.
Create(k) ==
    /\ status[k] = "none"
    /\ status' = [status EXCEPT ![k] = "Open"]
    /\ UNCHANGED <<lastBy, idle, req, job, contended, interruptions>>

\* get_ticket_by_id, for a reply or to close the ticket.
Begin(t, k, does) ==
    /\ req[t] = Free
    /\ status[k] # "none"
    /\ req' = [req EXCEPT ![t] = [does |-> does, ticket |-> k, seen |-> status[k]]]
    /\ contended' = IF AtWork(k) \/ k \in job.listed
                    THEN contended \cup {k} ELSE contended
    /\ UNCHANGED <<status, lastBy, idle, job, interruptions>>

\* Mutants of the reply: staff leave the status alone; closed tickets are
\* opened again; a reply makes the ticket pending.
ReplyReopensOnly(seen, by) ==
    IF by = "user" /\ seen = "Answered" THEN "Open" ELSE seen

ReplyOpensClosed(seen, by) == IF by = "admin" THEN "Answered" ELSE "Open"

ReplyMakesPending(seen, by) ==
    CASE by = "admin" /\ seen = "Open"    -> "Answered"
      [] by = "user" /\ seen = "Answered" -> "Pending"
      [] OTHER                            -> seen

\* What a reply makes of the status its request has read: "a user reply
\* re-opens, an admin reply marks answered", unless the ticket is closed.
Replied(seen, by) ==
    CASE by = "admin" /\ seen = "Open"    -> "Answered"
      [] by = "user" /\ seen = "Answered" -> "Open"
      [] OTHER                            -> seen

\* reply_to_ticket and its commit: the message goes into a closed ticket too.
ReplyCommits(t) ==
    /\ req[t].does \in Author
    /\ LET k == req[t].ticket  seen == req[t].seen IN
       /\ status' = [status EXCEPT ![k] = Assign(seen, Replied(seen, req[t].does), @)]
       /\ lastBy' = [lastBy EXCEPT ![k] = req[t].does]
       /\ idle' = idle \ {k}
    /\ req' = [req EXCEPT ![t] = Free]
    /\ UNCHANGED <<job, contended, interruptions>>

\* close_ticket and its commit.
CloseCommits(t) ==
    /\ req[t].does = "close"
    /\ status' = [status EXCEPT ![req[t].ticket] = Assign(req[t].seen, "Closed", @)]
    /\ req' = [req EXCEPT ![t] = Free]
    /\ UNCHANGED <<lastBy, idle, job, contended, interruptions>>

\* An empty message, a refused attachment, a lost connection, a stop.
RequestEnds(t) ==
    /\ req[t] # Free
    /\ req' = [req EXCEPT ![t] = Free]
    /\ UNCHANGED <<status, lastBy, idle, job, contended, interruptions>>

\* STALE_TICKET_DAYS after the last activity in k.
WeekPasses(k) ==
    /\ status[k] # "none"
    /\ k \notin idle
    /\ idle' = idle \cup {k}
    /\ UNCHANGED <<status, lastBy, req, job, contended, interruptions>>

-----------------------------------------------------------------------------
(* close_stale_tickets in run_periodic_jobs.                               *)

\* Mutant: answered tickets are forgotten.
LiveOpenOnly == {k \in Ticket : status[k] = "Open"}

Live == {k \in Ticket : status[k] \in {"Open", "Answered"}}

\* The cutoff is the time of this step; the messages are not read yet.
JobLists ==
    /\ job.pc = "asleep"
    /\ Live # {}
    /\ job' = [pc |-> "listed", listed |-> Live, closing |-> Live \cap idle]
    /\ contended' = contended \cup {k \in Live : AtWork(k)}
    /\ UNCHANGED <<status, lastBy, idle, req, interruptions>>

\* Mutant: the age of the last message is not compared.
JobWeighsNothing ==
    /\ job.pc = "listed"
    /\ job' = [job EXCEPT !.pc = "closing", !.closing = job.listed]
    /\ UNCHANGED <<status, lastBy, idle, req, contended, interruptions>>

\* The messages of the listed tickets are read after them: of those due by
\* the cutoff, the ones without a newer message are closed.
JobWeighs ==
    /\ job.pc = "listed"
    /\ job' = [job EXCEPT !.pc = "closing", !.closing = @ \cap idle]
    /\ UNCHANGED <<status, lastBy, idle, req, contended, interruptions>>

\* All of them are closed in one commit.
JobCommits ==
    /\ job.pc = "closing"
    /\ status' = [k \in Ticket |-> IF k \in job.closing THEN "Closed" ELSE status[k]]
    /\ job' = Asleep
    /\ UNCHANGED <<lastBy, idle, req, contended, interruptions>>

\* Shutdown cancels the task, or the database drops the transaction.
JobInterrupted ==
    /\ job.pc # "asleep"
    /\ interruptions < MaxInterruptions
    /\ interruptions' = interruptions + 1
    /\ job' = Asleep
    /\ UNCHANGED <<status, lastBy, idle, req, contended>>

-----------------------------------------------------------------------------
Handler(t) == \/ \E k \in Ticket, does \in Author \cup {"close"} : Begin(t, k, does)
              \/ ReplyCommits(t) \/ CloseCommits(t) \/ RequestEnds(t)

Job == JobLists \/ JobWeighs \/ JobCommits

Next == \/ \E k \in Ticket : Create(k) \/ WeekPasses(k)
        \/ \E t \in Slot : Handler(t)
        \/ Job \/ JobInterrupted

Spec == Init /\ [][Next]_vars

\* The loop of TimedHostedService never ends and a started run goes on.
FairSpec == Spec /\ WF_vars(Job)

-----------------------------------------------------------------------------
(* Properties.                                                             *)

\* "A user reply re-opens, an admin reply marks answered": the status tells
\* staff which tickets wait for them.
StatusTellsAuthor ==
    \A k \in Ticket \ contended :
        /\ status[k] = "Open" => lastBy[k] = "user"
        /\ status[k] = "Answered" => lastBy[k] = "admin"

\* "Auto-close open tickets with no activity in the last STALE_TICKET_DAYS
\* days": what the job closes is idle when it is closed, not only when it was
\* read.
ClosedWasIdle ==
    [][JobCommits => \A k \in (job.closing \ contended) : k \in idle]_vars

\* A closed ticket is not opened again by a message written into it.
ClosedStaysClosed ==
    [][\A k \in Ticket \ contended :
          status[k] = "Closed" => status'[k] = "Closed"]_vars

\* A ticket nobody writes into does not stay open for ever, whatever
\* interrupts the job and whoever is at work on the ticket.
StaleIsClosed ==
    \A k \in Ticket :
        k \in idle /\ status[k] \in {"Open", "Answered"}
            ~> k \notin idle \/ status[k] = "Closed"
=============================================================================
