----------------------------- MODULE BackInStock -----------------------------
(***************************************************************************)
(* Back-in-stock alerts: the subscription endpoints, the staff's bulk SMS  *)
(* page and the hourly background job that sends the alerts.               *)
(*                                                                         *)
(* A subscription is a row of NotifiedProducts keyed by (user, variety).   *)
(* The table's unique constraint covers soft-deleted rows as well, so a    *)
(* key has at most one row for ever.  The job reads the pending rows,      *)
(* sends the messages one by one - every send is an await, so the other    *)
(* handlers run in between - and records all of them in one commit at the  *)
(* end: whatever stops it earlier loses every mark of the run.             *)
(***************************************************************************)
EXTENDS Naturals

CONSTANTS User, Variety, Product,
          ProductOf,         \* the product a variety belongs to
          MaxInterruptions   \* bound: job runs that may be cut short

ASSUME ProductOfType == ProductOf \in [Variety -> Product]
ASSUME InterruptionsType == MaxInterruptions \in Nat

Key == User \X Variety

VARIABLES
    row,           \* NotifiedProducts: "absent", "live" or "removed" per key
    smsDate,       \* keys whose row has sms_response_date set
    inStock,       \* products with stock_quantity > 0
    job,           \* the background job: pc, rows still to send, rows sent
    tries,         \* how often the job has called the SMS sender for a key
    byStaff,       \* keys staff have sent an SMS to by hand
    interruptions  \* job runs cut short so far

vars == <<row, smsDate, inStock, job, tries, byStaff, interruptions>>

Idle == [pc |-> "asleep", todo |-> {}, sent |-> {}]

TypeOK ==
    /\ row \in [Key -> {"absent", "live", "removed"}]
    /\ smsDate \subseteq Key
    /\ inStock \subseteq Product
    /\ job \in {Idle} \cup [pc : {"sending"}, todo : SUBSET Key, sent : SUBSET Key]
    /\ tries \in [Key -> Nat]
    /\ byStaff \subseteq Key
    /\ interruptions \in 0..MaxInterruptions

Init ==
    /\ row = [k \in Key |-> "absent"]
    /\ smsDate = {}
    /\ inStock = {}
    /\ job = Idle
    /\ tries = [k \in Key |-> 0]
    /\ byStaff = {}
    /\ interruptions = 0

-----------------------------------------------------------------------------
(* The customer's endpoints.                                               *)

\* add_notification_request: the SELECT sees a live row and answers that there
\* is one, the INSERT runs into the unique key of a row of any kind.  One step
\* stands for both: the key makes a concurrent duplicate fail as well.
Subscribe(k) ==
    /\ row[k] = "absent"
    /\ row' = [row EXCEPT ![k] = "live"]
    /\ UNCHANGED <<smsDate, inStock, job, tries, byStaff, interruptions>>

\* remove_notification_request: soft delete of the live row, if there is one.
Unsubscribe(k) ==
    /\ row[k] = "live"
    /\ row' = [row EXCEPT ![k] = "removed"]
    /\ UNCHANGED <<smsDate, inStock, job, tries, byStaff, interruptions>>

-----------------------------------------------------------------------------
(* Stock and staff.                                                        *)

\* A warehouse movement, a product edit or the update of all products by their
\* varieties takes stock_quantity across zero.
StockCrossesZero(products) ==
    /\ inStock' = (inStock \ products) \cup (products \ inStock)
    /\ UNCHANGED <<row, smsDate, job, tries, byStaff, interruptions>>

LiveKeys == {k \in Key : row[k] = "live"}

\* admin_notified_products_send_sms: no look at the stock nor at
\* sms_response_date; an empty selection means every live row.  What the
\* sender answers is ignored; an error after it leaves the rows unmarked.
StaffSendSms(Selected, committed) ==
    LET Items == IF Selected = {} THEN LiveKeys ELSE Selected IN
    /\ Selected \subseteq LiveKeys
    /\ Items # {}
    /\ byStaff' = byStaff \cup Items
    /\ smsDate' = IF committed THEN smsDate \cup Items ELSE smsDate
    /\ UNCHANGED <<row, inStock, job, tries, interruptions>>

-----------------------------------------------------------------------------
(* The background job.                                                     *)

\* Mutant: the SELECT forgets that answered rows are done.
PendingWithAnswered == {k \in Key : /\ row[k] = "live"
                                    /\ ProductOf[k[2]] \in inStock}

\* The SELECT of process_back_in_stock_notifications.
Pending == {k \in Key : /\ row[k] = "live"
                        /\ k \notin smsDate
                        /\ ProductOf[k[2]] \in inStock}

\* Mutant: an error ends the task for good.
JobWakesUntilError ==
    /\ job.pc = "asleep"
    /\ interruptions = 0
    /\ Pending # {}
    /\ job' = [pc |-> "sending", todo |-> Pending, sent |-> {}]
    /\ UNCHANGED <<row, smsDate, inStock, tries, byStaff, interruptions>>

JobWakes ==
    /\ job.pc = "asleep"
    /\ Pending # {}
    /\ job' = [pc |-> "sending", todo |-> Pending, sent |-> {}]
    /\ UNCHANGED <<row, smsDate, inStock, tries, byStaff, interruptions>>

\* One turn of the loop: the result of the sender is dropped.
JobSends(k) ==
    /\ job.pc = "sending"
    /\ k \in job.todo
    /\ job' = [job EXCEPT !.todo = @ \ {k}, !.sent = @ \cup {k}]
    /\ tries' = [tries EXCEPT ![k] = @ + 1]
    /\ UNCHANGED <<row, smsDate, inStock, byStaff, interruptions>>

\* Mutants of the commit: it marks whatever is pending by then; it writes the
\* whole row back as it was read; the task keeps its list of sent rows.
JobCommitsRequeries ==
    /\ job.pc = "sending"
    /\ job.todo = {}
    /\ smsDate' = smsDate \cup job.sent \cup Pending
    /\ job' = Idle
    /\ UNCHANGED <<row, inStock, tries, byStaff, interruptions>>

JobCommitsWholeRow ==
    /\ job.pc = "sending"
    /\ job.todo = {}
    /\ smsDate' = smsDate \cup job.sent
    /\ row' = [k \in Key |-> IF k \in job.sent THEN "live" ELSE row[k]]
    /\ job' = Idle
    /\ UNCHANGED <<inStock, tries, byStaff, interruptions>>

JobCommitsKeepsList ==
    /\ job.pc = "sending"
    /\ job.todo = {}
    /\ smsDate' = smsDate \cup job.sent
    /\ job' = [job EXCEPT !.pc = "asleep"]
    /\ UNCHANGED <<row, inStock, tries, byStaff, interruptions>>

\* flush() and the commit in run_periodic_jobs write all marks at once.
JobCommits ==
    /\ job.pc = "sending"
    /\ job.todo = {}
    /\ smsDate' = smsDate \cup job.sent
    /\ job' = Idle
    /\ UNCHANGED <<row, inStock, tries, byStaff, interruptions>>

\* Shutdown cancels the task, or the database drops the transaction: the
\* session rolls back and TimedHostedService runs the job again later.
JobInterrupted ==
    /\ job.pc = "sending"
    /\ interruptions < MaxInterruptions
    /\ interruptions' = interruptions + 1
    /\ job' = Idle
    /\ UNCHANGED <<row, smsDate, inStock, tries, byStaff>>

-----------------------------------------------------------------------------
Customer == \E k \in Key : Subscribe(k) \/ Unsubscribe(k)

Staff == \/ \E products \in SUBSET Product : StockCrossesZero(products)
         \/ \E Selected \in SUBSET Key, committed \in BOOLEAN :
                StaffSendSms(Selected, committed)

Job == \/ JobWakes
       \/ \E k \in Key : JobSends(k)
       \/ JobCommits

Next == Customer \/ Staff \/ Job \/ JobInterrupted

Spec == Init /\ [][Next]_vars

\* The loop of TimedHostedService never ends and a started run goes on.
FairSpec == Spec /\ WF_vars(Job)

-----------------------------------------------------------------------------
(* Properties.                                                             *)

\* A customer hears from the job at most once per subscription, plus once
\* for each run that was cut short after sending and before its commit: the
\* only duplicates are those a rollback of the marks can cause.
DuplicatesOnlyFromInterruptions ==
    \A k \in Key : tries[k] <= 1 + interruptions

\* sms_response_date is never set for a customer nobody sent anything to,
\* whatever interrupts the job and whoever unsubscribes in the middle of it.
MarkedWasTried ==
    \A k \in smsDate : tries[k] > 0 \/ k \in byStaff

\* The subsystem implements the life cycle it promises.
Phase(k) == CASE row[k] = "absent"  -> "none"
              [] row[k] = "removed" -> "withdrawn"
              [] OTHER -> IF k \in smsDate THEN "answered" ELSE "waiting"

Life == INSTANCE AlertLifecycle
            WITH phase <- [k \in Key |-> Phase(k)],
                 told  <- {k \in Key : tries[k] > 0 \/ k \in byStaff}

ImplementsLifecycle == Life!Spec

\* A live, unanswered request whose product is in stock does not stay so for
\* ever: the job answers it, or the customer or the stock withdraws it.
PendingIsServed ==
    \A k \in Key : k \in Pending ~> k \notin Pending
=============================================================================
