--------------------------- MODULE Tickets_proofs ---------------------------
(***************************************************************************)
(* What is promised of a ticket holds for any number of tickets and of     *)
(* requests.  A ticket that is not contended has one handler at work on it *)
(* at most; so what that handler has read is what is stored, and the job   *)
(* and the requests cannot undo each other's decision.                     *)
(***************************************************************************)
EXTENDS Tickets, TLAPS

Busy(t, k) == req[t] # Free /\ req[t].ticket = k

\* The request at work on k is alone, the job included, and up to date.
Alone(k) ==
    \A t \in Slot : Busy(t, k) =>
        /\ req[t].seen = status[k]
        /\ k \notin job.listed
        /\ \A u \in Slot : Busy(u, k) => u = t

StatusTells(k) ==
    /\ status[k] \in {"none", "Open"} => lastBy[k] = "user"
    /\ status[k] = "Answered" => lastBy[k] = "admin"

ClosingIsIdle(k) == k \in job.closing => k \in job.listed /\ k \in idle

Quiet(k) == Alone(k) /\ StatusTells(k) /\ ClosingIsIdle(k)

IInv == TypeOK /\ \A k \in Ticket \ contended : Quiet(k)

-----------------------------------------------------------------------------
(* What the operators return.                                              *)

\* A request at work names a ticket, and is not Free.
LEMMA RequestFields ==
    ASSUME NEW x \in Request
    PROVE  /\ x.does \in Author \cup {"close"}
           /\ x.ticket \in Ticket
           /\ x.seen \in Status
           /\ x # Free
<1>1. x.does # "nothing"
  BY DEF Request, Author
<1>2. Free.does = "nothing"
  BY DEF Free
<1> QED BY <1>1, <1>2 DEF Request

\* Only a request's own fields make a handler able to commit.
LEMMA DoesFields ==
    ASSUME TypeOK, NEW t \in Slot, req[t].does \in Author \cup {"close"}
    PROVE  req[t] \in Request /\ req[t] # Free
<1>1. req[t] # Free
  BY DEF Free, Author
<1> QED BY <1>1 DEF TypeOK

\* A reply leaves a ticket in a status a ticket has.
LEMMA RepliedType ==
    ASSUME NEW seen \in Status, NEW by \in Author
    PROVE  Replied(seen, by) \in Status
BY DEF Replied, Status, Author

\* A reply to what is stored leaves a closed ticket closed, and one that is
\* not closed in the status that names the author.
LEMMA ReplyTells ==
    ASSUME NEW seen \in Status, NEW by \in Author
    PROVE  LET new == Assign(seen, Replied(seen, by), seen) IN
           /\ seen = "Closed" => new = "Closed"
           /\ new # "none"
           /\ new = "Open" => by = "user"
           /\ new = "Answered" => by = "admin"
BY DEF Assign, Replied, Status, Author

-----------------------------------------------------------------------------
(* Types.                                                                  *)

LEMMA InitType == Init => TypeOK
BY InterruptionsType DEF Init, TypeOK, Asleep, Free, Author, Status

LEMMA NextType == TypeOK /\ [Next]_vars => TypeOK'
<1> SUFFICES ASSUME TypeOK, [Next]_vars PROVE TypeOK'
  OBVIOUS
<1>1. ASSUME NEW k \in Ticket, Create(k) PROVE TypeOK'
  BY <1>1 DEF TypeOK, Create, Status
<1>2. ASSUME NEW k \in Ticket, WeekPasses(k) PROVE TypeOK'
  BY <1>2 DEF TypeOK, WeekPasses
<1>3. ASSUME NEW t \in Slot, NEW k \in Ticket, NEW does \in Author \cup {"close"},
             Begin(t, k, does)
      PROVE  TypeOK'
  <2>1. [does |-> does, ticket |-> k, seen |-> status[k]] \in Request
    BY <1>3 DEF TypeOK, Begin, Request
  <2> QED BY <1>3, <2>1 DEF TypeOK, Begin
<1>4. ASSUME NEW t \in Slot, ReplyCommits(t) PROVE TypeOK'
  <2>1. req[t] \in Request /\ req[t].does \in Author
    BY <1>4, DoesFields DEF ReplyCommits
  <2>2. req[t].ticket \in Ticket /\ req[t].seen \in Status
    BY <2>1, RequestFields
  <2> DEFINE k == req[t].ticket
             new == Assign(req[t].seen, Replied(req[t].seen, req[t].does), status[k])
  <2>3. new \in Status \cup {"none"}
    BY <2>1, <2>2, RepliedType DEF TypeOK, Assign
  <2>4. status' = [status EXCEPT ![k] = new] /\ lastBy' = [lastBy EXCEPT ![k] = req[t].does]
    BY <1>4, <2>2 DEF ReplyCommits, TypeOK
  <2>5. idle' \subseteq Ticket /\ req' \in [Slot -> {Free} \cup Request]
    BY <1>4 DEF ReplyCommits, TypeOK
  <2> QED BY <1>4, <2>1, <2>2, <2>3, <2>4, <2>5 DEF TypeOK, ReplyCommits
<1>5. ASSUME NEW t \in Slot, CloseCommits(t) PROVE TypeOK'
  BY <1>5 DEF TypeOK, CloseCommits, Assign, Status
<1>6. ASSUME NEW t \in Slot, RequestEnds(t) PROVE TypeOK'
  BY <1>6 DEF TypeOK, RequestEnds
<1>7. CASE JobLists
  BY <1>7 DEF TypeOK, JobLists, Live
<1>8. CASE JobWeighs
  BY <1>8 DEF TypeOK, JobWeighs
<1>9. CASE JobCommits
  BY <1>9 DEF TypeOK, JobCommits, Asleep, Status
<1>10. CASE JobInterrupted
  BY <1>10, InterruptionsType DEF TypeOK, JobInterrupted, Asleep
<1>11. CASE UNCHANGED vars
  BY <1>11 DEF TypeOK, vars
<1> QED BY <1>1, <1>2, <1>3, <1>4, <1>5, <1>6, <1>7, <1>8, <1>9, <1>10, <1>11
        DEF Next, Handler, Job

\* Every variable keeps its type: the status of a ticket, in particular, is
\* never one its three writers do not know.
THEOREM TypeCorrect == Spec => []TypeOK
<1> QED BY InitType, NextType, PTL DEF Spec

-----------------------------------------------------------------------------
(* Tickets that are not contended.                                         *)

LEMMA InitIInv == Init => IInv
<1> SUFFICES ASSUME Init, NEW k \in Ticket PROVE Quiet(k)
  BY InitType DEF IInv
<1> QED BY DEF Init, Quiet, Alone, StatusTells, ClosingIsIdle, Busy, Asleep

\* Starting a request: the second one at work makes its ticket contended.
LEMMA BeginQuiet ==
    ASSUME IInv, NEW t \in Slot, NEW b \in Ticket, NEW does \in Author \cup {"close"},
           Begin(t, b, does), NEW k \in Ticket \ contended'
    PROVE  Quiet(k)'
<1>1. k \notin contended /\ Quiet(k)
  BY DEF Begin, IInv
<1>2. req' = [req EXCEPT ![t] = [does |-> does, ticket |-> b, seen |-> status[b]]]
  BY DEF Begin
<1>3. StatusTells(k)' /\ ClosingIsIdle(k)'
  BY <1>1 DEF Quiet, StatusTells, ClosingIsIdle, Begin
<1>4. ASSUME NEW u \in Slot, u # t PROVE Busy(u, k)' <=> Busy(u, k)
  BY <1>2, <1>4 DEF Busy, IInv, TypeOK
<1>5. CASE k # b
  <2>1. ~Busy(t, k)'
    BY <1>2, <1>5 DEF Busy, IInv, TypeOK
  <2> QED BY <1>1, <1>2, <1>3, <1>4, <2>1 DEF Quiet, Alone, Begin, IInv, TypeOK
<1>6. CASE k = b
  <2>1. ~AtWork(k) /\ k \notin job.listed
    BY <1>6, <1>1 DEF Begin
  <2>2. \A u \in Slot : Busy(u, k)' => u = t
    BY <2>1, <1>4 DEF AtWork, Busy
  <2>3. req'[t].seen = status'[k] /\ job' = job
    BY <1>2, <1>6 DEF Begin, IInv, TypeOK
  <2>4. Alone(k)'
    BY <2>1, <2>2, <2>3 DEF Alone
  <2> QED BY <1>3, <2>4 DEF Quiet
<1> QED BY <1>5, <1>6

\* The end of a request, in a commit or without one, leaves the others what
\* they were.
LEMMA EndsAlone ==
    ASSUME TypeOK, NEW t \in Slot, req' = [req EXCEPT ![t] = Free],
           UNCHANGED job, NEW k \in Ticket, Alone(k),
           status'[k] = status[k] \/ Busy(t, k)
    PROVE  Alone(k)'
<1>1. ~Busy(t, k)'
  BY DEF Busy, TypeOK
<1>2. ASSUME NEW u \in Slot, Busy(u, k)'
      PROVE  Busy(u, k) /\ u # t /\ req'[u] = req[u]
  BY <1>1, <1>2 DEF Busy, TypeOK
<1>3. ASSUME NEW u \in Slot, Busy(u, k)' PROVE status'[k] = status[k]
  BY <1>2, <1>3 DEF Alone
<1> QED BY <1>2, <1>3 DEF Alone

\* A reply's commit.
LEMMA ReplyQuiet ==
    ASSUME IInv, NEW t \in Slot, ReplyCommits(t), NEW k \in Ticket \ contended'
    PROVE  Quiet(k)' /\ (status[k] = "Closed" => status'[k] = "Closed")
<1>1. TypeOK /\ k \notin contended /\ Quiet(k)
  BY DEF ReplyCommits, IInv
<1>2. /\ req[t] \in Request /\ req[t] # Free
      /\ req[t].does \in Author /\ req[t].seen \in Status /\ req[t].ticket \in Ticket
  BY <1>1, DoesFields, RequestFields DEF ReplyCommits
<1>3. req' = [req EXCEPT ![t] = Free] /\ UNCHANGED job
  BY DEF ReplyCommits
<1>4. CASE req[t].ticket # k
  <2>1. status'[k] = status[k] /\ lastBy'[k] = lastBy[k] /\ (k \in idle => k \in idle')
    BY <1>1, <1>4 DEF ReplyCommits, TypeOK
  <2>2. Alone(k)'
    BY <1>1, <1>3, <2>1, EndsAlone DEF Quiet
  <2> QED BY <1>1, <1>3, <2>1, <2>2 DEF Quiet, StatusTells, ClosingIsIdle
<1>5. CASE req[t].ticket = k
  <2>1. Busy(t, k)
    BY <1>2, <1>5 DEF Busy
  <2>2. req[t].seen = status[k] /\ k \notin job.listed
    BY <1>1, <2>1 DEF Quiet, Alone
  <2>3. /\ status'[k] = Assign(req[t].seen, Replied(req[t].seen, req[t].does), req[t].seen)
        /\ lastBy'[k] = req[t].does
    BY <1>1, <1>2, <1>5, <2>2 DEF ReplyCommits, TypeOK
  <2>4. StatusTells(k)' /\ (status[k] = "Closed" => status'[k] = "Closed")
    BY <1>2, <2>2, <2>3, ReplyTells DEF StatusTells
  <2>5. Alone(k)'
    BY <1>1, <1>3, <2>1, EndsAlone DEF Quiet
  <2>6. ClosingIsIdle(k)'
    BY <1>1, <1>3, <2>2 DEF Quiet, ClosingIsIdle
  <2> QED BY <2>4, <2>5, <2>6 DEF Quiet
<1> QED BY <1>4, <1>5

\* A request closes its ticket.
LEMMA CloseQuiet ==
    ASSUME IInv, NEW t \in Slot, CloseCommits(t), NEW k \in Ticket \ contended'
    PROVE  Quiet(k)' /\ (status[k] = "Closed" => status'[k] = "Closed")
<1>1. TypeOK /\ k \notin contended /\ Quiet(k)
  BY DEF CloseCommits, IInv
<1>2. req[t] # Free /\ req[t].ticket \in Ticket
  BY <1>1, DoesFields, RequestFields DEF CloseCommits
<1>3. /\ req' = [req EXCEPT ![t] = Free]
      /\ UNCHANGED <<lastBy, idle, job>>
  BY DEF CloseCommits
<1>4. CASE req[t].ticket # k
  <2>1. status'[k] = status[k]
    BY <1>1, <1>4 DEF CloseCommits, TypeOK
  <2>2. Alone(k)'
    BY <1>1, <1>3, <2>1, EndsAlone DEF Quiet
  <2> QED BY <1>1, <1>3, <2>1, <2>2 DEF Quiet, StatusTells, ClosingIsIdle
<1>5. CASE req[t].ticket = k
  <2>1. Busy(t, k)
    BY <1>2, <1>5 DEF Busy
  <2>2. req[t].seen = status[k]
    BY <1>1, <2>1 DEF Quiet, Alone
  <2>3. status'[k] = "Closed"
    BY <1>1, <1>2, <1>5, <2>2 DEF CloseCommits, Assign, TypeOK
  <2>4. Alone(k)'
    BY <1>1, <1>3, <2>1, EndsAlone DEF Quiet
  <2> QED BY <1>1, <1>3, <2>3, <2>4 DEF Quiet, StatusTells, ClosingIsIdle
<1> QED BY <1>4, <1>5

\* The job: what it lists and another is at work on is contended from then
\* on, and what it closes was idle when weighed and has stayed so.
LEMMA JobQuiet ==
    ASSUME IInv, Job, NEW k \in Ticket \ contended'
    PROVE  Quiet(k)' /\ (status[k] = "Closed" => status'[k] = "Closed")
<1>1. TypeOK /\ k \notin contended /\ Quiet(k)
  BY DEF Job, JobLists, JobWeighs, JobCommits, IInv
<1>2. CASE JobLists
  <2>1. \A t \in Slot : Busy(t, k) => k \notin Live
    BY <1>2 DEF JobLists, AtWork, Busy
  <2>2. UNCHANGED <<status, lastBy, req>> /\ job'.listed = Live
        /\ job'.closing = Live \cap idle /\ idle' = idle
    BY <1>2 DEF JobLists
  <2>3. Alone(k)'
    BY <1>1, <2>1, <2>2 DEF Quiet, Alone, Busy
  <2> QED BY <1>1, <2>2, <2>3 DEF Quiet, StatusTells, ClosingIsIdle
<1>3. CASE JobWeighs
  <2>1. /\ UNCHANGED <<status, lastBy, idle, req>>
        /\ job'.listed = job.listed /\ job'.closing = job.closing \cap idle
    BY <1>1, <1>3 DEF JobWeighs, TypeOK
  <2>2. Alone(k)'
    BY <1>1, <2>1 DEF Quiet, Alone, Busy
  <2> QED BY <1>1, <2>1, <2>2 DEF Quiet, StatusTells, ClosingIsIdle
<1>4. CASE JobCommits
  <2>1. /\ UNCHANGED <<lastBy, req>> /\ job'.listed = {} /\ job'.closing = {}
        /\ status'[k] = IF k \in job.closing THEN "Closed" ELSE status[k]
    BY <1>4 DEF JobCommits, Asleep
  <2>2. ASSUME NEW t \in Slot, Busy(t, k) PROVE status'[k] = status[k]
    BY <1>1, <2>1, <2>2 DEF Quiet, Alone, ClosingIsIdle
  <2>3. Alone(k)'
    BY <1>1, <2>1, <2>2 DEF Quiet, Alone, Busy
  <2> QED BY <1>1, <2>1, <2>3 DEF Quiet, StatusTells, ClosingIsIdle
<1> QED BY <1>2, <1>3, <1>4 DEF Job

\* Every step keeps the promises, and leaves a closed ticket closed.
LEMMA NextQuiet ==
    ASSUME IInv, [Next]_vars, NEW k \in Ticket \ contended'
    PROVE  Quiet(k)' /\ (status[k] = "Closed" => status'[k] = "Closed")
<1>1. ASSUME NEW c \in Ticket, Create(c)
      PROVE  Quiet(k)' /\ (status[k] = "Closed" => status'[k] = "Closed")
  <2>1. TypeOK /\ Quiet(k) /\ UNCHANGED <<lastBy, idle, req, job>>
    BY <1>1 DEF Create, IInv
  <2>2. CASE k # c
    <3>1. status'[k] = status[k]
      BY <1>1, <2>1, <2>2 DEF Create, TypeOK
    <3> QED BY <2>1, <3>1 DEF Quiet, Alone, Busy, StatusTells, ClosingIsIdle
  <2>3. CASE k = c
    <3>1. status[k] = "none" /\ status'[k] = "Open"
      BY <1>1, <2>1, <2>3 DEF Create, TypeOK
    <3>2. ASSUME NEW t \in Slot, Busy(t, k) PROVE FALSE
      <4>1. req[t] \in Request /\ req[t].seen = "none"
        BY <2>1, <3>1, <3>2 DEF TypeOK, Busy, Quiet, Alone
      <4> QED BY <4>1, RequestFields DEF Status
    <3>3. Alone(k)'
      BY <2>1, <3>2 DEF Alone, Busy
    <3> QED BY <2>1, <3>1, <3>3 DEF Quiet, StatusTells, ClosingIsIdle
  <2> QED BY <2>2, <2>3
<1>2. ASSUME NEW w \in Ticket, WeekPasses(w)
      PROVE  Quiet(k)' /\ (status[k] = "Closed" => status'[k] = "Closed")
  BY <1>2 DEF WeekPasses, IInv, Quiet, Alone, Busy, StatusTells, ClosingIsIdle
<1>3. ASSUME NEW t \in Slot, NEW b \in Ticket, NEW does \in Author \cup {"close"},
             Begin(t, b, does)
      PROVE  Quiet(k)' /\ (status[k] = "Closed" => status'[k] = "Closed")
  BY <1>3, BeginQuiet DEF Begin
<1>4. ASSUME NEW t \in Slot, RequestEnds(t)
      PROVE  Quiet(k)' /\ (status[k] = "Closed" => status'[k] = "Closed")
  <2>1. TypeOK /\ Quiet(k) /\ UNCHANGED <<status, lastBy, idle, job>>
    BY <1>4 DEF RequestEnds, IInv
  <2>2. Alone(k)'
    BY <1>4, <2>1, EndsAlone DEF RequestEnds, Quiet
  <2> QED BY <2>1, <2>2 DEF Quiet, StatusTells, ClosingIsIdle
<1>5. CASE JobInterrupted
  BY <1>5 DEF JobInterrupted, Asleep, IInv, Quiet, Alone, Busy, StatusTells, ClosingIsIdle
<1>6. CASE UNCHANGED vars
  BY <1>6 DEF vars, IInv, Quiet, Alone, Busy, StatusTells, ClosingIsIdle
<1> QED BY <1>1, <1>2, <1>3, <1>4, <1>5, <1>6, ReplyQuiet, CloseQuiet, JobQuiet
        DEF Next, Handler

LEMMA NextIInv == IInv /\ [Next]_vars => IInv'
<1> SUFFICES ASSUME IInv, [Next]_vars PROVE IInv'
  OBVIOUS
<1>1. TypeOK'
  BY NextType DEF IInv
<1>2. \A k \in Ticket \ contended' : Quiet(k)'
  BY NextQuiet
<1> QED BY <1>1, <1>2 DEF IInv

LEMMA AlwaysIInv == Spec => []IInv
<1> QED BY InitIInv, NextIInv, PTL DEF Spec

\* The status names who wrote last, however many tickets and requests.
THEOREM TellsAuthor == Spec => []StatusTellsAuthor
<1>1. IInv => StatusTellsAuthor
  BY DEF IInv, Quiet, StatusTells, StatusTellsAuthor
<1> QED BY <1>1, AlwaysIInv, PTL

\* What the job closes has had no activity up to the commit.
THEOREM JobClosesIdle == Spec => ClosedWasIdle
<1>1. IInv => (JobCommits => \A k \in (job.closing \ contended) : k \in idle)
  <2> SUFFICES ASSUME IInv, NEW k \in (job.closing \ contended) PROVE k \in idle
    OBVIOUS
  <2>1. k \in Ticket
    BY DEF IInv, TypeOK
  <2> QED BY <2>1 DEF IInv, Quiet, ClosingIsIdle
<1> QED BY <1>1, AlwaysIInv, PTL DEF ClosedWasIdle

\* contended only grows, so a ticket outside it now may be outside it after
\* the step or not; in the first case the step keeps it closed, and in the
\* second the step is a read.
THEOREM ClosedForGood == Spec => ClosedStaysClosed
<1>1. ASSUME IInv, [Next]_vars, NEW k \in Ticket \ contended, status[k] = "Closed"
      PROVE  status'[k] = "Closed"
  <2>1. CASE k \in contended'
    <3>1. status' = status
      BY <1>1, <2>1 DEF Next, Handler, Job, Create, WeekPasses, Begin, ReplyCommits,
            CloseCommits, RequestEnds, JobLists, JobWeighs, JobCommits, JobInterrupted, vars
    <3> QED BY <1>1, <3>1
  <2>2. CASE k \notin contended'
    BY <1>1, <2>2, NextQuiet
  <2> QED BY <2>1, <2>2
<1>2. IInv /\ [Next]_vars =>
         [\A k \in Ticket \ contended : status[k] = "Closed" => status'[k] = "Closed"]_vars
  BY <1>1
<1> QED BY <1>2, AlwaysIInv, PTL DEF Spec, ClosedStaysClosed
=============================================================================
