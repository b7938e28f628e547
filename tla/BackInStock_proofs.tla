-------------------------- MODULE BackInStock_proofs --------------------------
(***************************************************************************)
(* Theorems about the back-in-stock alerts, for every set of users,        *)
(* varieties and products and every number of interrupted runs; and about  *)
(* the hourly round that runs their job after the closing of tickets:      *)
(* either job keeps its promises in it.                                    *)
(***************************************************************************)
EXTENDS HourlyRound, TLAPS

(***************************************************************************)
(* Why duplicates are bounded: a key the job may still send to has never   *)
(* been tried outside a run that was cut short.  A key gains one try per   *)
(* run; a run that commits marks it, a run that does not is an             *)
(* interruption.                                                           *)
(***************************************************************************)
TriesBounded ==
    /\ \A k \in Key : tries[k] <= 1 + interruptions
    /\ \A k \in Key : k \notin smsDate /\ k \notin job.sent
                        => tries[k] <= interruptions
    /\ \A k \in job.todo : tries[k] <= interruptions

\* What the run has sent it has tried, and so what it files as answered.
SentWasTried ==
    /\ \A k \in job.sent : tries[k] > 0
    /\ MarkedWasTried

\* Marks and messages belong to rows that exist: without this a new request
\* could be born answered.
OnlyAskedFor ==
    \A k \in smsDate \cup job.todo \cup job.sent : row[k] # "absent"

IInv == TypeOK /\ TriesBounded /\ SentWasTried /\ OnlyAskedFor

\* The initial state satisfies the invariant.
LEMMA InitIInv == Init => IInv
BY InterruptionsType DEF Init, IInv, TypeOK, TriesBounded, SentWasTried,
                         MarkedWasTried, OnlyAskedFor, Idle

\* Every step keeps the types.
LEMMA TypePreserved == TypeOK /\ [Next]_vars => TypeOK'
<1> SUFFICES ASSUME TypeOK, [Next]_vars PROVE TypeOK'
  OBVIOUS
<1> USE DEF TypeOK
<1>1. CASE Customer
  BY <1>1 DEF Customer, Subscribe, Unsubscribe
<1>2. CASE Staff
  <2>1. ASSUME NEW products \in SUBSET Product, StockCrossesZero(products) PROVE TypeOK'
    BY <2>1 DEF StockCrossesZero
  <2>2. ASSUME NEW Selected \in SUBSET Key, NEW committed \in BOOLEAN,
               StaffSendSms(Selected, committed)
        PROVE  TypeOK'
    BY <2>2 DEF StaffSendSms, LiveKeys
  <2> QED BY <1>2, <2>1, <2>2 DEF Staff
<1>3. CASE Job
  <2>1. CASE JobWakes
    BY <2>1 DEF JobWakes, Pending, Idle
  <2>2. ASSUME NEW k \in Key, JobSends(k)
        PROVE  TypeOK'
    <3>1. job \in [pc : {"sending"}, todo : SUBSET Key, sent : SUBSET Key]
      BY <2>2 DEF JobSends, Idle
    <3>2. job' \in [pc : {"sending"}, todo : SUBSET Key, sent : SUBSET Key]
      BY <2>2, <3>1 DEF JobSends
    <3>3. tries' \in [Key -> Nat]
      BY <2>2 DEF JobSends
    <3> QED BY <2>2, <3>2, <3>3 DEF JobSends
  <2>3. CASE JobCommits
    BY <2>3 DEF JobCommits, Idle
  <2> QED BY <1>3, <2>1, <2>2, <2>3 DEF Job
<1>4. CASE JobInterrupted
  BY <1>4, InterruptionsType DEF JobInterrupted, Idle
<1>5. CASE UNCHANGED vars
  BY <1>5 DEF vars
<1> QED BY <1>1, <1>2, <1>3, <1>4, <1>5 DEF Next

\* Every step keeps marks and messages on existing rows.
LEMMA OnlyAskedForPreserved ==
    TypeOK /\ OnlyAskedFor /\ [Next]_vars => OnlyAskedFor'
<1> SUFFICES ASSUME TypeOK, OnlyAskedFor, [Next]_vars PROVE OnlyAskedFor'
  OBVIOUS
<1>t. /\ smsDate \subseteq Key /\ job.todo \subseteq Key /\ job.sent \subseteq Key
      /\ DOMAIN row = Key
  BY DEF TypeOK, Idle
<1> USE DEF OnlyAskedFor
<1>1. ASSUME NEW k \in Key, Subscribe(k) \/ Unsubscribe(k) PROVE OnlyAskedFor'
  <2>1. \A j \in Key : row[j] # "absent" => row'[j] # "absent"
    BY <1>1, <1>t DEF Subscribe, Unsubscribe
  <2>2. UNCHANGED <<smsDate, job>>
    BY <1>1 DEF Subscribe, Unsubscribe
  <2> QED BY <2>1, <2>2, <1>t
<1>2. CASE \E products \in SUBSET Product : StockCrossesZero(products)
  BY <1>2 DEF StockCrossesZero
<1>3. ASSUME NEW Selected \in SUBSET Key, NEW committed \in BOOLEAN,
             StaffSendSms(Selected, committed)
      PROVE  OnlyAskedFor'
  BY <1>3 DEF StaffSendSms, LiveKeys
<1>4. CASE JobWakes
  <2>1. /\ job'.todo = Pending /\ job'.sent = {}
        /\ UNCHANGED <<row, smsDate>>
    BY <1>4 DEF JobWakes
  <2>2. \A k \in Pending : row[k] # "absent"
    BY DEF Pending
  <2> QED BY <2>1, <2>2
<1>5. ASSUME NEW k \in Key, JobSends(k)
      PROVE  OnlyAskedFor'
  <2>1. /\ job'.todo = job.todo \ {k} /\ job'.sent = job.sent \cup {k}
        /\ k \in job.todo
        /\ UNCHANGED <<row, smsDate>>
    BY <1>5 DEF JobSends, TypeOK, Idle
  <2> QED BY <2>1
<1>6. CASE JobCommits
  BY <1>6 DEF JobCommits, Idle
<1>7. CASE JobInterrupted
  BY <1>7 DEF JobInterrupted, Idle
<1>8. CASE UNCHANGED vars
  BY <1>8 DEF vars
<1> QED BY <1>1, <1>2, <1>3, <1>4, <1>5, <1>6, <1>7, <1>8
        DEF Next, Customer, Staff, Job

\* Every step keeps the invariant.
LEMMA NextIInv == IInv /\ [Next]_vars => IInv'
<1> SUFFICES ASSUME IInv, [Next]_vars
             PROVE  TriesBounded' /\ SentWasTried' /\ OnlyAskedFor'
  BY TypePreserved DEF IInv
<1>o. OnlyAskedFor'
  BY OnlyAskedForPreserved DEF IInv
<1>s. SUFFICES TriesBounded' /\ SentWasTried'
  BY <1>o
<1>t. TypeOK /\ TypeOK'
  BY TypePreserved DEF IInv
<1> USE DEF IInv, TriesBounded, SentWasTried, MarkedWasTried
<1>1. CASE Customer
  BY <1>1 DEF Customer, Subscribe, Unsubscribe
<1>2. CASE Staff
  BY <1>2 DEF Staff, StockCrossesZero, StaffSendSms
<1>3. CASE JobWakes
  <2>1. job.sent = {}
    BY <1>3, <1>t DEF JobWakes, TypeOK, Idle
  <2>2. /\ job'.todo = Pending
        /\ job'.sent = {}
        /\ UNCHANGED <<smsDate, tries, byStaff, interruptions>>
    BY <1>3 DEF JobWakes
  <2>3. \A k \in Pending : k \in Key /\ k \notin smsDate
    BY DEF Pending
  <2> QED BY <2>1, <2>2, <2>3
<1>4. ASSUME NEW k \in Key, JobSends(k)
      PROVE  TriesBounded' /\ SentWasTried'
  <2>1. /\ job'.todo = job.todo \ {k}
        /\ job'.sent = job.sent \cup {k}
        /\ k \in job.todo
        /\ UNCHANGED <<smsDate, byStaff, interruptions>>
    BY <1>4, <1>t DEF JobSends, TypeOK, Idle
  <2>2. /\ tries'[k] = tries[k] + 1
        /\ \A j \in Key : j # k => tries'[j] = tries[j]
        /\ \A j \in Key : tries[j] \in Nat
    BY <1>4, <1>t DEF JobSends, TypeOK
  <2>3. job.todo \subseteq Key /\ job.sent \subseteq Key /\ smsDate \subseteq Key
    BY <1>t DEF TypeOK, Idle
  <2>4. interruptions \in Nat
    BY <1>t, InterruptionsType DEF TypeOK
  <2> QED BY <2>1, <2>2, <2>3, <2>4
<1>5. CASE JobCommits
  BY <1>5, <1>t DEF JobCommits, Idle, TypeOK
<1>6. CASE JobInterrupted
  <2>1. \A k \in Key : tries[k] \in Nat
    BY <1>t DEF TypeOK
  <2>2. interruptions \in Nat
    BY <1>t, InterruptionsType DEF TypeOK
  <2> QED BY <1>6, <2>1, <2>2 DEF JobInterrupted, Idle
<1>7. CASE UNCHANGED vars
  BY <1>7 DEF vars
<1> QED BY <1>1, <1>2, <1>3, <1>4, <1>5, <1>6, <1>7 DEF Next, Job

\* The variables of the alert subsystem keep their types.
THEOREM TypeCorrect == Spec => []TypeOK
<1>1. Init => TypeOK
  BY InitIInv DEF IInv
<1> QED BY <1>1, TypePreserved, PTL DEF Spec

\* The strengthened invariant holds in every reachable state.
THEOREM Invariance == Spec => []IInv
BY InitIInv, NextIInv, PTL DEF Spec

\* The job never writes to a customer twice, unless a run of it was cut short
\* between a send and its commit.
THEOREM DuplicatesBounded == Spec => []DuplicatesOnlyFromInterruptions
<1>1. IInv => DuplicatesOnlyFromInterruptions
  BY DEF IInv, TriesBounded, DuplicatesOnlyFromInterruptions
<1> QED BY <1>1, Invariance, PTL

\* Nobody is filed as answered to whom nothing was ever sent.
THEOREM MarkedHonest == Spec => []MarkedWasTried
<1>1. IInv => MarkedWasTried
  BY DEF IInv, SentWasTried
<1> QED BY <1>1, Invariance, PTL
-----------------------------------------------------------------------------
(* The refinement.                                                         *)

\* The initial state is the initial state of the life cycle.
LEMMA InitMaps == Init => Life!Init
BY DEF Init, Life!Init, Phase

\* Every step of the subsystem is a step of the life cycle or a stutter.
LEMMA StepMaps == IInv /\ [Next]_vars => [Life!Next]_(Life!vars)
<1> SUFFICES ASSUME IInv, [Next]_vars
             PROVE  Life!Next \/ UNCHANGED Life!vars
  OBVIOUS
<1> DEFINE Told == {k \in Key : tries[k] > 0 \/ k \in byStaff}
<1>t. TypeOK /\ OnlyAskedFor
  BY DEF IInv
<1>1. ASSUME NEW k \in Key, Subscribe(k)
      PROVE  Life!Next \/ UNCHANGED Life!vars
  <2>1. row[k] = "absent" /\ k \notin smsDate
    BY <1>1, <1>t DEF OnlyAskedFor, Subscribe
  <2>2. row' = [row EXCEPT ![k] = "live"] /\ UNCHANGED <<smsDate, tries, byStaff>>
    BY <1>1 DEF Subscribe
  <2>3. Life!Ask(k)
    BY <2>1, <2>2, <1>t DEF Life!Ask, Phase, TypeOK
  <2> QED BY <2>3 DEF Life!Next
<1>2. ASSUME NEW k \in Key, Unsubscribe(k) PROVE Life!Next
  <2>1. Life!Withdraw(k)
    BY <1>2, <1>t DEF Unsubscribe, Life!Withdraw, Phase, TypeOK
  <2> QED BY <2>1 DEF Life!Next
<1>3. ASSUME NEW Selected \in SUBSET Key, NEW committed \in BOOLEAN,
             StaffSendSms(Selected, committed)
      PROVE  Life!Next
  <2>1. PICK Items \in SUBSET Key :
               Items = IF Selected = {} THEN LiveKeys ELSE Selected
    BY DEF LiveKeys
  <2>2. PICK Filed \in {Items, {}} : smsDate' = smsDate \cup Filed
    BY <1>3, <2>1 DEF StaffSendSms
  <2>3. /\ byStaff' = byStaff \cup Items
        /\ UNCHANGED <<row, tries>>
        /\ \A k \in Items : row[k] = "live"
    BY <1>3, <2>1 DEF StaffSendSms, LiveKeys
  <2>4. Life!Tell(Items, Filed)
    BY <2>1, <2>2, <2>3 DEF Life!Tell, Phase
  <2> QED BY <2>1, <2>2, <2>4 DEF Life!Next
<1>4. ASSUME NEW k \in Key, JobSends(k)
      PROVE  Life!Next
  <2>1. /\ tries' = [tries EXCEPT ![k] = @ + 1]
        /\ tries[k] \in Nat
        /\ row[k] # "absent"
        /\ UNCHANGED <<row, smsDate, byStaff>>
    BY <1>4, <1>t DEF JobSends, TypeOK, OnlyAskedFor
  <2>2. Told' = Told \cup {k}
    BY <2>1, <1>t DEF TypeOK
  <2>3. \A j \in Key : Phase(j)' = Phase(j)
    BY <2>1 DEF Phase
  <2>4. Phase(k) # "none"
    BY <2>1 DEF Phase
  <2>5. Life!Tell({k}, {})
    BY <2>2, <2>3, <2>4 DEF Life!Tell
  <2> QED BY <2>5 DEF Life!Next
<1>5. CASE JobCommits
  <2>1. PICK Filed \in SUBSET Key : Filed = job.sent
    BY <1>t DEF TypeOK, Idle
  <2>2. /\ smsDate' = smsDate \cup Filed
        /\ UNCHANGED <<row, tries, byStaff>>
    BY <1>5, <2>1 DEF JobCommits
  <2>3. Filed \subseteq Told
    BY <2>1 DEF IInv, SentWasTried
  <2>4. Life!Tell({}, Filed)
    BY <2>1, <2>2, <2>3, <1>t DEF Life!Tell, Phase, OnlyAskedFor
  <2> QED BY <2>4 DEF Life!Next
<1>6. CASE UNCHANGED <<row, smsDate, tries, byStaff>>
  BY <1>6 DEF Life!vars, Phase
<1> QED BY <1>1, <1>2, <1>3, <1>4, <1>5, <1>6
        DEF Next, Customer, Staff, Job, StockCrossesZero, JobWakes,
            JobInterrupted, vars

\* The subscriptions, the staff page and the interruptible job together
\* implement the life cycle of a request.
THEOREM Refinement == Spec => ImplementsLifecycle
BY InitMaps, StepMaps, Invariance, PTL DEF Spec, ImplementsLifecycle, Life!Spec

-----------------------------------------------------------------------------
(* The hourly round, which runs the job.                                   *)

\* The job and the closing of tickets are at work in their part of the round.
Apart == /\ round \in Part
         /\ job # Idle => round = "alerting"
         /\ closing # T!Asleep => round = "closing"

\* Of the alerts a round does what their job does, or nothing.
LEMMA RoundStepAlerts == [RoundNext]_allVars => [Next]_vars
<1> SUFFICES ASSUME [RoundNext]_allVars PROVE [Next]_vars
  OBVIOUS
<1>1. CASE Requests
  BY <1>1 DEF Requests, Next
<1>2. CASE HourPasses \/ Closes \/ ClosingEnds
  BY <1>2 DEF HourPasses, Closes, ClosingEnds
<1>3. CASE Alerts
  BY <1>3 DEF Alerts, Next, Job
<1>4. CASE AlertsEnd
  BY <1>4 DEF AlertsEnd, NothingPending, Next, Job
<1>5. CASE RoundFails
  BY <1>5 DEF RoundFails, Next
<1>6. CASE UNCHANGED allVars
  BY <1>6 DEF allVars
<1> QED BY <1>1, <1>2, <1>3, <1>4, <1>5, <1>6 DEF RoundNext, Round

\* ... and of the tickets what theirs does.
LEMMA RoundStepTickets == [RoundNext]_allVars => [T!Next]_(T!vars)
<1> SUFFICES ASSUME [RoundNext]_allVars PROVE T!Next \/ UNCHANGED T!vars
  OBVIOUS
<1>1. CASE UNCHANGED ticketVars
  BY <1>1 DEF ticketVars, T!vars
<1>2. CASE Requests
  BY <1>1, <1>2 DEF Requests, T!Next
<1>3. CASE HourPasses \/ Alerts \/ AlertsEnd
  BY <1>1, <1>3 DEF HourPasses, Alerts, AlertsEnd
<1>4. CASE Closes
  BY <1>4 DEF Closes, T!Next, T!Job
<1>5. CASE ClosingEnds
  BY <1>1, <1>5 DEF ClosingEnds, NothingStale, T!Next, T!Job
<1>6. CASE RoundFails
  BY <1>1, <1>6 DEF RoundFails, T!Next
<1>7. CASE UNCHANGED allVars
  BY <1>1, <1>7 DEF allVars
<1> QED BY <1>2, <1>3, <1>4, <1>5, <1>6, <1>7 DEF RoundNext, Round

\* The safety part of ServesAlerts: whatever ends a round, nothing happens to an
\* alert that could not happen if its job ran on its own.
THEOREM RoundIsAlerts == RoundSpec => Spec
<1>1. RoundInit => Init
  BY DEF RoundInit
<1> QED BY <1>1, RoundStepAlerts, PTL DEF RoundSpec, Spec

\* The safety part of ServesTickets, likewise.
THEOREM RoundIsTickets == RoundSpec => T!Spec
<1>1. RoundInit => T!Init
  BY DEF RoundInit
<1> QED BY <1>1, RoundStepTickets, PTL DEF RoundSpec, T!Spec

\* So the alerts keep their promises in the round: no duplicate but after an
\* interruption, nobody filed as answered to whom nothing was sent, and the
\* life cycle of a request.
THEOREM RoundKeepsAlerts ==
    RoundSpec => /\ []DuplicatesOnlyFromInterruptions
                 /\ []MarkedWasTried
                 /\ ImplementsLifecycle
BY RoundIsAlerts, DuplicatesBounded, MarkedHonest, Refinement, PTL

-----------------------------------------------------------------------------
(* The theorems about the tickets are proved in a module of their own.     *)

TP == INSTANCE Tickets_proofs WITH job <- closing, interruptions <- closingsCut,
                                   MaxInterruptions <- MaxClosingsCut

\* T and TP have the same tickets.
LEMMA SameTickets ==
    /\ UNCHANGED T!vars <=> UNCHANGED TP!vars
    /\ T!Init <=> TP!Init
    /\ T!TypeOK <=> TP!TypeOK
<1>1. /\ T!Free = TP!Free /\ T!Asleep = TP!Asleep
      /\ T!Status = TP!Status /\ T!Author = TP!Author
  BY DEF T!Free, TP!Free, T!Asleep, TP!Asleep, T!Status, TP!Status, T!Author, TP!Author
<1>2. T!Request = TP!Request
  BY <1>1 DEF T!Request, TP!Request
<1> QED BY <1>1, <1>2 DEF T!vars, TP!vars, T!Init, TP!Init, T!TypeOK, TP!TypeOK

LEMMA SameNext == T!Next <=> TP!Next
<1>1. \A t \in Slot : T!Handler(t) <=> TP!Handler(t)
  <2> SUFFICES ASSUME NEW t \in Slot PROVE T!Handler(t) <=> TP!Handler(t)
    OBVIOUS
  <2>1. T!Free = TP!Free /\ T!Author = TP!Author
    BY DEF T!Free, TP!Free, T!Author, TP!Author
  <2>2. \A k \in Ticket, does \in T!Author \cup {"close"} :
           T!Begin(t, k, does) <=> TP!Begin(t, k, does)
    BY <2>1 DEF T!Begin, TP!Begin, T!AtWork, TP!AtWork
  <2>3. T!ReplyCommits(t) <=> TP!ReplyCommits(t)
    BY <2>1 DEF T!ReplyCommits, TP!ReplyCommits, T!Replied, TP!Replied, T!Assign, TP!Assign
  <2>4. T!CloseCommits(t) <=> TP!CloseCommits(t)
    BY <2>1 DEF T!CloseCommits, TP!CloseCommits, T!Assign, TP!Assign
  <2>5. T!RequestEnds(t) <=> TP!RequestEnds(t)
    BY <2>1 DEF T!RequestEnds, TP!RequestEnds
  <2> QED BY <2>1, <2>2, <2>3, <2>4, <2>5 DEF T!Handler, TP!Handler
<1>2. (T!Job \/ T!JobInterrupted) <=> (TP!Job \/ TP!JobInterrupted)
  <2>1. T!Live = TP!Live /\ T!Asleep = TP!Asleep /\ T!Free = TP!Free
    BY DEF T!Live, TP!Live, T!Asleep, TP!Asleep, T!Free, TP!Free
  <2>2. T!JobLists <=> TP!JobLists
    BY <2>1 DEF T!JobLists, TP!JobLists, T!AtWork, TP!AtWork
  <2>3. T!JobWeighs <=> TP!JobWeighs
    BY DEF T!JobWeighs, TP!JobWeighs
  <2>4. T!JobCommits <=> TP!JobCommits
    BY <2>1 DEF T!JobCommits, TP!JobCommits
  <2>5. T!JobInterrupted <=> TP!JobInterrupted
    BY <2>1 DEF T!JobInterrupted, TP!JobInterrupted
  <2> QED BY <2>2, <2>3, <2>4, <2>5 DEF T!Job, TP!Job
<1>3. \A k \in Ticket : T!Create(k) \/ T!WeekPasses(k) <=> TP!Create(k) \/ TP!WeekPasses(k)
  BY DEF T!Create, TP!Create, T!WeekPasses, TP!WeekPasses
<1> QED BY <1>1, <1>2, <1>3 DEF T!Next, TP!Next

LEMMA RoundHasTickets == RoundSpec => TP!Spec
<1>1. RoundInit => TP!Init
  BY SameTickets DEF RoundInit
<1>2. [RoundNext]_allVars => [TP!Next]_(TP!vars)
  BY RoundStepTickets, SameTickets, SameNext
<1> QED BY <1>1, <1>2, PTL DEF RoundSpec, TP!Spec

\* The tickets keep theirs: the status tells who wrote last, and the job closes
\* what is idle to the end.
THEOREM RoundKeepsTickets ==
    RoundSpec => []T!StatusTellsAuthor /\ T!ClosedWasIdle /\ T!ClosedStaysClosed
<1>1. T!StatusTellsAuthor <=> TP!StatusTellsAuthor
  BY DEF T!StatusTellsAuthor, TP!StatusTellsAuthor
<1>2. T!JobCommits <=> TP!JobCommits
  BY DEF T!JobCommits, TP!JobCommits, T!Asleep, TP!Asleep
<1>3. [TP!JobCommits => \A k \in (closing.closing \ contended) : k \in idle]_(TP!vars)
       => [T!JobCommits => \A k \in (closing.closing \ contended) : k \in idle]_(T!vars)
  BY <1>2, SameTickets
<1>4. [\A k \in Ticket \ contended : status[k] = "Closed" => status'[k] = "Closed"]_(TP!vars)
       => [\A k \in Ticket \ contended : status[k] = "Closed" => status'[k] = "Closed"]_(T!vars)
  BY SameTickets
<1>5. TP!ClosedWasIdle => T!ClosedWasIdle
  BY <1>3, PTL DEF T!ClosedWasIdle, TP!ClosedWasIdle
<1>6. TP!ClosedStaysClosed => T!ClosedStaysClosed
  BY <1>4, PTL DEF T!ClosedStaysClosed, TP!ClosedStaysClosed
<1> QED BY <1>1, <1>5, <1>6, RoundHasTickets, TP!TellsAuthor, TP!JobClosesIdle,
           TP!ClosedForGood, ClosingsCutType, PTL

-----------------------------------------------------------------------------
(* The parts of a round do not meet.                                       *)

LEMMA InitApart == RoundInit => Apart
BY DEF RoundInit, Init, T!Init, Apart, Part

LEMMA StepApart == TypeOK /\ T!TypeOK /\ Apart /\ [RoundNext]_allVars => Apart'
<1> SUFFICES ASSUME TypeOK, T!TypeOK, Apart, [RoundNext]_allVars PROVE Apart'
  OBVIOUS
<1> USE DEF Apart, Part
<1>1. CASE Requests
  <2>1. job' = job /\ round' = round
    BY <1>1 DEF Requests, Customer, Staff, Subscribe, Unsubscribe, StockCrossesZero,
                StaffSendSms, vars
  <2>2. closing' = closing
    BY <1>1 DEF Requests, ticketVars, T!Create, T!WeekPasses, T!Handler, T!Begin,
                T!ReplyCommits, T!CloseCommits, T!RequestEnds
  <2> QED BY <2>1, <2>2
<1>2. CASE HourPasses
  BY <1>2 DEF HourPasses, Goto, vars, ticketVars
<1>3. CASE Closes
  BY <1>3 DEF Closes, vars
<1>4. CASE ClosingEnds
  BY <1>4 DEF ClosingEnds, Goto, vars, NothingStale, ticketVars, T!JobCommits
<1>5. CASE Alerts
  BY <1>5 DEF Alerts, ticketVars
<1>6. CASE AlertsEnd
  BY <1>6 DEF AlertsEnd, Goto, ticketVars, NothingPending, vars, JobCommits
<1>7. CASE RoundFails
  BY <1>7 DEF RoundFails, Goto, vars, ticketVars, JobInterrupted, T!JobInterrupted
<1>8. CASE UNCHANGED allVars
  BY <1>8 DEF allVars, vars, ticketVars
<1> QED BY <1>1, <1>2, <1>3, <1>4, <1>5, <1>6, <1>7, <1>8 DEF RoundNext, Round

\* Every variable of the round keeps its type, and what one part has begun is
\* over before another part begins, however rounds end.
THEOREM RoundTypeCorrect == RoundSpec => []RoundTypeOK
<1>1. RoundSpec => []TypeOK
  BY RoundIsAlerts, TypeCorrect, PTL
<1>2. RoundSpec => []T!TypeOK
  <2>1. TP!TypeOK <=> T!TypeOK
    BY SameTickets
  <2> QED BY <2>1, RoundHasTickets, TP!TypeCorrect, ClosingsCutType, PTL
<1>3. RoundSpec => []Apart
  BY <1>1, <1>2, InitApart, StepApart, PTL DEF RoundSpec
<1>4. TypeOK /\ T!TypeOK /\ Apart => RoundTypeOK
  BY DEF Apart, RoundTypeOK
<1> QED BY <1>1, <1>2, <1>3, <1>4, PTL
=============================================================================
