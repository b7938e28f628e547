----------------------------- MODULE OrderPayment -----------------------------
(***************************************************************************)
(* How a placed order gets paid: the customer files bank receipts, the     *)
(* finance clerks confirm, reject or delete them, the gateway's callback   *)
(* reports online payments, and staff change the status, the amount and    *)
(* the payments by hand.  The handlers of one order share nothing with     *)
(* those of another, so the module follows a single order.                 *)
(*                                                                         *)
(* A handler reads, decides on what it has read and writes in a later      *)
(* commit.  A row whose update was already flushed is locked until then.   *)
(*                                                                         *)
(* Online payments exist as rows taken over from the former shop:          *)
(* payment_request inserts a row without its mandatory columns, which the  *)
(* database refuses, so it never adds one.                                 *)
(***************************************************************************)
EXTENDS Naturals, FiniteSets, Functions

CONSTANTS
    Receipt,      \* the receipts that may be filed
    Payment,      \* the online payments of the order
    Slot,         \* how many requests run at the same time
    Price,        \* amounts of money
    StaffStatus,  \* statuses staff set, leaving a record
    FormStatus,   \* statuses staff set in the edit form, leaving none
    ManyClerks    \* whether two requests of staff may run at the same time

OrderStatus == {"Ordering", "AwaitingPayment", "Paid", "ConfirmedPayment",
                "Processing", "Sending", "Canceled", "NeedsToBeChecked"}

ASSUME PricesType == Price \subseteq Nat \ {0}
ASSUME StatusesType == StaffStatus \cup FormStatus \subseteq OrderStatus
ASSUME ClerksType == ManyClerks \in BOOLEAN
ASSUME IdsType == Receipt \cap Payment = {}

ReceiptStatus == {"AwaitingConfirmation", "Confirmed", "Failed"}
PaymentStatus == {"Paying", "Success", "Canceled"}

ReceiptRow == [price : Price, status : ReceiptStatus, removed : BOOLEAN]
PaymentRow == [amount : Price, status : PaymentStatus, removed : BOOLEAN]

VARIABLES
    order,     \* the row of Orders: status, payable, removed
    trail,     \* status of the newest OrderStatusRecord, or "none"
    receipts,  \* the order's rows of Receipts
    payments,  \* the order's rows of PaymentRequests
    gateway,   \* what the gateway knows of each payment
    byHand,    \* payments staff have edited
    req        \* what each request slot is doing

vars == <<order, trail, receipts, payments, gateway, byHand, req>>

Idle == [pc |-> "idle"]

StaffKinds == {"confirm", "reject", "delete", "status", "form"}
Kinds == StaffKinds \cup {"register", "verify", "cancel"}

\* A request at work: the row it is about and the status it read there, the
\* order's status and amount it read, and the order status it decided on (or,
\* of a callback still begun, the one the gateway's answer calls for).
Request == [pc : {"begun", "decided"}, kind : Kinds,
            id : Receipt \cup Payment \cup {"order"},
            was : ReceiptStatus \cup PaymentStatus \cup {"none"},
            price : Price \cup {0}, payable : Price, seen : OrderStatus,
            verdict : OrderStatus \cup {"none"}]

TypeOK == /\ order \in [status : OrderStatus, payable : Price, removed : BOOLEAN]
          /\ trail \in OrderStatus \cup {"none"}
          /\ DOMAIN receipts \subseteq Receipt
          /\ \A r \in DOMAIN receipts : receipts[r] \in ReceiptRow
          /\ payments \in [Payment -> PaymentRow]
          /\ gateway \in [Payment -> {"open", "paid", "verified"}]
          /\ byHand \subseteq Payment
          /\ req \in [Slot -> {Idle} \cup Request]

\* A draft, or an order pay_ordering_order has just placed.
Init == /\ \E s \in {"Ordering", "AwaitingPayment"}, n \in Price :
              /\ order = [status |-> s, payable |-> n, removed |-> FALSE]
              /\ trail = IF s = "Ordering" THEN "none" ELSE s
        /\ receipts = [r \in {} |-> {}]
        /\ payments \in [Payment -> [amount : Price, status : {"Paying"},
                                     removed : {FALSE}]]
        /\ gateway = [p \in Payment |-> "open"]
        /\ byHand = {}
        /\ req = [t \in Slot |-> Idle]

-----------------------------------------------------------------------------
InFlight(t) == req[t] # Idle

ClerkFree == ManyClerks \/ \A t \in Slot : InFlight(t) => req[t].kind \notin StaffKinds

\* The row x has an update of another request that is not committed yet.
Locked(t, x) == \E u \in Slot \ {t} : /\ InFlight(u)
                                      /\ req[u].pc = "decided"
                                      /\ req[u].kind \in {"confirm", "verify", "cancel"}
                                      /\ req[u].id = x

Live == {r \in DOMAIN receipts : ~receipts[r].removed}
Claimed == {r \in Live : receipts[r].status # "Failed"}
Succeeded == {p \in Payment : payments[p].status = "Success" /\ ~payments[p].removed}

Prices(S) == [r \in S |-> receipts[r].price]
Online == SumFunction([p \in Succeeded |-> payments[p].amount])

\* An assignment writes its column only if it changes what was loaded.
Assign(loaded, new, stored) == IF new = loaded THEN stored ELSE new

Session(pc, kind, id, was, price, verdict) ==
    [pc |-> pc, kind |-> kind, id |-> id, was |-> was, price |-> price,
     payable |-> order.payable, seen |-> order.status, verdict |-> verdict]

Begin(t, session) == /\ ~InFlight(t)
                     /\ req' = [req EXCEPT ![t] = session]
                     /\ UNCHANGED <<order, trail, receipts, payments, gateway, byHand>>

\* The request of t once it has decided on the order's new status.
Ruling(t, seen, payable, verdict) ==
    [req[t] EXCEPT !.pc = "decided", !.seen = seen, !.payable = payable,
                   !.verdict = verdict]

Decide(t, seen, payable, verdict) ==
    /\ req' = [req EXCEPT ![t] = Ruling(t, seen, payable, verdict)]
    /\ UNCHANGED <<order, trail, receipts, payments, byHand>>

At(t, pc, kind) == InFlight(t) /\ req[t].pc = pc /\ req[t].kind = kind

\* Mutant: a canceled payment leaves no record.
OrderCommitsQuietly(t) ==
    /\ order' = IF req[t].verdict = "none" THEN order
                ELSE [order EXCEPT !.status = Assign(req[t].seen, req[t].verdict, @)]
    /\ trail' = IF req[t].verdict = "none" \/ req[t].kind \in {"form", "cancel"} THEN trail
                ELSE req[t].verdict
    /\ req' = [req EXCEPT ![t] = Idle]
    /\ UNCHANGED <<gateway, byHand>>

\* The part of a commit that is about the order: its status, and the record
\* of it that every handler but the edit form adds.
OrderCommits(t) ==
    /\ order' = IF req[t].verdict = "none" THEN order
                ELSE [order EXCEPT !.status = Assign(req[t].seen, req[t].verdict, @)]
    /\ trail' = IF req[t].verdict = "none" \/ req[t].kind = "form" THEN trail
                ELSE req[t].verdict
    /\ req' = [req EXCEPT ![t] = Idle]
    /\ UNCHANGED <<gateway, byHand>>

\* The status an amount of money makes of an order.
Weigh(total, payable, exact) == IF total = payable THEN exact
                                ELSE IF total > payable THEN "NeedsToBeChecked"
                                ELSE "none"

-----------------------------------------------------------------------------
(* The customer: profile_register_receipt_submit.                          *)

\* The form takes any order of the customer, in any status.
RegisterReads(t, r, price) ==
    /\ r \notin DOMAIN receipts
    /\ \A u \in Slot : ~(InFlight(u) /\ req[u].id = r)
    /\ ~order.removed
    /\ Begin(t, Session("begun", "register", r, "none", price, "none"))

\* The new row has no id when the query is built, so `id != None' excludes
\* nothing; the query flushes the row first and so finds it.
Found(t) == [r \in Claimed \cup {req[t].id} |->
                IF r = req[t].id THEN req[t].price ELSE receipts[r].price]

RegisterSums(t) ==
    /\ At(t, "begun", "register")
    /\ LET total == req[t].price + SumFunction(Found(t)) + Online IN
       Decide(t, req[t].seen, req[t].payable, Weigh(total, req[t].payable, "Paid"))
    /\ UNCHANGED gateway

RegisterCommits(t) ==
    /\ At(t, "decided", "register")
    /\ receipts' = [r \in DOMAIN receipts \cup {req[t].id} |->
                      IF r = req[t].id
                      THEN [price |-> req[t].price, removed |-> FALSE,
                            status |-> "AwaitingConfirmation"]
                      ELSE receipts[r]]
    /\ OrderCommits(t)
    /\ UNCHANGED payments

-----------------------------------------------------------------------------
(* The finance clerks: confirm, reject and delete a receipt.               *)

ConfirmReads(t, r) ==
    /\ ClerkFree
    /\ r \in Live
    /\ Begin(t, Session("begun", "confirm", r, receipts[r].status, 0, "none"))

\* The receipt's status as the transaction of t has flushed it.
Flushed(t, r) == IF r = req[t].id
                 THEN Assign(req[t].was, "Confirmed", receipts[r].status)
                 ELSE receipts[r].status

\* Mutant: the money still waiting for confirmation counts.
ConfirmedOrWaiting(t) == {r \in Live : Flushed(t, r) # "Failed"}

Confirmed(t) == {r \in Live : Flushed(t, r) = "Confirmed"}

\* The receipt's update is flushed, then the order is read and the confirmed
\* money is summed up.
ConfirmDecides(t) ==
    /\ At(t, "begun", "confirm")
    /\ ~Locked(t, req[t].id)
    /\ LET total == SumFunction(Prices(Confirmed(t))) + Online
           concerned == ~order.removed /\ order.status \in {"AwaitingPayment", "Paid"} IN
       Decide(t, order.status, order.payable,
              IF concerned THEN Weigh(total, order.payable, "ConfirmedPayment")
              ELSE "none")
    /\ UNCHANGED gateway

Judged(t, status) ==
    receipts' = [receipts EXCEPT ![req[t].id].status = Assign(req[t].was, status, @)]

ConfirmCommits(t) ==
    /\ At(t, "decided", "confirm")
    /\ Judged(t, "Confirmed")
    /\ OrderCommits(t)
    /\ UNCHANGED payments

\* A receipt in any status can be rejected; the order is left alone.
RejectReads(t, r) ==
    /\ ClerkFree
    /\ r \in Live
    /\ Begin(t, Session("begun", "reject", r, receipts[r].status, 0, "none"))

RejectCommits(t) ==
    /\ At(t, "begun", "reject")
    /\ ~Locked(t, req[t].id)
    /\ Judged(t, "Failed")
    /\ OrderCommits(t)
    /\ UNCHANGED payments

\* Mutant: a receipt in any status can be deleted.
DeleteReadsAny(t, r) ==
    /\ ClerkFree
    /\ r \in Live
    /\ Begin(t, Session("begun", "delete", r, receipts[r].status, 0, "none"))

DeleteReads(t, r) ==
    /\ ClerkFree
    /\ r \in Live
    /\ receipts[r].status = "AwaitingConfirmation"
    /\ Begin(t, Session("begun", "delete", r, receipts[r].status, 0, "none"))

DeleteCommits(t) ==
    /\ At(t, "begun", "delete")
    /\ ~Locked(t, req[t].id)
    /\ receipts' = [receipts EXCEPT ![req[t].id].removed = TRUE]
    /\ OrderCommits(t)
    /\ UNCHANGED payments

-----------------------------------------------------------------------------
(* The gateway and its callback: verify_payment.                           *)

CustomerPays(p) ==
    /\ gateway[p] = "open"
    /\ gateway' = [gateway EXCEPT ![p] = "paid"]
    /\ UNCHANGED <<order, trail, receipts, payments, byHand, req>>

\* The browser comes back from the gateway: with OK once the payment was
\* made, or with NOK after the customer has left the gateway's page, be it
\* before a second try.  Pages are reloaded, so both come at any later time.
CallbackReads(t, p, kind) ==
    /\ kind = "verify" => gateway[p] # "open"
    /\ ~payments[p].removed
    /\ Begin(t, Session("begun", kind, p, payments[p].status, 0, "none"))

\* Mutant: the result code goes into the status.
CancelDecidesByCode(t) ==
    /\ At(t, "begun", "cancel")
    /\ ~Locked(t, req[t].id)
    /\ Decide(t, order.status, req[t].payable, "CANCELED_BY_USER")
    /\ UNCHANGED gateway

\* Status NOK: the payment's update is flushed, then the order is read.
CancelDecides(t) ==
    /\ At(t, "begun", "cancel")
    /\ ~Locked(t, req[t].id)
    /\ Decide(t, order.status, req[t].payable, "Canceled")
    /\ UNCHANGED gateway

\* A callback that has got the gateway's answer.
Heard(t, verdict) == [req[t] EXCEPT !.verdict = verdict]

\* Status OK: the gateway answers 100 the first time, 101 from then on, or
\* an error before it has verified the payment.
GatewayAnswers(t, verified) ==
    /\ At(t, "begun", "verify")
    /\ req[t].verdict = "none"
    /\ gateway[req[t].id] = "verified" => verified
    /\ gateway' = IF verified THEN [gateway EXCEPT ![req[t].id] = "verified"] ELSE gateway
    /\ req' = [req EXCEPT ![t] = Heard(t, IF verified THEN "Paid" ELSE "Canceled")]
    /\ UNCHANGED <<order, trail, receipts, payments, byHand>>

\* The answer's result code goes into the payment, whose update is flushed;
\* then the order is read.
AnswerDecides(t) ==
    /\ At(t, "begun", "verify")
    /\ req[t].verdict # "none"
    /\ ~Locked(t, req[t].id)
    /\ Decide(t, order.status, req[t].payable, req[t].verdict)
    /\ UNCHANGED gateway

\* Mutant: the callback's own word is taken for the gateway's.
CallbackCommitsTrusting(t) ==
    /\ InFlight(t)
    /\ req[t].pc = "decided"
    /\ req[t].kind \in {"verify", "cancel"}
    /\ LET outcome == IF req[t].kind = "verify" THEN "Success" ELSE "Canceled" IN
       payments' = [payments EXCEPT ![req[t].id].status = Assign(req[t].was, outcome, @)]
    /\ OrderCommits(t)
    /\ UNCHANGED receipts

CallbackCommits(t) ==
    /\ InFlight(t)
    /\ req[t].pc = "decided"
    /\ req[t].kind \in {"verify", "cancel"}
    /\ LET outcome == IF req[t].verdict = "Paid" THEN "Success" ELSE "Canceled" IN
       payments' = [payments EXCEPT ![req[t].id].status = Assign(req[t].was, outcome, @)]
    /\ OrderCommits(t)
    /\ UNCHANGED receipts

-----------------------------------------------------------------------------
(* Staff who change the order and its payments by hand.                    *)

\* admin_order_update_status and update_order_status; the edit form of
\* admin_order_edit_submit.
StatusReads(t, s) ==
    /\ ClerkFree
    /\ Begin(t, Session("decided", "status", "order", "none", 0, s))

FormReads(t, s) ==
    /\ ClerkFree
    /\ ~order.removed
    /\ s # order.status
    /\ Begin(t, Session("decided", "form", "order", "none", 0, s))

StatusCommits(t) ==
    /\ At(t, "decided", "status") \/ At(t, "decided", "form")
    /\ OrderCommits(t)
    /\ UNCHANGED <<receipts, payments>>

\* The order's lines are edited: the amount follows, the status does not.
Reprice(n) ==
    /\ ClerkFree
    /\ order' = [order EXCEPT !.payable = n]
    /\ UNCHANGED <<trail, receipts, payments, gateway, byHand, req>>

DeleteOrder ==
    /\ ClerkFree
    /\ ~order.removed
    /\ order' = [order EXCEPT !.removed = TRUE]
    /\ UNCHANGED <<trail, receipts, payments, gateway, byHand, req>>

\* admin_payment_request_edit_submit, admin_payment_request_delete
EditPayment(p, status, amount) ==
    /\ ClerkFree
    /\ \A t \in Slot : ~Locked(t, p)
    /\ payments' = [payments EXCEPT ![p] = [amount |-> amount, status |-> status,
                                            removed |-> payments[p].removed]]
    /\ byHand' = byHand \cup {p}
    /\ UNCHANGED <<order, trail, receipts, gateway, req>>

DeletePayment(p) ==
    /\ ClerkFree
    /\ \A t \in Slot : ~Locked(t, p)
    /\ ~payments[p].removed
    /\ payments' = [payments EXCEPT ![p].removed = TRUE]
    /\ UNCHANGED <<order, trail, receipts, gateway, byHand, req>>

\* Any request may end without a commit: the connection or the gateway's
\* answer is lost, the server stops.  Its transaction is void.
RequestEnds(t) ==
    /\ InFlight(t)
    /\ req' = [req EXCEPT ![t] = Idle]
    /\ UNCHANGED <<order, trail, receipts, payments, gateway, byHand>>

-----------------------------------------------------------------------------
Customer(t) == \/ \E r \in Receipt, price \in Price : RegisterReads(t, r, price)
               \/ RegisterSums(t)
               \/ RegisterCommits(t)

Clerk(t) == \/ \E r \in Receipt : ConfirmReads(t, r) \/ RejectReads(t, r) \/ DeleteReads(t, r)
            \/ ConfirmDecides(t) \/ ConfirmCommits(t)
            \/ RejectCommits(t) \/ DeleteCommits(t)
            \/ \E s \in StaffStatus : StatusReads(t, s)
            \/ \E s \in FormStatus : FormReads(t, s)
            \/ StatusCommits(t)

Callback(t) == \/ \E p \in Payment, kind \in {"verify", "cancel"} : CallbackReads(t, p, kind)
               \/ CancelDecides(t)
               \/ \E verified \in BOOLEAN : GatewayAnswers(t, verified)
               \/ AnswerDecides(t)
               \/ CallbackCommits(t)

ByHand == \/ \E n \in Price : Reprice(n)
          \/ DeleteOrder
          \/ \E p \in Payment : \/ DeletePayment(p)
                                \/ \E s \in PaymentStatus, n \in Price : EditPayment(p, s, n)

Next == \/ \E t \in Slot : Customer(t) \/ Clerk(t) \/ Callback(t) \/ RequestEnds(t)
        \/ \E p \in Payment : CustomerPays(p)
        \/ ByHand

Spec == Init /\ [][Next]_vars

-----------------------------------------------------------------------------
(* Properties.                                                             *)

\* What the confirmed receipts and the successful payments add up to.
Banked == SumFunction(Prices({r \in Live : receipts[r].status = "Confirmed"})) + Online

\* Whatever callbacks, retries and lost answers there are, a payment is only
\* recorded as successful when the gateway has verified it, or by hand.
SuccessWasVerified ==
    \A p \in Payment : payments[p].status = "Success" =>
        gateway[p] = "verified" \/ p \in byHand

\* "Set receipt status to Confirmed, then update order status": a confirmation
\* that completes the amount accepts the order, and none accepts it otherwise,
\* while customers go on filing receipts; if the clerks work one at a time.
AcceptanceIsCovered ==
    [][\A t \in Slot : ConfirmCommits(t) =>
          /\ req[t].verdict = "ConfirmedPayment" => Banked' = order'.payable
          /\ (/\ Banked' = order'.payable
              /\ ~order.removed
              /\ req[t].seen \in {"AwaitingPayment", "Paid"})
                  => order'.status = "ConfirmedPayment"]_vars

\* "Only receipts awaiting confirmation can be deleted", and a deleted receipt
\* is never judged: the clerks' checks hold at the commit, if they work one at
\* a time.
DeletedWasUnjudged ==
    \A r \in DOMAIN receipts : receipts[r].removed =>
        receipts[r].status = "AwaitingConfirmation"

\* The status records tell the order's status, whichever handler changed it
\* last; the edit form aside, and if requests do not overlap.
TrailTellsStatus ==
    trail = order.status \/ (trail = "none" /\ order.status = "Ordering")

\* "Accept payment": an order a receipt makes Paid has as much money claimed
\* as it costs.
PaidIsCovered ==
    [][\A t \in Slot : RegisterCommits(t) /\ req[t].verdict = "Paid"
          => SumFunction(Prices(Claimed))' + Online' >= order'.payable]_vars

\* "Payment was canceled by user": no callback files a payment the gateway
\* has verified, and the shop has recorded, as canceled.
SuccessIsNotCanceled ==
    [][\A t \in Slot, p \in Payment :
          CallbackCommits(t) /\ payments[p].status = "Success" /\ p \notin byHand
              => payments'[p].status = "Success"]_vars
=============================================================================
