------------------------- MODULE OrderPayment_proofs -------------------------
(***************************************************************************)
(* Theorems about the payment of an order, for any number of receipts,     *)
(* payments, request slots and amounts.  Types and SuccessWasVerified hold *)
(* however requests overlap; the rest says with each theorem what must not *)
(* overlap, which is that staff work one at a time, or less.               *)
(***************************************************************************)
EXTENDS OrderPayment, TLAPS

ReceiptKinds == {"register", "confirm", "reject", "delete"}
CallbackKinds == {"verify", "cancel"}

\* A request is about a row of its kind, and a filed receipt has a price.
Aimed == \A t \in Slot : InFlight(t) =>
    /\ req[t].kind \in ReceiptKinds => req[t].id \in Receipt
    /\ req[t].kind \in CallbackKinds => req[t].id \in Payment
    /\ req[t].kind = "register" => req[t].price \in Price

\* A callback that is about to report success has the gateway's word for it,
\* and a cancellation never reports success.
Reports == \A t \in Slot : InFlight(t) =>
    /\ req[t].kind = "verify" /\ req[t].verdict = "Paid" => gateway[req[t].id] = "verified"
    /\ req[t].kind = "cancel" /\ req[t].pc = "decided" => req[t].verdict = "Canceled"

TInv == TypeOK /\ Aimed

VInv == TInv /\ Reports /\ SuccessWasVerified

-----------------------------------------------------------------------------
(* Lemmas about the operators.                                             *)

\* What a request in flight is.
LEMMA Flying ==
    ASSUME TypeOK, NEW t \in Slot, InFlight(t)
    PROVE  /\ req[t] \in Request
           /\ req[t] = [pc |-> req[t].pc, kind |-> req[t].kind, id |-> req[t].id,
                        was |-> req[t].was, price |-> req[t].price,
                        payable |-> req[t].payable, seen |-> req[t].seen,
                        verdict |-> req[t].verdict]
<1>1. req[t] \in Request
  BY DEF TypeOK, InFlight
<1> QED BY <1>1 DEF Request

\* A session on a known row is a request.
LEMMA SessionType ==
    ASSUME TypeOK,
           NEW pc \in {"begun", "decided"}, NEW kind \in Kinds,
           NEW id \in Receipt \cup Payment \cup {"order"},
           NEW was \in ReceiptStatus \cup PaymentStatus \cup {"none"},
           NEW price \in Price \cup {0}, NEW verdict \in OrderStatus \cup {"none"}
    PROVE  Session(pc, kind, id, was, price, verdict) \in Request
BY DEF Session, Request, TypeOK

\* What a decision makes of the request that takes it.
LEMMA RulingType ==
    ASSUME NEW t \in Slot, req[t] \in Request, NEW seen \in OrderStatus,
           NEW payable \in Price, NEW verdict \in OrderStatus \cup {"none"}
    PROVE  /\ Ruling(t, seen, payable, verdict) \in Request
           /\ Ruling(t, seen, payable, verdict).pc = "decided"
           /\ Ruling(t, seen, payable, verdict).kind = req[t].kind
           /\ Ruling(t, seen, payable, verdict).id = req[t].id
           /\ Ruling(t, seen, payable, verdict).was = req[t].was
           /\ Ruling(t, seen, payable, verdict).price = req[t].price
           /\ Ruling(t, seen, payable, verdict).seen = seen
           /\ Ruling(t, seen, payable, verdict).verdict = verdict
BY DEF Ruling, Request

\* What the gateway's answer makes of the callback that asked.
LEMMA HeardType ==
    ASSUME NEW t \in Slot, req[t] \in Request, NEW verdict \in OrderStatus
    PROVE  /\ Heard(t, verdict) \in Request
           /\ Heard(t, verdict).pc = req[t].pc
           /\ Heard(t, verdict).kind = req[t].kind
           /\ Heard(t, verdict).id = req[t].id
           /\ Heard(t, verdict).price = req[t].price
           /\ Heard(t, verdict).verdict = verdict
BY DEF Heard, Request

\* Weighing money gives the status asked for, or one of two others.
LEMMA WeighType ==
    ASSUME NEW total, NEW payable, NEW exact \in OrderStatus
    PROVE  Weigh(total, payable, exact) \in OrderStatus \cup {"none"}
BY DEF Weigh, OrderStatus

\* A request may be replaced by another one, or by none.
LEMMA SlotType ==
    ASSUME TypeOK, NEW t \in Slot, NEW session \in {Idle} \cup Request,
           req' = [req EXCEPT ![t] = session]
    PROVE  /\ req' \in [Slot -> {Idle} \cup Request]
           /\ req'[t] = session
           /\ \A x \in Slot \ {t} : req'[x] = req[x]
BY DEF TypeOK

\* A commit keeps the types of the order, its trail and the slots.
LEMMA OrderCommitsType ==
    ASSUME TypeOK, NEW t \in Slot, InFlight(t), OrderCommits(t)
    PROVE  /\ order' \in [status : OrderStatus, payable : Price, removed : BOOLEAN]
           /\ trail' \in OrderStatus \cup {"none"}
           /\ req' \in [Slot -> {Idle} \cup Request]
           /\ req'[t] = Idle
           /\ \A x \in Slot \ {t} : req'[x] = req[x]
           /\ gateway' = gateway /\ byHand' = byHand
<1>1. req[t] \in Request
  BY Flying
<1>2. /\ req[t].verdict \in OrderStatus \cup {"none"}
      /\ req[t].seen \in OrderStatus
  BY <1>1 DEF Request
<1>3. order' \in [status : OrderStatus, payable : Price, removed : BOOLEAN]
  BY <1>2 DEF OrderCommits, Assign, TypeOK
<1>4. trail' \in OrderStatus \cup {"none"}
  BY <1>2 DEF OrderCommits, TypeOK
<1>5. /\ req' \in [Slot -> {Idle} \cup Request]
      /\ req'[t] = Idle
      /\ \A x \in Slot \ {t} : req'[x] = req[x]
  BY SlotType DEF OrderCommits
<1> QED BY <1>3, <1>4, <1>5 DEF OrderCommits

\* An order is Idle or in flight after a request has been put into a slot.
LEMMA Put ==
    ASSUME TypeOK, Aimed, NEW t \in Slot, NEW session \in Request,
           req' = [req EXCEPT ![t] = session],
           session.kind \in ReceiptKinds => session.id \in Receipt,
           session.kind \in CallbackKinds => session.id \in Payment,
           session.kind = "register" => session.price \in Price
    PROVE  Aimed'
<1>1. /\ req'[t] = session
      /\ \A x \in Slot \ {t} : req'[x] = req[x]
  BY SlotType
<1> QED BY <1>1 DEF Aimed, InFlight

\* ... and a slot that is emptied changes nothing.
LEMMA Emptied ==
    ASSUME TypeOK, Aimed, NEW t \in Slot, req' = [req EXCEPT ![t] = Idle]
    PROVE  Aimed'
<1>1. /\ req'[t] = Idle
      /\ \A x \in Slot \ {t} : req'[x] = req[x]
  BY SlotType
<1> QED BY <1>1 DEF Aimed, InFlight

-----------------------------------------------------------------------------
(* Types.                                                                  *)

LEMMA InitTyped == Init => TInv
<1> SUFFICES ASSUME Init PROVE TInv
  OBVIOUS
<1>1. order \in [status : OrderStatus, payable : Price, removed : BOOLEAN]
  BY DEF Init, OrderStatus
<1>2. trail \in OrderStatus \cup {"none"}
  BY DEF Init, OrderStatus
<1>3. payments \in [Payment -> PaymentRow]
  BY DEF Init, PaymentRow, PaymentStatus
<1>4. DOMAIN receipts = {}
  BY DEF Init
<1>5. TypeOK
  BY <1>1, <1>2, <1>3, <1>4 DEF Init, TypeOK
<1> QED BY <1>5 DEF Init, TInv, Aimed, InFlight

\* The steps that begin a request.
LEMMA BeginTyped ==
    ASSUME TInv, NEW t \in Slot, NEW session \in Request, Begin(t, session),
           session.kind \in ReceiptKinds => session.id \in Receipt,
           session.kind \in CallbackKinds => session.id \in Payment,
           session.kind = "register" => session.price \in Price
    PROVE  TInv'
<1>1. req' = [req EXCEPT ![t] = session]
  BY DEF Begin
<1>2. Aimed'
  BY <1>1, Put DEF TInv
<1>3. req' \in [Slot -> {Idle} \cup Request]
  BY <1>1, SlotType DEF TInv
<1> QED BY <1>2, <1>3 DEF TInv, TypeOK, Begin

LEMMA CustomerBegins ==
    ASSUME TInv, NEW t \in Slot, NEW r \in Receipt, NEW price \in Price,
           RegisterReads(t, r, price)
    PROVE  TInv'
<1> DEFINE session == Session("begun", "register", r, "none", price, "none")
<1>1. session \in Request
  BY SessionType DEF TInv, Kinds
<1>2. session.kind = "register" /\ session.id = r /\ session.price = price
  BY DEF Session
<1>3. Begin(t, session)
  BY DEF RegisterReads
<1> HIDE DEF session
<1> QED BY <1>1, <1>2, <1>3, BeginTyped DEF CallbackKinds

LEMMA ClerkBegins ==
    ASSUME TInv, NEW t \in Slot, NEW r \in Receipt,
           ConfirmReads(t, r) \/ RejectReads(t, r) \/ DeleteReads(t, r)
    PROVE  TInv'
<1> DEFINE session(kind) == Session("begun", kind, r, receipts[r].status, 0, "none")
<1>1. PICK kind \in {"confirm", "reject", "delete"} : Begin(t, session(kind))
  BY DEF ConfirmReads, RejectReads, DeleteReads
<1>2. receipts[r].status \in ReceiptStatus
  BY DEF TInv, TypeOK, ReceiptRow, ConfirmReads, RejectReads, DeleteReads, Live
<1>3. session(kind) \in Request
  BY <1>2, SessionType DEF TInv, Kinds, StaffKinds
<1>4. session(kind).kind = kind /\ session(kind).id = r
  BY DEF Session
<1> HIDE DEF session
<1> QED BY <1>1, <1>3, <1>4, BeginTyped DEF CallbackKinds

LEMMA StaffBegins ==
    ASSUME TInv, NEW t \in Slot, NEW s \in OrderStatus,
           StatusReads(t, s) \/ FormReads(t, s)
    PROVE  TInv'
<1> DEFINE session(kind) == Session("decided", kind, "order", "none", 0, s)
<1>1. PICK kind \in {"status", "form"} : Begin(t, session(kind))
  BY DEF StatusReads, FormReads
<1>2. session(kind) \in Request
  BY SessionType DEF TInv, Kinds, StaffKinds
<1>3. session(kind).kind = kind
  BY DEF Session
<1> HIDE DEF session
<1> QED BY <1>1, <1>2, <1>3, BeginTyped DEF CallbackKinds, ReceiptKinds

LEMMA CallbackBegins ==
    ASSUME TInv, NEW t \in Slot, NEW p \in Payment, NEW kind \in CallbackKinds,
           CallbackReads(t, p, kind)
    PROVE  TInv'
<1> DEFINE session == Session("begun", kind, p, payments[p].status, 0, "none")
<1>1. payments[p].status \in PaymentStatus
  BY DEF TInv, TypeOK, PaymentRow
<1>2. session \in Request
  BY <1>1, SessionType DEF TInv, Kinds, CallbackKinds
<1>3. session.kind = kind /\ session.id = p
  BY DEF Session
<1>4. Begin(t, session)
  BY DEF CallbackReads
<1> HIDE DEF session
<1> QED BY <1>2, <1>3, <1>4, BeginTyped DEF CallbackKinds, ReceiptKinds

\* The steps that decide: only the phase, what was read of the order and the
\* verdict of the request change.
Decides(t) == \/ RegisterSums(t) \/ ConfirmDecides(t)
              \/ CancelDecides(t) \/ AnswerDecides(t)

LEMMA DecidesTyped ==
    ASSUME TInv, NEW t \in Slot, Decides(t)
    PROVE  /\ req[t] \in Request /\ InFlight(t)
           /\ \E seen \in OrderStatus, payable \in Price,
                 verdict \in OrderStatus \cup {"none"} :
                    Decide(t, seen, payable, verdict)
<1>1. req[t] \in Request /\ InFlight(t)
  BY Flying DEF Decides, RegisterSums, ConfirmDecides, CancelDecides, AnswerDecides, At, TInv
<1>2. /\ order.status \in OrderStatus /\ order.payable \in Price
      /\ req[t].seen \in OrderStatus /\ req[t].payable \in Price
  BY <1>1 DEF TInv, TypeOK, Request
<1>3. CASE RegisterSums(t)
  <2>1. PICK total : Decide(t, req[t].seen, req[t].payable,
                            Weigh(total, req[t].payable, "Paid"))
    BY <1>3 DEF RegisterSums
  <2>2. Weigh(total, req[t].payable, "Paid") \in OrderStatus \cup {"none"}
    BY WeighType DEF OrderStatus
  <2> QED BY <1>1, <1>2, <2>1, <2>2
<1>4. CASE ConfirmDecides(t)
  <2>1. PICK total, concerned :
           Decide(t, order.status, order.payable,
                  IF concerned THEN Weigh(total, order.payable, "ConfirmedPayment")
                  ELSE "none")
    BY <1>4 DEF ConfirmDecides
  <2>2. Weigh(total, order.payable, "ConfirmedPayment") \in OrderStatus \cup {"none"}
    BY WeighType DEF OrderStatus
  <2> QED BY <1>1, <1>2, <2>1, <2>2
<1>5. CASE CancelDecides(t) \/ AnswerDecides(t)
  <2>1. req[t].verdict \in OrderStatus \cup {"none"}
    BY <1>1 DEF Request
  <2>2. PICK verdict \in {"Canceled", req[t].verdict} :
           Decide(t, order.status, req[t].payable, verdict)
    BY <1>5 DEF CancelDecides, AnswerDecides
  <2> QED BY <1>1, <1>2, <2>1, <2>2 DEF OrderStatus
<1> QED BY <1>1, <1>3, <1>4, <1>5 DEF Decides

\* What a decision does to its slot.
LEMMA Decision ==
    ASSUME TInv, NEW t \in Slot, Decides(t)
    PROVE  /\ req[t] \in Request /\ InFlight(t) /\ InFlight(t)'
           /\ req'[t] \in Request /\ req' = [req EXCEPT ![t] = req'[t]]
           /\ req'[t].kind = req[t].kind /\ req'[t].id = req[t].id
           /\ req'[t].was = req[t].was /\ req'[t].price = req[t].price
           /\ \A x \in Slot \ {t} : req'[x] = req[x]
           /\ UNCHANGED <<order, trail, receipts, payments, byHand>>
<1>1. req[t] \in Request /\ InFlight(t)
  BY DecidesTyped
<1>2. PICK seen \in OrderStatus, payable \in Price,
           verdict \in OrderStatus \cup {"none"} : Decide(t, seen, payable, verdict)
  BY DecidesTyped
<1> DEFINE ruling == Ruling(t, seen, payable, verdict)
<1>3. /\ ruling \in Request /\ ruling.pc = "decided"
      /\ ruling.kind = req[t].kind /\ ruling.id = req[t].id
      /\ ruling.was = req[t].was /\ ruling.price = req[t].price
  BY <1>1, <1>2, RulingType
<1>4. req' = [req EXCEPT ![t] = ruling]
  BY <1>2 DEF Decide
<1> HIDE DEF ruling
<1>5. /\ req'[t] = ruling
      /\ \A x \in Slot \ {t} : req'[x] = req[x]
  BY <1>4 DEF TInv, TypeOK
<1>6. ruling # Idle
  BY <1>3 DEF Idle
<1> QED BY <1>1, <1>2, <1>3, <1>4, <1>5, <1>6 DEF Decide, InFlight

LEMMA DecisionTyped ==
    ASSUME TInv, NEW t \in Slot, Decides(t)
    PROVE  TInv'
<1>1. PICK session \in Request : req' = [req EXCEPT ![t] = session]
  BY Decision
<1>2. Aimed'
  <2>1. /\ InFlight(t) /\ req[t] \in Request
        /\ req'[t].kind = req[t].kind /\ req'[t].id = req[t].id
        /\ req'[t].price = req[t].price
        /\ \A x \in Slot \ {t} : req'[x] = req[x]
    BY Decision
  <2> QED BY <2>1 DEF TInv, Aimed, InFlight
<1>3. req' \in [Slot -> {Idle} \cup Request]
  BY <1>1, SlotType DEF TInv
<1>4. gateway' \in [Payment -> {"open", "paid", "verified"}]
  BY DEF Decides, RegisterSums, ConfirmDecides, CancelDecides, AnswerDecides, TInv, TypeOK
<1>5. UNCHANGED <<order, trail, receipts, payments, byHand>>
  BY Decision
<1> QED BY <1>2, <1>3, <1>4, <1>5 DEF TInv, TypeOK

\* The gateway's answer changes the verdict of the callback, and what the
\* gateway knows of the payment.
LEMMA Answered ==
    ASSUME TInv, NEW t \in Slot, NEW verified \in BOOLEAN, GatewayAnswers(t, verified)
    PROVE  /\ TInv' /\ InFlight(t)
           /\ req'[t].pc = "begun" /\ req'[t].kind = "verify"
           /\ req'[t].kind = req[t].kind /\ req'[t].id = req[t].id
           /\ \A x \in Slot \ {t} : req'[x] = req[x]
           /\ UNCHANGED <<order, trail, receipts, payments, byHand>>
<1> DEFINE verdict == IF verified THEN "Paid" ELSE "Canceled"
           session == Heard(t, verdict)
<1>1. req[t] \in Request /\ InFlight(t)
  BY Flying DEF GatewayAnswers, At, TInv
<1>2. req' = [req EXCEPT ![t] = session]
  BY DEF GatewayAnswers
<1>3. verdict \in OrderStatus
  BY DEF OrderStatus
<1> HIDE DEF verdict
<1>4. /\ session \in Request /\ session.pc = req[t].pc
      /\ session.kind = req[t].kind /\ session.id = req[t].id
      /\ session.price = req[t].price
  BY <1>1, <1>3, HeardType
<1> HIDE DEF session
<1>5. /\ req' \in [Slot -> {Idle} \cup Request]
      /\ req'[t] = session
      /\ \A x \in Slot \ {t} : req'[x] = req[x]
  BY <1>2, <1>4, SlotType DEF TInv
<1>6. Aimed'
  BY <1>1, <1>4, <1>5 DEF TInv, Aimed, InFlight
<1>7. gateway' \in [Payment -> {"open", "paid", "verified"}]
  BY DEF GatewayAnswers, TInv, TypeOK
<1>8. UNCHANGED <<order, trail, receipts, payments, byHand>>
  BY DEF GatewayAnswers
<1>9. req[t].pc = "begun" /\ req[t].kind = "verify"
  BY DEF GatewayAnswers, At
<1> QED BY <1>1, <1>4, <1>5, <1>6, <1>7, <1>8, <1>9 DEF TInv, TypeOK

\* The commits.
LEMMA ReceiptCommits ==
    ASSUME TInv, NEW t \in Slot,
           \/ RegisterCommits(t) \/ ConfirmCommits(t)
           \/ RejectCommits(t) \/ DeleteCommits(t)
    PROVE  TInv'
<1> USE DEF TInv
<1>1. InFlight(t) /\ OrderCommits(t) /\ payments' = payments
  BY DEF RegisterCommits, ConfirmCommits, RejectCommits, DeleteCommits, At
<1>2. req[t] \in Request
  BY <1>1, Flying
<1>3. Aimed'
  BY <1>1, Emptied DEF OrderCommits
<1>4. /\ DOMAIN receipts' \subseteq Receipt
      /\ \A r \in DOMAIN receipts' : receipts'[r] \in ReceiptRow
  <2>1. CASE RegisterCommits(t)
    <3>1. req[t].id \in Receipt /\ req[t].price \in Price
      BY <2>1 DEF Aimed, RegisterCommits, At, ReceiptKinds
    <3> QED BY <2>1, <3>1 DEF RegisterCommits, TypeOK, ReceiptRow, ReceiptStatus
  <2>2. CASE ConfirmCommits(t)
    BY <2>2 DEF ConfirmCommits, Judged, Assign, TypeOK, ReceiptRow, ReceiptStatus
  <2>3. CASE RejectCommits(t)
    BY <2>3 DEF RejectCommits, Judged, Assign, TypeOK, ReceiptRow, ReceiptStatus
  <2>4. CASE DeleteCommits(t)
    BY <2>4 DEF DeleteCommits, TypeOK, ReceiptRow
  <2> QED BY <2>1, <2>2, <2>3, <2>4
<1> QED BY <1>1, <1>3, <1>4, OrderCommitsType DEF TypeOK

LEMMA StaffCommits ==
    ASSUME TInv, NEW t \in Slot, StatusCommits(t)
    PROVE  TInv'
<1> USE DEF TInv
<1>1. InFlight(t) /\ OrderCommits(t) /\ receipts' = receipts /\ payments' = payments
  BY DEF StatusCommits, At
<1>2. Aimed'
  BY <1>1, Emptied DEF OrderCommits
<1> QED BY <1>1, <1>2, OrderCommitsType DEF TypeOK

LEMMA CallbackCommitsTyped ==
    ASSUME TInv, NEW t \in Slot, CallbackCommits(t)
    PROVE  TInv'
<1> USE DEF TInv
<1>1. InFlight(t) /\ OrderCommits(t) /\ receipts' = receipts
  BY DEF CallbackCommits
<1>2. Aimed'
  BY <1>1, Emptied DEF OrderCommits
<1>3. payments' \in [Payment -> PaymentRow]
  <2>1. PICK p \in Payment, s \in PaymentStatus :
           payments' = [payments EXCEPT ![p].status = s]
    <3>1. req[t].id \in Payment
      BY DEF CallbackCommits, Aimed, CallbackKinds
    <3>2. payments[req[t].id].status \in PaymentStatus
      BY <3>1 DEF TypeOK, PaymentRow
    <3> QED BY <3>1, <3>2 DEF CallbackCommits, Assign, PaymentStatus
  <2> QED BY <2>1 DEF TypeOK, PaymentRow
<1> QED BY <1>1, <1>2, <1>3, OrderCommitsType DEF TypeOK

LEMMA ByHandTyped ==
    ASSUME TInv, ByHand
    PROVE  TInv'
<1> USE DEF TInv
<1>1. req' = req /\ receipts' = receipts /\ gateway' = gateway /\ trail' = trail
  BY DEF ByHand, Reprice, DeleteOrder, EditPayment, DeletePayment
<1>2. order' \in [status : OrderStatus, payable : Price, removed : BOOLEAN]
  BY DEF ByHand, Reprice, DeleteOrder, EditPayment, DeletePayment, TypeOK
<1>3. payments' \in [Payment -> PaymentRow] /\ byHand' \subseteq Payment
  <2>1. ASSUME NEW p \in Payment, NEW s \in PaymentStatus, NEW n \in Price,
               EditPayment(p, s, n)
        PROVE  payments' \in [Payment -> PaymentRow] /\ byHand' \subseteq Payment
    <3>1. payments[p] \in PaymentRow
      BY DEF TypeOK
    <3>2. [amount |-> n, status |-> s, removed |-> payments[p].removed] \in PaymentRow
      BY <3>1 DEF PaymentRow
    <3> QED BY <2>1, <3>2 DEF EditPayment, TypeOK
  <2>2. ASSUME NEW p \in Payment, DeletePayment(p)
        PROVE  payments' \in [Payment -> PaymentRow] /\ byHand' \subseteq Payment
    <3>1. payments[p] \in PaymentRow
      BY DEF TypeOK
    <3>2. [payments[p] EXCEPT !.removed = TRUE] \in PaymentRow
      BY <3>1 DEF PaymentRow
    <3>3. payments' = [payments EXCEPT ![p] = [payments[p] EXCEPT !.removed = TRUE]]
      BY <2>2 DEF DeletePayment
    <3> QED BY <2>2, <3>2, <3>3 DEF DeletePayment, TypeOK
  <2>3. CASE payments' = payments /\ byHand' = byHand
    BY <2>3 DEF TypeOK
  <2> QED BY <2>1, <2>2, <2>3 DEF ByHand, Reprice, DeleteOrder
<1> QED BY <1>1, <1>2, <1>3 DEF TypeOK, Aimed, InFlight

LEMMA StepTyped == TInv /\ [Next]_vars => TInv'
<1> SUFFICES ASSUME TInv, [Next]_vars PROVE TInv'
  OBVIOUS
<1>1. CASE UNCHANGED vars
  BY <1>1 DEF vars, TInv, TypeOK, Aimed, InFlight
<1>2. ASSUME NEW t \in Slot, Customer(t) PROVE TInv'
  BY <1>2, CustomerBegins, DecisionTyped, ReceiptCommits DEF Customer, Decides
<1>3. ASSUME NEW t \in Slot, Clerk(t) PROVE TInv'
  <2>1. \A s \in StaffStatus \cup FormStatus : s \in OrderStatus
    BY StatusesType
  <2> QED BY <1>3, <2>1, ClerkBegins, DecisionTyped, ReceiptCommits, StaffBegins,
             StaffCommits DEF Clerk, Decides
<1>4. ASSUME NEW t \in Slot, Callback(t) PROVE TInv'
  BY <1>4, CallbackBegins, DecisionTyped, Answered, CallbackCommitsTyped
     DEF Callback, CallbackKinds, Decides
<1>5. ASSUME NEW t \in Slot, RequestEnds(t) PROVE TInv'
  <2>1. req' = [req EXCEPT ![t] = Idle]
    BY <1>5 DEF RequestEnds
  <2>2. Aimed'
    BY <2>1, Emptied DEF TInv
  <2>3. req' \in [Slot -> {Idle} \cup Request]
    BY <2>1, SlotType DEF TInv
  <2> QED BY <1>5, <2>2, <2>3 DEF RequestEnds, TInv, TypeOK
<1>6. ASSUME NEW p \in Payment, CustomerPays(p) PROVE TInv'
  BY <1>6 DEF CustomerPays, TInv, TypeOK, Aimed, InFlight
<1>7. CASE ByHand
  BY <1>7, ByHandTyped
<1> QED BY <1>1, <1>2, <1>3, <1>4, <1>5, <1>6, <1>7 DEF Next

\* However requests overlap, every variable keeps its type.
THEOREM TypeCorrect == Spec => []TypeOK
<1>1. TInv => TypeOK
  BY DEF TInv
<1> QED BY InitTyped, StepTyped, <1>1, PTL DEF Spec


-----------------------------------------------------------------------------
(* What is recorded as successful was verified.                            *)

\* The gateway never takes back that it has verified a payment.
VerifiedStays == \A p \in Payment : gateway[p] = "verified" => gateway'[p] = "verified"

\* A request may be replaced by one whose report is as honest.
LEMMA ReportsPut ==
    ASSUME TInv, Reports, VerifiedStays, NEW t \in Slot, NEW session \in {Idle} \cup Request,
           req' = [req EXCEPT ![t] = session],
           session # Idle =>
               /\ session.kind = "verify" /\ session.verdict = "Paid"
                      => gateway'[session.id] = "verified"
               /\ session.kind = "cancel" /\ session.pc = "decided"
                      => session.verdict = "Canceled"
    PROVE  Reports'
<1>1. /\ req'[t] = session
      /\ \A x \in Slot \ {t} : req'[x] = req[x]
  BY SlotType DEF TInv
<1>2. ASSUME NEW x \in Slot \ {t}, InFlight(x)'
      PROVE  /\ req'[x].kind = "verify" /\ req'[x].verdict = "Paid"
                    => gateway'[req'[x].id] = "verified"
             /\ req'[x].kind = "cancel" /\ req'[x].pc = "decided"
                    => req'[x].verdict = "Canceled"
  <2>1. req'[x] = req[x] /\ InFlight(x)
    BY <1>1, <1>2 DEF InFlight
  <2>2. req[x].kind = "verify" => req[x].id \in Payment
    BY <2>1 DEF TInv, Aimed, CallbackKinds
  <2> QED BY <1>2, <2>1, <2>2 DEF Reports, VerifiedStays
<1> QED BY <1>1, <1>2 DEF Reports, InFlight

LEMMA BeginReports ==
    ASSUME TInv, Reports, NEW t \in Slot, NEW session \in Request, Begin(t, session),
           session.kind \in CallbackKinds =>
               session.pc = "begun" /\ session.verdict = "none"
    PROVE  Reports'
<1>1. req' = [req EXCEPT ![t] = session] /\ VerifiedStays
  BY DEF Begin, VerifiedStays
<1> QED BY <1>1, ReportsPut DEF CallbackKinds

\* Every step of a customer or of staff leaves the reports honest: none of
\* them is a callback's.
LEMMA OthersReport ==
    ASSUME TInv, Reports, NEW t \in Slot, Customer(t) \/ Clerk(t) \/ RequestEnds(t)
    PROVE  Reports'
<1>1. CASE \E r \in Receipt, price \in Price : RegisterReads(t, r, price)
  <2>1. PICK r \in Receipt, price \in Price : RegisterReads(t, r, price)
    BY <1>1
  <2> DEFINE session == Session("begun", "register", r, "none", price, "none")
  <2>2. session \in Request
    BY SessionType DEF TInv, Kinds
  <2>3. session.kind \notin CallbackKinds
    BY DEF Session, CallbackKinds
  <2>4. Begin(t, session)
    BY <2>1 DEF RegisterReads
  <2> HIDE DEF session
  <2> QED BY <2>2, <2>3, <2>4, BeginReports
<1>2. CASE \E r \in Receipt : ConfirmReads(t, r) \/ RejectReads(t, r) \/ DeleteReads(t, r)
  <2>1. PICK r \in Receipt : ConfirmReads(t, r) \/ RejectReads(t, r) \/ DeleteReads(t, r)
    BY <1>2
  <2> DEFINE session(kind) == Session("begun", kind, r, receipts[r].status, 0, "none")
  <2>2. PICK kind \in {"confirm", "reject", "delete"} : Begin(t, session(kind))
    BY <2>1 DEF ConfirmReads, RejectReads, DeleteReads
  <2>3. receipts[r].status \in ReceiptStatus
    BY <2>1 DEF TInv, TypeOK, ReceiptRow, ConfirmReads, RejectReads, DeleteReads, Live
  <2>4. session(kind) \in Request
    BY <2>3, SessionType DEF TInv, Kinds, StaffKinds
  <2>5. session(kind).kind \notin CallbackKinds
    BY DEF Session, CallbackKinds
  <2> HIDE DEF session
  <2> QED BY <2>2, <2>4, <2>5, BeginReports
<1>3. CASE (\E s \in StaffStatus : StatusReads(t, s)) \/ \E s \in FormStatus : FormReads(t, s)
  <2>1. PICK s \in OrderStatus : StatusReads(t, s) \/ FormReads(t, s)
    BY <1>3, StatusesType
  <2> DEFINE session(kind) == Session("decided", kind, "order", "none", 0, s)
  <2>2. PICK kind \in {"status", "form"} : Begin(t, session(kind))
    BY <2>1 DEF StatusReads, FormReads
  <2>3. session(kind) \in Request
    BY SessionType DEF TInv, Kinds, StaffKinds
  <2>4. session(kind).kind = kind
    BY DEF Session
  <2> HIDE DEF session
  <2> QED BY <2>2, <2>3, <2>4, BeginReports DEF CallbackKinds
<1>4. CASE RegisterSums(t) \/ ConfirmDecides(t)
  <2>1. Decides(t)
    BY <1>4 DEF Decides
  <2>2. PICK session \in Request : /\ req' = [req EXCEPT ![t] = session]
                                   /\ session = req'[t]
    BY <2>1, Decision
  <2>3. session.kind = req[t].kind
    BY <2>1, <2>2, Decision
  <2>4. req[t].kind \notin CallbackKinds
    BY <1>4 DEF RegisterSums, ConfirmDecides, At, CallbackKinds
  <2>5. VerifiedStays
    BY <1>4 DEF RegisterSums, ConfirmDecides, VerifiedStays
  <2> QED BY <2>2, <2>3, <2>4, <2>5, ReportsPut DEF CallbackKinds
<1>5. CASE \/ RegisterCommits(t) \/ ConfirmCommits(t) \/ RejectCommits(t)
           \/ DeleteCommits(t) \/ StatusCommits(t) \/ RequestEnds(t)
  <2>1. req' = [req EXCEPT ![t] = Idle] /\ VerifiedStays
    BY <1>5 DEF RegisterCommits, ConfirmCommits, RejectCommits, DeleteCommits,
                StatusCommits, RequestEnds, OrderCommits, VerifiedStays
  <2> QED BY <2>1, ReportsPut
<1> QED BY <1>1, <1>2, <1>3, <1>4, <1>5 DEF Customer, Clerk

LEMMA CallbacksReport ==
    ASSUME TInv, Reports, NEW t \in Slot, Callback(t)
    PROVE  Reports'
<1>1. CASE \E p \in Payment, kind \in {"verify", "cancel"} : CallbackReads(t, p, kind)
  <2>1. PICK p \in Payment, kind \in CallbackKinds : CallbackReads(t, p, kind)
    BY <1>1 DEF CallbackKinds
  <2> DEFINE session == Session("begun", kind, p, payments[p].status, 0, "none")
  <2>2. payments[p].status \in PaymentStatus
    BY DEF TInv, TypeOK, PaymentRow
  <2>3. session \in Request
    BY <2>2, SessionType DEF TInv, Kinds, CallbackKinds
  <2>4. session.pc = "begun" /\ session.verdict = "none"
    BY DEF Session
  <2>5. Begin(t, session)
    BY <2>1 DEF CallbackReads
  <2> HIDE DEF session
  <2> QED BY <2>3, <2>4, <2>5, BeginReports
<1>2. CASE CancelDecides(t)
  <2> DEFINE session == Ruling(t, order.status, req[t].payable, "Canceled")
  <2>1. /\ req[t] \in Request /\ req[t].kind = "cancel"
        /\ order.status \in OrderStatus /\ req[t].payable \in Price
    BY <1>2, Flying DEF CancelDecides, At, TInv, TypeOK, Request
  <2>2. session \in Request /\ session.kind = "cancel" /\ session.verdict = "Canceled"
    BY <2>1, RulingType DEF OrderStatus
  <2>3. req' = [req EXCEPT ![t] = session] /\ VerifiedStays
    BY <1>2 DEF CancelDecides, Decide, VerifiedStays
  <2> HIDE DEF session
  <2> QED BY <2>2, <2>3, ReportsPut
<1>3. ASSUME NEW verified \in BOOLEAN, GatewayAnswers(t, verified) PROVE Reports'
  <2> DEFINE verdict == IF verified THEN "Paid" ELSE "Canceled"
             session == Heard(t, verdict)
  <2>1. req[t] \in Request /\ req[t].kind = "verify"
    BY <1>3, Flying DEF GatewayAnswers, At, TInv
  <2>2. req[t].id \in Payment
    BY <1>3, <2>1 DEF GatewayAnswers, At, TInv, Aimed, CallbackKinds
  <2>3. verdict \in OrderStatus
    BY DEF OrderStatus
  <2>4. verdict = "Paid" => gateway'[req[t].id] = "verified"
    BY <1>3, <2>2 DEF GatewayAnswers, TInv, TypeOK
  <2>5. VerifiedStays
    BY <1>3, <2>2 DEF GatewayAnswers, VerifiedStays, TInv, TypeOK
  <2>6. req' = [req EXCEPT ![t] = session]
    BY <1>3 DEF GatewayAnswers
  <2> HIDE DEF verdict
  <2>7. /\ session \in Request
        /\ session.kind = "verify" /\ session.id = req[t].id /\ session.verdict = verdict
    BY <2>1, <2>3, HeardType
  <2> HIDE DEF session
  <2> QED BY <2>4, <2>5, <2>6, <2>7, ReportsPut
<1>4. CASE AnswerDecides(t)
  <2> DEFINE session == Ruling(t, order.status, req[t].payable, req[t].verdict)
  <2>1. /\ req[t] \in Request /\ req[t].kind = "verify" /\ InFlight(t)
        /\ order.status \in OrderStatus /\ req[t].payable \in Price
        /\ req[t].verdict \in OrderStatus \cup {"none"}
    BY <1>4, Flying DEF AnswerDecides, At, TInv, TypeOK, Request
  <2>2. /\ session \in Request
        /\ session.kind = "verify" /\ session.id = req[t].id
        /\ session.verdict = req[t].verdict
    BY <2>1, RulingType
  <2>3. req' = [req EXCEPT ![t] = session] /\ VerifiedStays /\ gateway' = gateway
    BY <1>4 DEF AnswerDecides, Decide, VerifiedStays
  <2>4. session.verdict = "Paid" => gateway'[session.id] = "verified"
    BY <2>1, <2>2, <2>3 DEF Reports
  <2> HIDE DEF session
  <2> QED BY <2>2, <2>3, <2>4, ReportsPut
<1>5. CASE CallbackCommits(t)
  <2>1. req' = [req EXCEPT ![t] = Idle] /\ VerifiedStays
    BY <1>5 DEF CallbackCommits, OrderCommits, VerifiedStays
  <2> QED BY <2>1, ReportsPut
<1> QED BY <1>1, <1>2, <1>3, <1>4, <1>5 DEF Callback

\* Only a callback's commit and staff change the status of a payment.
LEMMA PaymentsKept ==
    ASSUME NEW t \in Slot,
           \/ Customer(t) \/ Clerk(t) \/ RequestEnds(t)
           \/ Callback(t) /\ ~CallbackCommits(t)
    PROVE  payments' = payments /\ byHand' = byHand
<1>1. CASE Customer(t)
  BY <1>1 DEF Customer, RegisterReads, RegisterSums, RegisterCommits, Begin, Decide,
              OrderCommits
<1>2. CASE Clerk(t)
  BY <1>2 DEF Clerk, ConfirmReads, RejectReads, DeleteReads, ConfirmDecides, ConfirmCommits,
              RejectCommits, DeleteCommits, StatusReads, FormReads, StatusCommits, Begin,
              Decide, OrderCommits
<1>3. CASE Callback(t) /\ ~CallbackCommits(t)
  BY <1>3 DEF Callback, CallbackReads, CancelDecides, GatewayAnswers, AnswerDecides,
              Begin, Decide
<1> QED BY <1>1, <1>2, <1>3 DEF RequestEnds

\* The commit of a callback records the gateway's word.
LEMMA CommitHonest ==
    ASSUME VInv, NEW t \in Slot, CallbackCommits(t)
    PROVE  SuccessWasVerified'
<1>1. InFlight(t) /\ req[t].pc = "decided" /\ req[t].kind \in CallbackKinds
  BY DEF CallbackCommits, CallbackKinds
<1>2. req[t].id \in Payment
  BY <1>1 DEF VInv, TInv, Aimed
<1>3. req[t].verdict = "Paid" => gateway[req[t].id] = "verified"
  BY <1>1 DEF VInv, Reports, CallbackKinds
<1>4. gateway' = gateway /\ byHand' = byHand
  BY DEF CallbackCommits, OrderCommits
<1>5. \A p \in Payment : payments'[p].status = "Success" =>
          payments[p].status = "Success" \/ (p = req[t].id /\ req[t].verdict = "Paid")
  <2> DEFINE outcome == IF req[t].verdict = "Paid" THEN "Success" ELSE "Canceled"
             s == Assign(req[t].was, outcome, payments[req[t].id].status)
  <2>1. payments' = [payments EXCEPT ![req[t].id].status = s]
    BY DEF CallbackCommits
  <2>2. s = "Success" => \/ payments[req[t].id].status = "Success"
                         \/ req[t].verdict = "Paid"
    BY DEF Assign
  <2>3. payments \in [Payment -> PaymentRow]
    BY DEF VInv, TInv, TypeOK
  <2> HIDE DEF s
  <2> QED BY <1>2, <2>1, <2>2, <2>3 DEF PaymentRow
<1> QED BY <1>3, <1>4, <1>5 DEF VInv, SuccessWasVerified

LEMMA ByHandHonest ==
    ASSUME VInv, ByHand
    PROVE  Reports' /\ SuccessWasVerified'
<1>1. req' = req /\ gateway' = gateway
  BY DEF ByHand, Reprice, DeleteOrder, EditPayment, DeletePayment
<1>2. Reports'
  BY <1>1 DEF VInv, Reports, InFlight
<1>3. ASSUME NEW p \in Payment, NEW s \in PaymentStatus, NEW n \in Price, EditPayment(p, s, n)
      PROVE  SuccessWasVerified'
  BY <1>1, <1>3 DEF EditPayment, VInv, TInv, TypeOK, SuccessWasVerified
<1>4. ASSUME NEW p \in Payment, DeletePayment(p)
      PROVE  SuccessWasVerified'
  <2>1. \A q \in Payment : payments'[q].status = payments[q].status
    BY <1>4 DEF DeletePayment, VInv, TInv, TypeOK, PaymentRow
  <2> QED BY <1>1, <1>4, <2>1 DEF DeletePayment, VInv, SuccessWasVerified
<1>5. CASE payments' = payments /\ byHand' = byHand
  BY <1>1, <1>2, <1>5 DEF VInv, SuccessWasVerified
<1>6. CASE (\E n \in Price : Reprice(n)) \/ DeleteOrder
  <2>1. payments' = payments /\ byHand' = byHand
    BY <1>6 DEF Reprice, DeleteOrder
  <2> QED BY <1>5, <2>1
<1> QED BY <1>2, <1>3, <1>4, <1>6 DEF ByHand

LEMMA StepHonest == VInv /\ [Next]_vars => VInv'
<1> SUFFICES ASSUME VInv, [Next]_vars PROVE VInv'
  OBVIOUS
<1>1. TInv'
  BY StepTyped DEF VInv
<1>2. CASE UNCHANGED vars
  BY <1>1, <1>2 DEF vars, VInv, Reports, SuccessWasVerified, InFlight
<1>3. ASSUME NEW t \in Slot, Customer(t) \/ Clerk(t) \/ Callback(t) \/ RequestEnds(t)
      PROVE  VInv'
  <2>1. Reports'
    BY <1>3, OthersReport, CallbacksReport DEF VInv
  <2>2. VerifiedStays
    BY <1>3 DEF Customer, Clerk, Callback, RequestEnds, VerifiedStays, RegisterReads,
         RegisterSums, RegisterCommits, ConfirmReads, RejectReads, DeleteReads,
         ConfirmDecides, ConfirmCommits, RejectCommits, DeleteCommits, StatusReads,
         FormReads, StatusCommits, CallbackReads, CancelDecides, GatewayAnswers,
         AnswerDecides, CallbackCommits, Begin, OrderCommits, VInv, TInv, TypeOK
  <2>3. SuccessWasVerified'
    <3>1. CASE CallbackCommits(t)
      BY <3>1, CommitHonest
    <3>2. CASE ~CallbackCommits(t)
      BY <1>3, <2>2, <3>2, PaymentsKept DEF VInv, SuccessWasVerified, VerifiedStays
    <3> QED BY <3>1, <3>2
  <2> QED BY <1>1, <2>1, <2>3 DEF VInv
<1>4. ASSUME NEW p \in Payment, CustomerPays(p) PROVE VInv'
  <2>1. /\ \A q \in Payment : gateway[q] = "verified" => gateway'[q] = "verified"
        /\ req' = req /\ payments' = payments /\ byHand' = byHand
    BY <1>4 DEF CustomerPays, VInv, TInv, TypeOK
  <2>2. \A t \in Slot : InFlight(t) /\ req[t].kind = "verify" => req[t].id \in Payment
    BY DEF VInv, TInv, Aimed, CallbackKinds
  <2> QED BY <1>1, <2>1, <2>2 DEF VInv, Reports, SuccessWasVerified, InFlight
<1>5. CASE ByHand
  BY <1>1, <1>5, ByHandHonest DEF VInv
<1> QED BY <1>2, <1>3, <1>4, <1>5 DEF Next

\* However callbacks overlap, are repeated or lose the gateway's answer, a
\* payment is recorded as successful only after the gateway has verified it.
THEOREM SuccessVerified == Spec => []SuccessWasVerified
<1>1. Init => VInv
  <2>1. Init => Reports /\ SuccessWasVerified
    BY DEF Init, Reports, SuccessWasVerified, InFlight
  <2> QED BY <2>1, InitTyped DEF VInv
<1>2. VInv => SuccessWasVerified
  BY DEF VInv
<1> QED BY <1>1, <1>2, StepHonest, PTL DEF Spec


-----------------------------------------------------------------------------
(* Staff one at a time: a deleted receipt is never judged.                 *)

OneClerk == \A t, u \in Slot :
    /\ InFlight(t) /\ req[t].kind \in StaffKinds
    /\ InFlight(u) /\ req[u].kind \in StaffKinds
    => t = u

\* What a clerk works on is still as it was read, and two receipts that are
\* being filed are different and new.
Known == \A t \in Slot : InFlight(t) =>
    /\ req[t].kind \in {"confirm", "reject", "delete"} => req[t].id \in Live
    /\ req[t].kind = "delete" => receipts[req[t].id].status = "AwaitingConfirmation"
    /\ req[t].kind = "register" =>
          /\ req[t].id \notin DOMAIN receipts
          /\ \A u \in Slot \ {t} : InFlight(u) /\ req[u].kind = "register"
                                     => req[u].id # req[t].id

DInv == TInv /\ OneClerk /\ Known /\ DeletedWasUnjudged

\* A request begins: of a clerk when none is at work, of a customer with a
\* receipt nobody has filed or is filing.
LEMMA BeginKnown ==
    ASSUME ~ManyClerks, DInv, NEW t \in Slot, NEW session \in Request, Begin(t, session),
           session.kind \in StaffKinds => ClerkFree,
           session.kind \in {"confirm", "reject", "delete"} => session.id \in Live,
           session.kind = "delete" => receipts[session.id].status = "AwaitingConfirmation",
           session.kind = "register" =>
               /\ session.id \notin DOMAIN receipts
               /\ \A u \in Slot : InFlight(u) => req[u].id # session.id
    PROVE  OneClerk' /\ Known' /\ DeletedWasUnjudged'
<1> USE DEF DInv
<1>1. /\ req'[t] = session
      /\ \A x \in Slot \ {t} : req'[x] = req[x]
  BY SlotType DEF Begin, TInv
<1>2. receipts' = receipts
  BY DEF Begin
<1>3. OneClerk'
  BY <1>1 DEF OneClerk, InFlight, ClerkFree
<1>4. Known'
  BY <1>1, <1>2 DEF Known, InFlight, Live, StaffKinds
<1> QED BY <1>2, <1>3, <1>4 DEF DeletedWasUnjudged

LEMMA CustomerBeginsKnown ==
    ASSUME ~ManyClerks, DInv, NEW t \in Slot, NEW r \in Receipt, NEW price \in Price,
           RegisterReads(t, r, price)
    PROVE  OneClerk' /\ Known' /\ DeletedWasUnjudged'
<1> DEFINE session == Session("begun", "register", r, "none", price, "none")
<1>1. session \in Request
  BY SessionType DEF DInv, TInv, Kinds
<1>2. session.kind = "register" /\ session.id = r
  BY DEF Session
<1>3. /\ Begin(t, session) /\ r \notin DOMAIN receipts
      /\ \A u \in Slot : InFlight(u) => req[u].id # r
  BY DEF RegisterReads
<1> HIDE DEF session
<1> QED BY <1>1, <1>2, <1>3, BeginKnown DEF StaffKinds

LEMMA ClerkBeginsKnown ==
    ASSUME ~ManyClerks, DInv, NEW t \in Slot, NEW r \in Receipt,
           ConfirmReads(t, r) \/ RejectReads(t, r) \/ DeleteReads(t, r)
    PROVE  OneClerk' /\ Known' /\ DeletedWasUnjudged'
<1> DEFINE session(kind) == Session("begun", kind, r, receipts[r].status, 0, "none")
<1>1. PICK kind \in {"confirm", "reject", "delete"} :
         /\ Begin(t, session(kind))
         /\ kind = "delete" => receipts[r].status = "AwaitingConfirmation"
  BY DEF ConfirmReads, RejectReads, DeleteReads
<1>2. ClerkFree /\ r \in Live
  BY DEF ConfirmReads, RejectReads, DeleteReads
<1>3. receipts[r].status \in ReceiptStatus
  BY <1>2 DEF DInv, TInv, TypeOK, ReceiptRow, Live
<1>4. session(kind) \in Request
  BY <1>3, SessionType DEF DInv, TInv, Kinds, StaffKinds
<1>5. session(kind).kind = kind /\ session(kind).id = r
  BY DEF Session
<1> HIDE DEF session
<1> QED BY <1>1, <1>2, <1>4, <1>5, BeginKnown

LEMMA OthersBeginKnown ==
    ASSUME ~ManyClerks, DInv, NEW t \in Slot,
           \/ \E s \in OrderStatus : StatusReads(t, s) \/ FormReads(t, s)
           \/ \E p \in Payment, kind \in {"verify", "cancel"} : CallbackReads(t, p, kind)
    PROVE  OneClerk' /\ Known' /\ DeletedWasUnjudged'
<1>1. ASSUME NEW s \in OrderStatus, StatusReads(t, s) \/ FormReads(t, s)
      PROVE  OneClerk' /\ Known' /\ DeletedWasUnjudged'
  <2> DEFINE session(kind) == Session("decided", kind, "order", "none", 0, s)
  <2>1. PICK kind \in {"status", "form"} : Begin(t, session(kind)) /\ ClerkFree
    BY <1>1 DEF StatusReads, FormReads
  <2>2. session(kind) \in Request
    BY SessionType DEF DInv, TInv, Kinds, StaffKinds
  <2>3. session(kind).kind = kind
    BY DEF Session
  <2> HIDE DEF session
  <2> QED BY <2>1, <2>2, <2>3, BeginKnown
<1>2. ASSUME NEW p \in Payment, NEW kind \in {"verify", "cancel"}, CallbackReads(t, p, kind)
      PROVE  OneClerk' /\ Known' /\ DeletedWasUnjudged'
  <2> DEFINE session == Session("begun", kind, p, payments[p].status, 0, "none")
  <2>1. payments[p].status \in PaymentStatus
    BY DEF DInv, TInv, TypeOK, PaymentRow
  <2>2. session \in Request
    BY <2>1, SessionType DEF DInv, TInv, Kinds
  <2>3. session.kind = kind
    BY DEF Session
  <2>4. Begin(t, session)
    BY <1>2 DEF CallbackReads
  <2> HIDE DEF session
  <2> QED BY <2>2, <2>3, <2>4, BeginKnown DEF StaffKinds
<1> QED BY <1>1, <1>2

\* Steps that leave the receipts alone and start no request.
LEMMA Undisturbed ==
    ASSUME DInv, receipts' = receipts,
           \A x \in Slot : InFlight(x)' => /\ InFlight(x)
                                           /\ req'[x].kind = req[x].kind
                                           /\ req'[x].id = req[x].id
    PROVE  OneClerk' /\ Known' /\ DeletedWasUnjudged'
<1> USE DEF DInv
<1>1. OneClerk'
  BY DEF OneClerk
<1>2. Known'
  BY DEF Known, Live
<1> QED BY <1>1, <1>2 DEF DeletedWasUnjudged

\* A commit empties its slot.
LEMMA SlotFreed ==
    ASSUME TInv, NEW t \in Slot, req' = [req EXCEPT ![t] = Idle]
    PROVE  \A x \in Slot : InFlight(x)' => x # t /\ InFlight(x) /\ req'[x] = req[x]
<1>1. /\ req'[t] = Idle
      /\ \A x \in Slot \ {t} : req'[x] = req[x]
  BY SlotType DEF TInv
<1> QED BY <1>1 DEF InFlight

LEMMA RegisterCommitKnown ==
    ASSUME DInv, NEW t \in Slot, RegisterCommits(t)
    PROVE  OneClerk' /\ Known' /\ DeletedWasUnjudged'
<1> USE DEF DInv
<1>1. \A x \in Slot : InFlight(x)' => x # t /\ InFlight(x) /\ req'[x] = req[x]
  BY SlotFreed DEF RegisterCommits, OrderCommits
<1>2. InFlight(t) /\ req[t].kind = "register" /\ req[t].id \notin DOMAIN receipts
  BY DEF RegisterCommits, At, Known
<1>3. /\ DOMAIN receipts' = DOMAIN receipts \cup {req[t].id}
      /\ \A r \in DOMAIN receipts : receipts'[r] = receipts[r]
      /\ receipts'[req[t].id].removed = FALSE
  BY <1>2 DEF RegisterCommits
<1>4. Live \subseteq Live' /\ Live \subseteq DOMAIN receipts
  BY <1>3 DEF Live
<1>5. OneClerk'
  BY <1>1 DEF OneClerk
<1>6. Known'
  BY <1>1, <1>2, <1>3, <1>4 DEF Known
<1>7. DeletedWasUnjudged'
  BY <1>3 DEF DeletedWasUnjudged
<1> QED BY <1>5, <1>6, <1>7

LEMMA ClerkCommitKnown ==
    ASSUME DInv, NEW t \in Slot, ConfirmCommits(t) \/ RejectCommits(t) \/ DeleteCommits(t)
    PROVE  OneClerk' /\ Known' /\ DeletedWasUnjudged'
<1> USE DEF DInv
<1>1. \A x \in Slot : InFlight(x)' => x # t /\ InFlight(x) /\ req'[x] = req[x]
  BY SlotFreed DEF ConfirmCommits, RejectCommits, DeleteCommits, OrderCommits
<1>2. /\ InFlight(t) /\ req[t].kind \in {"confirm", "reject", "delete"}
      /\ req[t].id \in Live
  BY DEF ConfirmCommits, RejectCommits, DeleteCommits, At, Known
<1>3. DOMAIN receipts' = DOMAIN receipts
  BY DEF ConfirmCommits, RejectCommits, DeleteCommits, Judged
<1>4. \A x \in Slot : InFlight(x)' => req'[x].kind \notin StaffKinds
  BY <1>1, <1>2 DEF OneClerk, StaffKinds
<1>5. OneClerk'
  BY <1>4 DEF OneClerk
<1>6. Known'
  BY <1>1, <1>3, <1>4 DEF Known, StaffKinds
<1>7. DeletedWasUnjudged'
  <2>1. CASE ConfirmCommits(t) \/ RejectCommits(t)
    <3>1. PICK s : receipts' = [receipts EXCEPT ![req[t].id].status = s]
      BY <2>1 DEF ConfirmCommits, RejectCommits, Judged
    <3>2. ~receipts[req[t].id].removed
      BY <1>2 DEF Live
    <3> QED BY <1>2, <3>1, <3>2 DEF DeletedWasUnjudged, TInv, TypeOK, ReceiptRow
  <2>2. CASE DeleteCommits(t)
    <3>1. receipts[req[t].id].status = "AwaitingConfirmation"
      BY <2>2 DEF DeleteCommits, At, Known
    <3> QED BY <1>2, <2>2, <3>1 DEF DeleteCommits, DeletedWasUnjudged, TInv, TypeOK, ReceiptRow
  <2> QED BY <2>1, <2>2
<1> QED BY <1>5, <1>6, <1>7

LEMMA StepKnown ==
    ASSUME ~ManyClerks, DInv, [Next]_vars
    PROVE  DInv'
<1>1. TInv'
  BY StepTyped DEF DInv
<1> SUFFICES OneClerk' /\ Known' /\ DeletedWasUnjudged'
  BY <1>1 DEF DInv
<1>2. CASE UNCHANGED vars
  BY <1>2, Undisturbed DEF vars, InFlight
<1>3. ASSUME NEW t \in Slot, Customer(t) \/ Clerk(t) \/ Callback(t)
      PROVE  OneClerk' /\ Known' /\ DeletedWasUnjudged'
  <2>1. CASE Decides(t)
    <3>1. /\ InFlight(t)
          /\ req'[t].kind = req[t].kind /\ req'[t].id = req[t].id
          /\ \A x \in Slot \ {t} : req'[x] = req[x]
          /\ receipts' = receipts
      BY <2>1, Decision DEF DInv
    <3>2. \A x \in Slot : InFlight(x)' => /\ InFlight(x)
                                          /\ req'[x].kind = req[x].kind
                                          /\ req'[x].id = req[x].id
      BY <3>1 DEF InFlight
    <3> QED BY <3>1, <3>2, Undisturbed
  <2>2. CASE CallbackCommits(t) \/ StatusCommits(t)
    <3>1. receipts' = receipts /\ req' = [req EXCEPT ![t] = Idle]
      BY <2>2 DEF CallbackCommits, StatusCommits, OrderCommits
    <3> QED BY <3>1, SlotFreed, Undisturbed DEF DInv
  <2>3. ASSUME NEW verified \in BOOLEAN, GatewayAnswers(t, verified)
        PROVE  OneClerk' /\ Known' /\ DeletedWasUnjudged'
    <3>1. /\ InFlight(t) /\ receipts' = receipts
          /\ req'[t].kind = req[t].kind /\ req'[t].id = req[t].id
          /\ \A x \in Slot \ {t} : req'[x] = req[x]
      BY <2>3, Answered DEF DInv
    <3> QED BY <3>1, Undisturbed DEF InFlight
  <2> QED BY <1>3, <2>1, <2>2, <2>3, StatusesType, CustomerBeginsKnown, ClerkBeginsKnown,
             OthersBeginKnown, RegisterCommitKnown, ClerkCommitKnown
          DEF Customer, Clerk, Callback, Decides
<1>4. ASSUME NEW t \in Slot, RequestEnds(t)
      PROVE  OneClerk' /\ Known' /\ DeletedWasUnjudged'
  <2>1. receipts' = receipts /\ req' = [req EXCEPT ![t] = Idle]
    BY <1>4 DEF RequestEnds
  <2> QED BY <2>1, SlotFreed, Undisturbed DEF DInv
<1>5. CASE (\E p \in Payment : CustomerPays(p)) \/ ByHand
  <2>1. receipts' = receipts /\ req' = req
    BY <1>5 DEF CustomerPays, ByHand, Reprice, DeleteOrder, EditPayment, DeletePayment
  <2> QED BY <2>1, Undisturbed DEF InFlight
<1> QED BY <1>2, <1>3, <1>4, <1>5 DEF Next

LEMMA InitKnown == Init => DInv
<1>1. Init => OneClerk /\ Known /\ DeletedWasUnjudged
  BY DEF Init, OneClerk, Known, DeletedWasUnjudged, InFlight
<1> QED BY <1>1, InitTyped DEF DInv

\* While staff work one at a time a deleted receipt was awaiting confirmation
\* and still is, whatever customers and callbacks do at the same time.
THEOREM DeletedUnjudged ==
    ASSUME ~ManyClerks
    PROVE  Spec => []DeletedWasUnjudged
<1>1. DInv => DeletedWasUnjudged
  BY DEF DInv
<1>2. DInv /\ [Next]_vars => DInv'
  BY StepKnown
<1> QED BY InitKnown, <1>1, <1>2, PTL DEF Spec


-----------------------------------------------------------------------------
(* Staff one at a time: an acceptance is covered.                          *)

\* No callback writes its payment between a clerk's sum and the commit of it.
Apart == \A t, u \in Slot :
    ~(At(t, "decided", "confirm") /\ (At(u, "decided", "verify") \/ At(u, "decided", "cancel")))

\* From the sum to the commit the confirmed receipts and the amount stay.
Weighed == \A t \in Slot : At(t, "decided", "confirm") =>
    LET covered == SumFunction(Prices(Confirmed(t))) + Online = order.payable
        concerned == ~order.removed /\ req[t].seen \in {"AwaitingPayment", "Paid"} IN
    /\ req[t].verdict = "ConfirmedPayment" => covered
    /\ covered /\ concerned => req[t].verdict = "ConfirmedPayment"

AInv == DInv /\ Weighed

LEMMA OnlineStays ==
    ASSUME payments' = payments
    PROVE  Online' = Online
BY DEF Online, Succeeded

\* A step that leaves the receipts, the order's amount and the payments alone
\* keeps what the other requests have summed up.
LEMMA WeighedStays ==
    ASSUME Weighed, receipts' = receipts, payments' = payments,
           order'.payable = order.payable, order'.removed = order.removed,
           \A x \in Slot : At(x, "decided", "confirm")'
                           => At(x, "decided", "confirm") /\ req'[x] = req[x]
    PROVE  Weighed'
<1>1. ASSUME NEW x \in Slot, At(x, "decided", "confirm")'
      PROVE  (SumFunction(Prices(Confirmed(x))) + Online)'
                = SumFunction(Prices(Confirmed(x))) + Online
  <2>1. At(x, "decided", "confirm") /\ req'[x] = req[x]
    BY <1>1
  <2>2. Confirmed(x)' = Confirmed(x)
    BY <2>1 DEF Confirmed, Flushed, Live
  <2>3. (Prices(Confirmed(x)))' = Prices(Confirmed(x))
    BY <2>2 DEF Prices
  <2> QED BY <2>3, OnlineStays
<1> QED BY <1>1 DEF Weighed

\* The decision of a clerk weighs the money of that moment.
LEMMA DecisionWeighed ==
    ASSUME AInv, NEW t \in Slot, ConfirmDecides(t)
    PROVE  Weighed'
<1> USE DEF AInv, DInv
<1>1. /\ \A x \in Slot \ {t} : req'[x] = req[x]
      /\ req'[t].id = req[t].id /\ req'[t].was = req[t].was
      /\ UNCHANGED <<order, trail, receipts, payments, byHand>>
  BY Decision DEF Decides
<1>2. InFlight(t) /\ req[t].kind \in StaffKinds
  BY DEF ConfirmDecides, At, StaffKinds
<1>3. \A x \in Slot \ {t} : ~At(x, "decided", "confirm")'
  BY <1>1, <1>2 DEF At, InFlight, OneClerk, StaffKinds
<1> DEFINE total == SumFunction(Prices(Confirmed(t))) + Online
           concerned == ~order.removed /\ order.status \in {"AwaitingPayment", "Paid"}
           verdict == IF concerned THEN Weigh(total, order.payable, "ConfirmedPayment")
                      ELSE "none"
<1>4. /\ req'[t].verdict = verdict /\ req'[t].seen = order.status
      /\ verdict = "ConfirmedPayment" => total = order.payable
      /\ total = order.payable /\ concerned => verdict = "ConfirmedPayment"
  <2>1. Decide(t, order.status, order.payable, verdict)
    BY DEF ConfirmDecides
  <2>2. /\ verdict = "ConfirmedPayment" => total = order.payable
        /\ total = order.payable /\ concerned => verdict = "ConfirmedPayment"
    BY DEF Weigh
  <2>3. verdict \in OrderStatus \cup {"none"}
    BY WeighType DEF OrderStatus
  <2> HIDE DEF verdict, total, concerned
  <2> DEFINE ruling == Ruling(t, order.status, order.payable, verdict)
  <2>4. /\ req[t] \in Request
        /\ order.status \in OrderStatus /\ order.payable \in Price
    BY <1>2, Flying DEF TInv, TypeOK
  <2>5. ruling.verdict = verdict /\ ruling.seen = order.status
    BY <2>3, <2>4, RulingType
  <2>6. req'[t] = ruling
    BY <2>1 DEF Decide, TInv, TypeOK
  <2>7. req'[t].verdict = verdict /\ req'[t].seen = order.status
    BY <2>5, <2>6
  <2> QED BY <2>2, <2>7
<1>5. Confirmed(t)' = Confirmed(t)
  BY <1>1 DEF Confirmed, Flushed, Live
<1>6. (Prices(Confirmed(t)))' = Prices(Confirmed(t))
  BY <1>1, <1>5 DEF Prices
<1>7. total' = total /\ concerned' = concerned
  BY <1>1, <1>6, OnlineStays
<1> HIDE DEF verdict
<1> QED BY <1>1, <1>3, <1>4, <1>7 DEF Weighed

\* A receipt filed meanwhile is not confirmed, and not among those summed up.
LEMMA FilingWeighed ==
    ASSUME AInv, NEW t \in Slot, RegisterCommits(t)
    PROVE  Weighed'
<1> USE DEF AInv, DInv
<1>1. \A x \in Slot : InFlight(x)' => x # t /\ InFlight(x) /\ req'[x] = req[x]
  BY SlotFreed DEF RegisterCommits, OrderCommits
<1>2. req[t].id \notin DOMAIN receipts
  BY DEF RegisterCommits, At, Known
<1>3. /\ DOMAIN receipts' = DOMAIN receipts \cup {req[t].id}
      /\ \A r \in DOMAIN receipts : receipts'[r] = receipts[r]
      /\ receipts'[req[t].id].status = "AwaitingConfirmation"
      /\ receipts'[req[t].id].removed = FALSE
  BY <1>2 DEF RegisterCommits
<1>4. Live' = Live \cup {req[t].id}
  BY <1>2, <1>3 DEF Live
<1>5. /\ payments' = payments
      /\ order'.payable = order.payable /\ order'.removed = order.removed
  BY DEF RegisterCommits, OrderCommits, TInv, TypeOK
<1>6. ASSUME NEW x \in Slot, At(x, "decided", "confirm")'
      PROVE  /\ At(x, "decided", "confirm") /\ req'[x] = req[x]
             /\ (SumFunction(Prices(Confirmed(x))) + Online)'
                   = SumFunction(Prices(Confirmed(x))) + Online
  <2>1. At(x, "decided", "confirm") /\ req'[x] = req[x]
    BY <1>1, <1>6 DEF At
  <2>2. req[x].id \in Live /\ Live \subseteq DOMAIN receipts
    BY <2>1 DEF At, Known, Live
  <2>3. Confirmed(x)' = Confirmed(x)
    BY <1>2, <1>3, <1>4, <2>1, <2>2 DEF Confirmed, Flushed
  <2>4. Confirmed(x) \subseteq DOMAIN receipts
    BY <2>2 DEF Confirmed
  <2>5. (Prices(Confirmed(x)))' = Prices(Confirmed(x))
    BY <1>3, <2>3, <2>4 DEF Prices
  <2> QED BY <1>5, <2>1, <2>5, OnlineStays
<1> QED BY <1>5, <1>6 DEF Weighed

\* While a clerk works, no other staff request is about to commit.
LEMMA AloneWeighed ==
    ASSUME DInv, NEW t \in Slot, InFlight(t), req[t].kind \in StaffKinds,
           req' = [req EXCEPT ![t] = Idle]
    PROVE  Weighed'
<1>1. \A x \in Slot : InFlight(x)' => x # t /\ InFlight(x) /\ req'[x] = req[x]
  BY SlotFreed DEF DInv
<1>2. \A x \in Slot : ~At(x, "decided", "confirm")'
  BY <1>1 DEF DInv, OneClerk, At, StaffKinds
<1> QED BY <1>2 DEF Weighed

LEMMA BeginWeighed ==
    ASSUME AInv, NEW t \in Slot, NEW session \in Request, Begin(t, session),
           session.pc = "begun" \/ session.kind # "confirm"
    PROVE  Weighed'
<1>1. /\ req'[t] = session
      /\ \A x \in Slot \ {t} : req'[x] = req[x]
  BY SlotType DEF Begin, AInv, DInv, TInv
<1>2. receipts' = receipts /\ payments' = payments /\ order' = order
  BY DEF Begin
<1>3. \A x \in Slot : At(x, "decided", "confirm")'
                      => At(x, "decided", "confirm") /\ req'[x] = req[x]
  BY <1>1 DEF At, InFlight
<1> QED BY <1>2, <1>3, WeighedStays DEF AInv

LEMMA CustomerWeighed ==
    ASSUME AInv, NEW t \in Slot, Customer(t)
    PROVE  Weighed'
<1>1. ASSUME NEW r \in Receipt, NEW price \in Price, RegisterReads(t, r, price)
      PROVE  Weighed'
  <2> DEFINE session == Session("begun", "register", r, "none", price, "none")
  <2>1. session \in Request /\ session.pc = "begun"
    BY SessionType DEF AInv, DInv, TInv, Kinds, Session
  <2>2. Begin(t, session)
    BY <1>1 DEF RegisterReads
  <2> HIDE DEF session
  <2> QED BY <2>1, <2>2, BeginWeighed
<1>2. CASE RegisterSums(t)
  <2>1. /\ InFlight(t) /\ req[t].kind = "register" /\ req'[t].kind = req[t].kind
        /\ \A x \in Slot \ {t} : req'[x] = req[x]
        /\ UNCHANGED <<order, trail, receipts, payments, byHand>>
    BY <1>2, Decision DEF AInv, DInv, RegisterSums, At, Decides
  <2>2. \A x \in Slot : At(x, "decided", "confirm")'
                        => At(x, "decided", "confirm") /\ req'[x] = req[x]
    BY <2>1 DEF At, InFlight
  <2> QED BY <2>1, <2>2, WeighedStays DEF AInv
<1> QED BY <1>1, <1>2, FilingWeighed DEF Customer

LEMMA ClerkWeighed ==
    ASSUME AInv, NEW t \in Slot, Clerk(t)
    PROVE  Weighed'
<1>1. ASSUME NEW r \in Receipt, ConfirmReads(t, r) \/ RejectReads(t, r) \/ DeleteReads(t, r)
      PROVE  Weighed'
  <2> DEFINE session(kind) == Session("begun", kind, r, receipts[r].status, 0, "none")
  <2>1. PICK kind \in {"confirm", "reject", "delete"} : Begin(t, session(kind))
    BY <1>1 DEF ConfirmReads, RejectReads, DeleteReads
  <2>2. receipts[r].status \in ReceiptStatus
    BY <1>1 DEF AInv, DInv, TInv, TypeOK, ReceiptRow, ConfirmReads, RejectReads,
                DeleteReads, Live
  <2>3. session(kind) \in Request
    BY <2>2, SessionType DEF AInv, DInv, TInv, Kinds, StaffKinds
  <2>4. session(kind).pc = "begun"
    BY DEF Session
  <2> HIDE DEF session
  <2> QED BY <2>1, <2>3, <2>4, BeginWeighed
<1>2. ASSUME NEW s \in OrderStatus, StatusReads(t, s) \/ FormReads(t, s)
      PROVE  Weighed'
  <2> DEFINE session(kind) == Session("decided", kind, "order", "none", 0, s)
  <2>1. PICK kind \in {"status", "form"} : Begin(t, session(kind))
    BY <1>2 DEF StatusReads, FormReads
  <2>2. session(kind) \in Request
    BY SessionType DEF AInv, DInv, TInv, Kinds, StaffKinds
  <2>3. session(kind).kind = kind
    BY DEF Session
  <2> HIDE DEF session
  <2> QED BY <2>1, <2>2, <2>3, BeginWeighed
<1>3. CASE \/ ConfirmCommits(t) \/ RejectCommits(t) \/ DeleteCommits(t) \/ StatusCommits(t)
  <2>1. /\ InFlight(t) /\ req[t].kind \in StaffKinds
        /\ req' = [req EXCEPT ![t] = Idle]
    BY <1>3 DEF ConfirmCommits, RejectCommits, DeleteCommits, StatusCommits, At,
                OrderCommits, StaffKinds
  <2> QED BY <2>1, AloneWeighed DEF AInv
<1> QED BY <1>1, <1>2, <1>3, StatusesType, DecisionWeighed DEF Clerk

\* A callback leaves the payments alone until it commits, and then no clerk
\* holds a sum of them.
LEMMA CallbackWeighed ==
    ASSUME AInv, Apart, NEW t \in Slot, Callback(t)
    PROVE  Weighed'
<1> USE DEF AInv, DInv
<1>1. ASSUME NEW p \in Payment, NEW kind \in CallbackKinds, CallbackReads(t, p, kind)
      PROVE  Weighed'
  <2> DEFINE session == Session("begun", kind, p, payments[p].status, 0, "none")
  <2>1. payments[p].status \in PaymentStatus
    BY DEF TInv, TypeOK, PaymentRow
  <2>2. session \in Request
    BY <2>1, SessionType DEF TInv, Kinds, CallbackKinds
  <2>3. session.pc = "begun"
    BY DEF Session
  <2>4. Begin(t, session)
    BY <1>1 DEF CallbackReads
  <2> HIDE DEF session
  <2> QED BY <2>2, <2>3, <2>4, BeginWeighed
<1>2. CASE CancelDecides(t) \/ AnswerDecides(t)
  <2>1. /\ req[t].kind \in CallbackKinds /\ req'[t].kind = req[t].kind
        /\ \A x \in Slot \ {t} : req'[x] = req[x]
        /\ UNCHANGED <<order, trail, receipts, payments, byHand>>
    BY <1>2, Decision DEF CancelDecides, AnswerDecides, At, Decides, CallbackKinds
  <2>2. \A x \in Slot : At(x, "decided", "confirm")'
                        => At(x, "decided", "confirm") /\ req'[x] = req[x]
    BY <2>1 DEF At, InFlight, CallbackKinds
  <2> QED BY <2>1, <2>2, WeighedStays
<1>3. ASSUME NEW verified \in BOOLEAN, GatewayAnswers(t, verified)
      PROVE  Weighed'
  <2>1. /\ req'[t].pc = "begun"
        /\ \A x \in Slot \ {t} : req'[x] = req[x]
        /\ UNCHANGED <<order, trail, receipts, payments, byHand>>
    BY <1>3, Answered
  <2>2. \A x \in Slot : At(x, "decided", "confirm")'
                        => At(x, "decided", "confirm") /\ req'[x] = req[x]
    BY <2>1 DEF At, InFlight
  <2> QED BY <2>1, <2>2, WeighedStays
<1>4. CASE CallbackCommits(t)
  <2>1. \A x \in Slot : InFlight(x)' => InFlight(x) /\ req'[x] = req[x]
    BY <1>4, SlotFreed DEF CallbackCommits, OrderCommits
  <2>2. At(t, "decided", "verify") \/ At(t, "decided", "cancel")
    BY <1>4 DEF CallbackCommits, At
  <2>3. \A x \in Slot : ~At(x, "decided", "confirm")'
    BY <2>1, <2>2 DEF Apart, At
  <2> QED BY <2>3 DEF Weighed
<1> QED BY <1>1, <1>2, <1>3, <1>4 DEF Callback, CallbackKinds

LEMMA ByHandWeighed ==
    ASSUME ~ManyClerks, AInv, ByHand
    PROVE  Weighed'
<1>1. ClerkFree /\ req' = req
  BY DEF ByHand, Reprice, DeleteOrder, EditPayment, DeletePayment
<1>2. \A x \in Slot : ~At(x, "decided", "confirm")'
  BY <1>1 DEF ClerkFree, At, InFlight, StaffKinds
<1> QED BY <1>2 DEF Weighed

LEMMA StepWeighed ==
    ASSUME ~ManyClerks, AInv, Apart, [Next]_vars
    PROVE  AInv'
<1>1. DInv'
  BY StepKnown DEF AInv
<1> SUFFICES Weighed'
  BY <1>1 DEF AInv
<1>2. CASE UNCHANGED vars
  BY <1>2, WeighedStays DEF vars, AInv, At, InFlight
<1>3. ASSUME NEW t \in Slot, RequestEnds(t) PROVE Weighed'
  <2>1. /\ req' = [req EXCEPT ![t] = Idle]
        /\ receipts' = receipts /\ payments' = payments /\ order' = order
    BY <1>3 DEF RequestEnds
  <2>2. \A x \in Slot : InFlight(x)' => x # t /\ InFlight(x) /\ req'[x] = req[x]
    BY <2>1, SlotFreed DEF AInv, DInv
  <2>3. \A x \in Slot : At(x, "decided", "confirm")'
                        => At(x, "decided", "confirm") /\ req'[x] = req[x]
    BY <2>2 DEF At
  <2> QED BY <2>1, <2>3, WeighedStays DEF AInv
<1>4. ASSUME NEW p \in Payment, CustomerPays(p) PROVE Weighed'
  BY <1>4, WeighedStays DEF CustomerPays, AInv, At, InFlight
<1> QED BY <1>2, <1>3, <1>4, CustomerWeighed, ClerkWeighed, CallbackWeighed, ByHandWeighed
        DEF Next

\* The acceptance itself: what the clerk confirms is what was summed up.
LEMMA AcceptanceStep ==
    ASSUME AInv, NEW t \in Slot, ConfirmCommits(t)
    PROVE  /\ req[t].verdict = "ConfirmedPayment" => Banked' = order'.payable
           /\ (/\ Banked' = order'.payable
               /\ ~order.removed
               /\ req[t].seen \in {"AwaitingPayment", "Paid"})
                   => order'.status = "ConfirmedPayment"
<1> USE DEF AInv, DInv
<1>1. At(t, "decided", "confirm") /\ req[t].id \in Live
  BY DEF ConfirmCommits, At, Known
<1>2. /\ DOMAIN receipts' = DOMAIN receipts
      /\ \A r \in DOMAIN receipts :
            /\ receipts'[r].status = Flushed(t, r)
            /\ receipts'[r].price = receipts[r].price
            /\ receipts'[r].removed = receipts[r].removed
  <2>1. receipts' = [receipts EXCEPT ![req[t].id].status = Flushed(t, req[t].id)]
    BY DEF ConfirmCommits, Judged, Flushed
  <2>2. \A r \in DOMAIN receipts : receipts[r] \in ReceiptRow
    BY DEF TInv, TypeOK
  <2>3. \A r \in DOMAIN receipts \ {req[t].id} : Flushed(t, r) = receipts[r].status
    BY DEF Flushed
  <2> QED BY <2>1, <2>2, <2>3 DEF ReceiptRow
<1>3. {r \in Live : receipts[r].status = "Confirmed"}' = Confirmed(t)
  BY <1>2 DEF Live, Confirmed
<1>4. (Prices({r \in Live : receipts[r].status = "Confirmed"}))' = Prices(Confirmed(t))
  <2>1. Confirmed(t) \subseteq DOMAIN receipts
    BY DEF Confirmed, Live
  <2> QED BY <1>2, <1>3, <2>1 DEF Prices
<1>5. payments' = payments /\ order'.payable = order.payable
  BY DEF ConfirmCommits, OrderCommits, TInv, TypeOK
<1>6. Banked' = SumFunction(Prices(Confirmed(t))) + Online
  BY <1>4, <1>5, OnlineStays DEF Banked
<1>7. req[t].verdict = "ConfirmedPayment" /\ req[t].seen \in {"AwaitingPayment", "Paid"}
         => order'.status = "ConfirmedPayment"
  BY DEF ConfirmCommits, OrderCommits, Assign, TInv, TypeOK
<1> QED BY <1>1, <1>5, <1>6, <1>7 DEF Weighed

LEMMA InitWeighed == Init => AInv
<1>1. Init => Weighed
  BY DEF Init, Weighed, At, InFlight
<1> QED BY <1>1, InitKnown DEF AInv

\* While staff work one at a time, an order is accepted if and only if a
\* confirmation brings what is confirmed and paid online to exactly its amount,
\* however many receipts customers file at the same time and wherever callbacks
\* come in, except between the sum and its commit.
THEOREM AcceptanceCovered ==
    ASSUME ~ManyClerks
    PROVE  Spec /\ []Apart => AcceptanceIsCovered
<1>1. AInv /\ Apart /\ [Next]_vars => AInv'
  BY StepWeighed
<1>2. AInv /\ [Next]_vars =>
         [\A t \in Slot : ConfirmCommits(t) =>
             /\ req[t].verdict = "ConfirmedPayment" => Banked' = order'.payable
             /\ (/\ Banked' = order'.payable
                 /\ ~order.removed
                 /\ req[t].seen \in {"AwaitingPayment", "Paid"})
                     => order'.status = "ConfirmedPayment"]_vars
  BY AcceptanceStep
<1> QED BY InitWeighed, <1>1, <1>2, PTL DEF Spec, AcceptanceIsCovered

\* ... and without online payments nothing has to be kept apart.
COROLLARY AcceptanceCoveredOffline ==
    ASSUME ~ManyClerks, Payment = {}
    PROVE  Spec => AcceptanceIsCovered
<1>1. TInv => Apart
  BY DEF TInv, Aimed, Apart, At, CallbackKinds
<1> QED BY InitTyped, StepTyped, AcceptanceCovered, <1>1, PTL DEF Spec

-----------------------------------------------------------------------------
(* The records tell the status.                                            *)

\* A request that holds on to an order status it has read: every one that has
\* decided, and a registration from its first read on.
Holds(t) == InFlight(t) /\ (req[t].pc = "decided" \/ req[t].kind = "register")

\* Of the requests that hold on to a status there is never more than one.
OneHolds == \A t, u \in Slot : Holds(t) /\ Holds(u) => t = u

\* What a request holds on to is still the order's status; no request comes
\* from the edit form, and the clerks' refusals decide nothing.
Current == \A t \in Slot : InFlight(t) =>
    /\ req[t].kind # "form"
    /\ req[t].kind \in {"reject", "delete"} => req[t].verdict = "none"
    /\ Holds(t) => req[t].seen = order.status

TrInv == TInv /\ Current /\ TrailTellsStatus

\* A session has read the status the order has.
LEMMA BeginCurrent ==
    ASSUME TrInv, NEW t \in Slot, NEW session \in Request, Begin(t, session),
           session.seen = order.status, session.kind # "form",
           session.kind \in {"reject", "delete"} => session.verdict = "none"
    PROVE  Current' /\ TrailTellsStatus'
<1>1. /\ req'[t] = session
      /\ \A x \in Slot \ {t} : req'[x] = req[x]
  BY SlotType DEF Begin, TrInv, TInv
<1>2. order' = order /\ trail' = trail
  BY DEF Begin
<1> QED BY <1>1, <1>2 DEF TrInv, Current, TrailTellsStatus, Holds, InFlight

LEMMA BeginsCurrent ==
    ASSUME FormStatus = {}, TrInv, NEW t \in Slot,
           \/ \E r \in Receipt, price \in Price : RegisterReads(t, r, price)
           \/ \E r \in Receipt : ConfirmReads(t, r) \/ RejectReads(t, r) \/ DeleteReads(t, r)
           \/ \E s \in StaffStatus : StatusReads(t, s)
           \/ \E p \in Payment, kind \in CallbackKinds : CallbackReads(t, p, kind)
    PROVE  Current' /\ TrailTellsStatus'
<1> USE DEF TrInv, TInv
<1>1. PICK pc \in {"begun", "decided"}, kind \in Kinds,
           id \in Receipt \cup Payment \cup {"order"},
           was \in ReceiptStatus \cup PaymentStatus \cup {"none"},
           price \in Price \cup {0}, verdict \in OrderStatus \cup {"none"} :
              /\ Begin(t, Session(pc, kind, id, was, price, verdict))
              /\ kind # "form"
              /\ kind \in {"reject", "delete"} => verdict = "none"
  <2>1. CASE \E r \in Receipt, price \in Price : RegisterReads(t, r, price)
    BY <2>1 DEF RegisterReads, Kinds
  <2>2. ASSUME NEW r \in Receipt, ConfirmReads(t, r) \/ RejectReads(t, r) \/ DeleteReads(t, r)
        PROVE  \E kind \in {"confirm", "reject", "delete"}, was \in ReceiptStatus :
                  Begin(t, Session("begun", kind, r, was, 0, "none"))
    <3>1. receipts[r].status \in ReceiptStatus
      BY <2>2 DEF TypeOK, ReceiptRow, ConfirmReads, RejectReads, DeleteReads, Live
    <3> QED BY <2>2, <3>1 DEF ConfirmReads, RejectReads, DeleteReads
  <2>3. CASE \E r \in Receipt : ConfirmReads(t, r) \/ RejectReads(t, r) \/ DeleteReads(t, r)
    BY <2>2, <2>3 DEF Kinds, StaffKinds
  <2>4. CASE \E s \in StaffStatus : StatusReads(t, s)
    <3>1. PICK s \in StaffStatus : StatusReads(t, s)
      BY <2>4
    <3>2. s \in OrderStatus
      BY StatusesType
    <3> QED BY <3>1, <3>2 DEF StatusReads, Kinds, StaffKinds
  <2>5. CASE \E p \in Payment, kind \in CallbackKinds : CallbackReads(t, p, kind)
    <3>1. PICK p \in Payment, kind \in CallbackKinds : CallbackReads(t, p, kind)
      BY <2>5
    <3>2. payments[p].status \in PaymentStatus
      BY DEF TypeOK, PaymentRow
    <3> QED BY <3>1, <3>2 DEF CallbackReads, Kinds, CallbackKinds
  <2> QED BY <2>1, <2>3, <2>4, <2>5
<1> DEFINE begun == Session(pc, kind, id, was, price, verdict)
<1>2. begun \in Request
  BY SessionType
<1>3. begun.seen = order.status /\ begun.kind = kind /\ begun.verdict = verdict
  BY DEF Session
<1>4. Begin(t, begun)
  BY <1>1
<1> HIDE DEF begun
<1> QED BY <1>1, <1>2, <1>3, <1>4, BeginCurrent

\* A decision holds on to the status of the moment; of a registration, to the
\* one it has read before.
LEMMA DecisionSees ==
    ASSUME TInv, NEW t \in Slot, Decides(t)
    PROVE  \/ req'[t].seen = order.status
           \/ req[t].kind = "register" /\ req'[t].seen = req[t].seen
<1>1. req[t] \in Request
  BY DecidesTyped
<1>2. ASSUME NEW seen \in OrderStatus, NEW payable \in Price,
             NEW verdict \in OrderStatus \cup {"none"}, Decide(t, seen, payable, verdict)
      PROVE  req'[t].seen = seen
  <2>1. Ruling(t, seen, payable, verdict).seen = seen
    BY <1>1, <1>2, RulingType
  <2>2. req'[t] = Ruling(t, seen, payable, verdict)
    BY <1>2 DEF Decide, TInv, TypeOK
  <2> QED BY <2>1, <2>2
<1>3. /\ order.status \in OrderStatus /\ order.payable \in Price
      /\ req[t].seen \in OrderStatus /\ req[t].payable \in Price
      /\ req[t].verdict \in OrderStatus \cup {"none"}
  BY <1>1 DEF TInv, TypeOK, Request
<1>4. CASE RegisterSums(t)
  <2>1. PICK total : Decide(t, req[t].seen, req[t].payable,
                            Weigh(total, req[t].payable, "Paid"))
    BY <1>4 DEF RegisterSums
  <2>2. Weigh(total, req[t].payable, "Paid") \in OrderStatus \cup {"none"}
    BY WeighType DEF OrderStatus
  <2>3. req[t].kind = "register"
    BY <1>4 DEF RegisterSums, At
  <2> QED BY <1>2, <1>3, <2>1, <2>2, <2>3
<1>5. CASE ConfirmDecides(t)
  <2>1. PICK total, concerned :
           Decide(t, order.status, order.payable,
                  IF concerned THEN Weigh(total, order.payable, "ConfirmedPayment")
                  ELSE "none")
    BY <1>5 DEF ConfirmDecides
  <2>2. Weigh(total, order.payable, "ConfirmedPayment") \in OrderStatus \cup {"none"}
    BY WeighType DEF OrderStatus
  <2> QED BY <1>2, <1>3, <2>1, <2>2
<1>6. CASE CancelDecides(t) \/ AnswerDecides(t)
  <2>1. PICK verdict \in {"Canceled", req[t].verdict} :
           Decide(t, order.status, req[t].payable, verdict)
    BY <1>6 DEF CancelDecides, AnswerDecides
  <2>2. verdict \in OrderStatus \cup {"none"}
    BY <1>3 DEF OrderStatus
  <2> QED BY <1>2, <1>3, <2>1, <2>2
<1> QED BY <1>4, <1>5, <1>6 DEF Decides

LEMMA DecisionCurrent ==
    ASSUME TrInv, NEW t \in Slot, Decides(t)
    PROVE  Current' /\ TrailTellsStatus'
<1> USE DEF TrInv
<1>1. /\ InFlight(t) /\ req'[t].kind = req[t].kind
      /\ \A x \in Slot \ {t} : req'[x] = req[x]
      /\ order' = order /\ trail' = trail
  BY Decision
<1>2. req[t].kind \notin {"reject", "delete"}
  BY DEF Decides, RegisterSums, ConfirmDecides, CancelDecides, AnswerDecides, At
<1>3. req'[t].seen = order.status
  BY <1>1, DecisionSees DEF Current, Holds
<1> QED BY <1>1, <1>2, <1>3 DEF Current, TrailTellsStatus, Holds, InFlight

LEMMA AnswerCurrent ==
    ASSUME TrInv, NEW t \in Slot, NEW verified \in BOOLEAN, GatewayAnswers(t, verified)
    PROVE  Current' /\ TrailTellsStatus'
<1>1. /\ req'[t].pc = "begun" /\ req'[t].kind = "verify"
      /\ \A x \in Slot \ {t} : req'[x] = req[x]
      /\ order' = order /\ trail' = trail
  BY Answered DEF TrInv
<1> QED BY <1>1 DEF TrInv, Current, TrailTellsStatus, Holds, InFlight

\* The only request that holds on to a status writes it and the record; the
\* others commit without either.
LEMMA CommitCurrent ==
    ASSUME TrInv, OneHolds, NEW t \in Slot, InFlight(t), OrderCommits(t),
           Holds(t) \/ req[t].kind \in {"reject", "delete"}
    PROVE  Current' /\ TrailTellsStatus'
<1> USE DEF TrInv
<1>1. req' = [req EXCEPT ![t] = Idle]
  BY DEF OrderCommits
<1>2. \A x \in Slot : InFlight(x)' => x # t /\ InFlight(x) /\ req'[x] = req[x]
  BY <1>1, SlotFreed
<1>3. CASE req[t].verdict = "none"
  <2>1. order' = order /\ trail' = trail
    BY <1>3 DEF OrderCommits
  <2> QED BY <1>2, <2>1 DEF Current, TrailTellsStatus, Holds
<1>4. CASE req[t].verdict # "none"
  <2>1. Holds(t) /\ req[t].kind # "form" /\ req[t].seen = order.status
    BY <1>4 DEF Current
  <2>2. order'.status = req[t].verdict /\ trail' = req[t].verdict
    BY <1>4, <2>1 DEF OrderCommits, Assign, TInv, TypeOK
  <2>3. \A x \in Slot : ~Holds(x)'
    BY <1>2, <2>1 DEF OneHolds, Holds
  <2>4. \A x \in Slot : InFlight(x)' => /\ req'[x].kind # "form"
                                        /\ req'[x].kind \in {"reject", "delete"}
                                              => req'[x].verdict = "none"
    BY <1>2 DEF Current
  <2> QED BY <2>2, <2>3, <2>4 DEF Current, TrailTellsStatus
<1> QED BY <1>3, <1>4

\* A step that leaves requests, status and record alone.
LEMMA CurrentStays ==
    ASSUME Current, TrailTellsStatus, order'.status = order.status, trail' = trail,
           \A x \in Slot : InFlight(x)' => InFlight(x) /\ req'[x] = req[x]
    PROVE  Current' /\ TrailTellsStatus'
<1>1. \A x \in Slot : Holds(x)' => Holds(x)
  BY DEF Holds
<1> QED BY <1>1 DEF Current, TrailTellsStatus

LEMMA StepCurrent ==
    ASSUME FormStatus = {}, TrInv, OneHolds, [Next]_vars
    PROVE  TrInv'
<1>1. TInv'
  BY StepTyped DEF TrInv
<1> SUFFICES Current' /\ TrailTellsStatus'
  BY <1>1 DEF TrInv
<1>2. CASE UNCHANGED vars
  BY <1>2, CurrentStays DEF vars, TrInv, InFlight
<1>3. ASSUME NEW t \in Slot,
             \/ RegisterCommits(t) \/ ConfirmCommits(t) \/ RejectCommits(t)
             \/ DeleteCommits(t) \/ CallbackCommits(t) \/ StatusCommits(t)
      PROVE  Current' /\ TrailTellsStatus'
  <2>1. /\ InFlight(t) /\ OrderCommits(t)
        /\ Holds(t) \/ req[t].kind \in {"reject", "delete"}
    BY <1>3 DEF RegisterCommits, ConfirmCommits, RejectCommits, DeleteCommits,
                CallbackCommits, StatusCommits, At, Holds
  <2> QED BY <2>1, CommitCurrent
<1>4. ASSUME NEW t \in Slot, Customer(t) PROVE Current' /\ TrailTellsStatus'
  BY <1>3, <1>4, BeginsCurrent, DecisionCurrent DEF Customer, Decides
<1>5. ASSUME NEW t \in Slot, Clerk(t) PROVE Current' /\ TrailTellsStatus'
  BY <1>3, <1>5, BeginsCurrent, DecisionCurrent DEF Clerk, Decides
<1>6. ASSUME NEW t \in Slot, Callback(t) PROVE Current' /\ TrailTellsStatus'
  BY <1>3, <1>6, BeginsCurrent, DecisionCurrent, AnswerCurrent
     DEF Callback, CallbackKinds, Decides
<1>7. ASSUME NEW t \in Slot, RequestEnds(t) PROVE Current' /\ TrailTellsStatus'
  <2>1. /\ req' = [req EXCEPT ![t] = Idle]
        /\ order' = order /\ trail' = trail
    BY <1>7 DEF RequestEnds
  <2>2. \A x \in Slot : InFlight(x)' => InFlight(x) /\ req'[x] = req[x]
    BY <2>1, SlotFreed DEF TrInv
  <2> QED BY <2>1, <2>2, CurrentStays DEF TrInv
<1>8. CASE (\E p \in Payment : CustomerPays(p)) \/ ByHand
  <2>1. req' = req /\ trail' = trail /\ order'.status = order.status
    BY <1>8 DEF CustomerPays, ByHand, Reprice, DeleteOrder, EditPayment, DeletePayment,
                TrInv, TInv, TypeOK
  <2> QED BY <2>1, CurrentStays DEF TrInv, InFlight
<1> QED BY <1>2, <1>4, <1>5, <1>6, <1>7, <1>8 DEF Next

LEMMA InitCurrent == Init => TrInv
<1>1. Init => Current /\ TrailTellsStatus
  BY DEF Init, Current, TrailTellsStatus, InFlight
<1> QED BY <1>1, InitTyped DEF TrInv

\* Without the edit form the newest record tells the order's status, as long as
\* no two requests hold on to a status at the same time: clerks and callbacks
\* may overlap up to their decision, and refusals altogether.
THEOREM TrailTold ==
    ASSUME FormStatus = {}
    PROVE  Spec /\ []OneHolds => []TrailTellsStatus
<1>1. TrInv => TrailTellsStatus
  BY DEF TrInv
<1>2. TrInv /\ OneHolds /\ [Next]_vars => TrInv'
  BY StepCurrent
<1> QED BY InitCurrent, <1>1, <1>2, PTL DEF Spec

\* One request at a time, as in the run, the newest record always tells it.
COROLLARY TrailToldAlone ==
    ASSUME FormStatus = {}, \A t, u \in Slot : t = u
    PROVE  Spec => []TrailTellsStatus
<1>1. OneHolds
  BY DEF OneHolds
<1> QED BY <1>1, TrailTold, PTL
=============================================================================
