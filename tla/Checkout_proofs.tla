---------------------------- MODULE Checkout_proofs ----------------------------
(***************************************************************************)
(* Theorems about the checkout, for any number of users, request slots,    *)
(* lines, deliveries and orders.  Type correctness and PlacedComplete hold *)
(* however requests overlap; the rest assumes that the requests of one     *)
(* customer come one by one.                                               *)
(***************************************************************************)
EXTENDS Checkout, FiniteSetTheorems, TLAPS

-----------------------------------------------------------------------------
(* Lemmas about the operators.                                             *)

\* A bill counts rows with natural numbers.
LEMMA BillType ==
    ASSUME NEW rows, NEW post \in Post
    PROVE  Bill(rows, post) \in BillSet
<1>1. ASSUME NEW l \in Line
      PROVE  Cardinality({s \in Stamp : <<l, s>> \in rows}) \in Nat
  <2>1. IsFiniteSet({s \in Stamp : <<l, s>> \in rows})
    BY StampType, FS_Subset
  <2> QED BY <2>1, FS_CardinalityType
<1> QED BY <1>1 DEF Bill, BillSet

\* A price is a bill with or without a discount.
LEMMA PriceType ==
    ASSUME NEW rows, NEW post \in Post, NEW off \in BOOLEAN
    PROVE  Price(rows, post, off) \in [bill : BillSet, off : BOOLEAN]
BY BillType DEF Price

\* A session's new order has the type of a stored one.
LEMMA NewOrderType ==
    ASSUME NEW u \in User, NEW post \in Post, NEW off \in BOOLEAN
    PROVE  NewOrder(u, post, off) \in Order
<1>1. Price({}, post, off) \in [bill : BillSet, off : BOOLEAN]
  BY PriceType
<1> HIDE DEF BillSet
<1> QED BY <1>1 DEF NewOrder, Order

\* What a request in flight is.
LEMMA Flying ==
    ASSUME TypeOK, NEW t \in Tab, req[t] # Idle
    PROVE  /\ req[t] \in Request
           /\ req[t].pc \in {"generate", "create", "sync", "apply", "pay"}
           /\ req[t].channel \in {"web", "api"}
           /\ req[t].user \in User
           /\ req[t].pc = "generate" => req[t].oid = 0
           /\ req[t].pc # "generate" => req[t].oid \in OrderId
           /\ req[t].order \in Order
           /\ req[t].extras \subseteq OrderId
           /\ req[t].items \subseteq Line
<1>1. req[t] \in Request
  BY DEF TypeOK
<1> QED BY <1>1 DEF Request, Session

\* A request with a stage of work is in flight.
LEMMA Working ==
    ASSUME NEW t \in Tab, req[t].pc # "idle" PROVE req[t] # Idle
BY DEF Idle

\* The rows a request writes are rows.
LEMMA WrittenType ==
    ASSUME TypeOK, NEW t \in Tab, req[t] # Idle, NEW s \in Stamp
    PROVE  Written(t, s) \in SUBSET Row
BY Flying, LinesType DEF Written, Row

\* The price of the rows a request writes is a price.
LEMMA TotalType ==
    ASSUME TypeOK, NEW t \in Tab, req[t] # Idle, NEW s \in Stamp, NEW off \in BOOLEAN
    PROVE  Total(t, s, off) \in [bill : BillSet, off : BOOLEAN]
<1>1. req[t].order.post \in Post
  BY Flying DEF Order
<1> QED BY <1>1, PriceType DEF Total

-----------------------------------------------------------------------------
(* Type correctness.                                                       *)

\* A request that got its code goes on to the insert.
LEMMA WithCodeType ==
    ASSUME NEW r \in Session({"generate"}, {0}), NEW o \in OrderId, NEW c \in Nat
    PROVE  WithCode(r, o, c) \in Session({"create"}, OrderId)
<1> DEFINE order == [r.order EXCEPT !.code = c]
<1>1. order \in Order
  BY DEF Session, Order
<1>2. WithCode(r, o, c) = [r EXCEPT !.pc = "create", !.oid = o, !.order = order]
  BY DEF WithCode
<1> HIDE DEF order
<1> QED BY <1>1, <1>2 DEF Session

\* A step that gives a slot a request, or takes it away, keeps the types.
LEMMA LoadType ==
    ASSUME TypeOK, NEW t \in Tab, NEW r \in Request \cup {Idle},
           req' = [req EXCEPT ![t] = r], UNCHANGED <<orders, issued, cookie>>
    PROVE  TypeOK'
BY DEF TypeOK

\* A flushed order is an order.
LEMMA FlushedType ==
    ASSUME TypeOK, NEW t \in Tab, req[t] # Idle, NEW s \in Stamp, NEW off \in BOOLEAN
    PROVE  Flushed(t, s, off) \in Order
BY Flying, WrittenType, TotalType DEF Flushed, Order

\* After a commit the request goes on with an order of the right type.
LEMMA GoOnType ==
    ASSUME TypeOK, NEW t \in Tab, req[t] # Idle, req[t].pc # "generate",
           NEW s \in Stamp, GoOn(t, s)
    PROVE  req' \in [Tab -> {Idle} \cup Request]
<1>1. NextStage(t, s) \in {Idle} \cup Request
  <2>1. CASE req[t].pc # "generate"
    BY <2>1, Flying, FlushedType DEF NextStage, Request, Session
  <2> QED BY <2>1
<1> QED BY <1>1 DEF GoOn, TypeOK

\* The orders stay well formed when the order of a request is rewritten.
LEMMA UpdateType ==
    ASSUME TypeOK, NEW t \in Tab, NEW new, Update(t, new),
           req[t].oid \in DOMAIN orders => new \in Order
    PROVE  TypeOK'
<1>1. \A o \in DOMAIN orders' : orders'[o] \in Order
  BY DEF Update, TypeOK
<1>2. DOMAIN orders' = DOMAIN orders
  BY DEF Update
<1>3. req' \in [Tab -> {Idle} \cup Request]
  BY DEF Update, Answer, TypeOK
<1> QED BY <1>1, <1>2, <1>3 DEF Update, TypeOK

\* A draft is a stored order.
LEMMA CurrentType ==
    ASSUME TypeOK, NEW u \in User, NEW o \in Current(u)
    PROVE  /\ o \in DOMAIN orders /\ o \in OrderId
           /\ orders[o] \in Order
           /\ orders[o].owner = u /\ orders[o].status = "Ordering"
           /\ Drafts(u) \subseteq OrderId
<1>1. o \in DOMAIN orders
  BY DEF Current, Drafts
<1> QED BY <1>1, BoundType DEF Current, Drafts, TypeOK, OrderId

\* Starting a request keeps the types.
LEMMA BeginType ==
    ASSUME TypeOK, NEW t \in Tab, NEW u \in User, Begin(t, u)
    PROVE  TypeOK'
<1>0. cookie[u] \in SUBSET Line /\ 0 \in 0..MaxOrders
  BY BoundType DEF TypeOK
<1>1. CASE OpenDraft(t, u)
  <2>1. PICK o \in Current(u) : Load(t, u, "apply", o, orders[o], {}, {}, "web")
    BY <1>1 DEF OpenDraft
  <2> QED BY <1>1, <2>1, CurrentType, LoadType DEF OpenDraft, Load, Request, Session
<1>2. CASE ReadDrafts(t, u)
  <2>1. PICK o \in Current(u) :
          Load(t, u, "sync", o, orders[o], Drafts(u) \ {o}, cookie[u], "web")
    BY <1>2 DEF ReadDrafts
  <2> QED BY <1>0, <1>2, <2>1, CurrentType, LoadType DEF ReadDrafts, Load, Request, Session
<1>3. CASE BeginDraft(t, u)
  <2>1. NewOrder(u, NoPost, FALSE) \in Order
    BY NewOrderType DEF Post
  <2> QED BY <1>0, <1>3, <2>1, LoadType DEF BeginDraft, Load, Request, Session
<1>4. CASE ReadForPayment(t, u)
  <2>1. PICK o \in Current(u) : Load(t, u, "pay", o, orders[o], {}, {}, "web")
    BY <1>4 DEF ReadForPayment
  <2> QED BY <1>4, <2>1, CurrentType, LoadType DEF ReadForPayment, Load, Request, Session
<1>5. ASSUME NEW items \in SUBSET Valid, NEW p \in PostType, NEW off \in BOOLEAN,
             ApiCheckout(t, u, items, p, off)
      PROVE  TypeOK'
  <2>1. NewOrder(u, p, off) \in Order
    BY NewOrderType DEF Post
  <2>2. items \in SUBSET Line
    BY LinesType
  <2> QED BY <1>0, <1>5, <2>2, <2>1, LoadType DEF ApiCheckout, Load, Request, Session
<1> QED BY <1>1, <1>2, <1>3, <1>4, <1>5 DEF Begin

\* Going on with a request keeps the types.
LEMMA ContinueType ==
    ASSUME TypeOK, NEW t \in Tab, Continue(t)
    PROVE  TypeOK'
<1>1. CASE GenerateCode(t)
  <2>1. req[t] # Idle
    BY <1>1, Working DEF GenerateCode
  <2>2. PICK c \in Codes \cup {1000} :
          /\ \A d \in Codes : d <= c
          /\ req' = [req EXCEPT ![t] = WithCode(req[t], issued + 1, c + 1)]
    BY <1>1 DEF GenerateCode
  <2>3. c + 1 \in Nat
    BY DEF Codes, TypeOK, Order
  <2>5. issued' \in 0..MaxOrders /\ issued + 1 \in 0..MaxOrders
    BY <1>1, BoundType DEF GenerateCode, TypeOK
  <2>6. WithCode(req[t], issued + 1, c + 1) \in Request
    <3>1. req[t] \in Session({"generate"}, {0})
      BY <1>1, <2>1, Flying DEF GenerateCode, Request, Session
    <3>2. issued + 1 \in OrderId
      BY <2>5 DEF OrderId, TypeOK
    <3>3. WithCode(req[t], issued + 1, c + 1) \in Session({"create"}, OrderId)
      BY <2>3, <3>1, <3>2, WithCodeType
    <3> QED BY <3>3 DEF Request, Session
  <2>7. UNCHANGED <<orders, cookie>>
    BY <1>1 DEF GenerateCode
  <2> QED BY <2>2, <2>5, <2>6, <2>7 DEF TypeOK
<1>2. ASSUME NEW s \in Stamp, CreateCommits(t, s) PROVE TypeOK'
  <2>1. req[t] # Idle
    BY <1>2, Working DEF CreateCommits
  <2>2. Flushed(t, s, req[t].order.discount) \in Order
    BY <2>1, Flying, FlushedType DEF Order
  <2>4. req[t].oid \in OrderId
    BY <1>2, <2>1, Flying DEF CreateCommits
  <2>3. req' \in [Tab -> {Idle} \cup Request]
    BY <1>2, <2>1, GoOnType DEF CreateCommits
  <2> QED BY <1>2, <2>2, <2>3, <2>4 DEF CreateCommits, TypeOK
<1>3. ASSUME NEW s \in Stamp, SyncCommits(t, s) PROVE TypeOK'
  <2>1. req[t] # Idle
    BY <1>3, Working DEF SyncCommits
  <2> DEFINE o == req[t].oid
             new == [orders[o] EXCEPT
                       !.rows = Kept(t) \cup Written(t, s),
                       !.quoted = Assign(req[t].order.quoted, Total(t, s, FALSE), @),
                       !.emptied = (Kept(t) \cup Written(t, s) = {})]
  <2>2. o \in DOMAIN orders /\ orders[o] \in Order
    BY <1>3 DEF SyncCommits, TypeOK
  <2>3. Kept(t) \cup Written(t, s) \in SUBSET Row
    BY <2>1, <2>2, WrittenType DEF Kept, Order
  <2>4. Assign(req[t].order.quoted, Total(t, s, FALSE), orders[o].quoted)
          \in [bill : BillSet, off : BOOLEAN]
    BY <2>1, <2>2, TotalType DEF Assign, Order
  <2>5. new \in Order
    BY <2>2, <2>3, <2>4 DEF Order
  <2>6. req' \in [Tab -> {Idle} \cup Request]
    BY <1>3, <2>1, GoOnType DEF SyncCommits
  <2>7. /\ orders' = [x \in DOMAIN orders \ req[t].extras |->
                        IF x = o THEN new ELSE orders[x]]
        /\ UNCHANGED <<issued, cookie>>
    BY <1>3 DEF SyncCommits
  <2> QED BY <2>5, <2>6, <2>7 DEF TypeOK
<1>4. CASE ApplyIdentity(t) \/ ApplyAddress(t)
  <2>1. req[t].oid \in DOMAIN orders =>
          /\ orders[req[t].oid] \in Order
          /\ [orders[req[t].oid] EXCEPT !.address = TRUE] \in Order
    BY DEF TypeOK, Order
  <2> QED BY <1>4, <2>1, UpdateType DEF ApplyIdentity, ApplyAddress
<1>5. ASSUME NEW p \in PostType, ApplyPost(t, p) PROVE TypeOK'
  <2>1. req[t] # Idle
    BY <1>5, Working DEF ApplyPost, Update
  <2> DEFINE mine == req[t].order
  <2>2. p \in Post /\ Price(mine.rows, p, FALSE) \in [bill : BillSet, off : BOOLEAN]
    BY PriceType DEF Post
  <2>3. ASSUME req[t].oid \in DOMAIN orders
        PROVE  [orders[req[t].oid] EXCEPT
                  !.post = Assign(mine.post, p, @),
                  !.quoted = Assign(mine.quoted, Price(mine.rows, p, FALSE), @)] \in Order
    <3>1. orders[req[t].oid] \in Order
      BY <2>3 DEF TypeOK
    <3>2. Assign(mine.post, p, orders[req[t].oid].post) \in Post
      BY <2>2, <3>1 DEF Assign, Order
    <3>3. Assign(mine.quoted, Price(mine.rows, p, FALSE), orders[req[t].oid].quoted)
            \in [bill : BillSet, off : BOOLEAN]
      BY <2>2, <3>1 DEF Assign, Order
    <3> QED BY <3>1, <3>2, <3>3 DEF Order
  <2> QED BY <1>5, <2>3, UpdateType DEF ApplyPost
<1>6. CASE RequestEnds(t)
  BY <1>6, LoadType DEF RequestEnds, Answer
<1>7. ASSUME NEW arrives \in BOOLEAN, PayCommits(t, arrives) PROVE TypeOK'
  <2>1. \A o \in DOMAIN orders' : orders'[o] \in Order
    BY <1>7 DEF PayCommits, TypeOK, Order
  <2>2. cookie' \in [User -> SUBSET Line]
    BY <1>7 DEF PayCommits, TypeOK
  <2> QED BY <1>7, <2>1, <2>2 DEF PayCommits, Answer, TypeOK
<1> QED BY <1>1, <1>2, <1>3, <1>4, <1>5, <1>6, <1>7 DEF Continue

\* The initial state has the right types.
LEMMA InitType == Init => TypeOK
BY BoundType DEF Init, TypeOK

\* Every step keeps the types.
LEMMA NextType == TypeOK /\ [Next]_vars => TypeOK'
<1> SUFFICES ASSUME TypeOK, [Next]_vars PROVE TypeOK'
  OBVIOUS
<1>1. ASSUME NEW u \in User, Cart(u) PROVE TypeOK'
  BY <1>1 DEF Cart, AddToCart, RemoveFromCart, TypeOK
<1>2. ASSUME NEW o \in DOMAIN orders, AdminDelete(o) PROVE TypeOK'
  <2>1. [orders[o] EXCEPT !.removed = TRUE] \in Order
    BY DEF TypeOK, Order
  <2>2. /\ orders' = [orders EXCEPT ![o] = [orders[o] EXCEPT !.removed = TRUE]]
        /\ UNCHANGED <<issued, cookie, req>>
    BY <1>2 DEF AdminDelete
  <2> QED BY <2>1, <2>2 DEF TypeOK
<1>3. CASE UNCHANGED vars
  BY <1>3 DEF vars, TypeOK
<1> QED BY <1>1, <1>2, <1>3, BeginType, ContinueType DEF Next

\* The variables of the checkout keep their types.
THEOREM TypeCorrect == Spec => []TypeOK
BY InitType, NextType, PTL DEF Spec

-----------------------------------------------------------------------------
(* PlacedComplete: the checks of pay_ordering_order outlive its last await. *)

\* What remains of the checks of the payment step until its commit.
Ready(o) == /\ orders[o].address
            /\ orders[o].post # NoPost
            /\ orders[o].rows = {} => orders[o].emptied

\* A payment under way is of an order that has all of it, if the order still
\* exists.
PayingReady ==
    \A t \in Tab : req[t].pc = "pay" /\ req[t].oid \in DOMAIN orders
                    => Ready(req[t].oid)

\* What a request is about to insert is a draft, and a page load knows no
\* discount.
InsertsDraft ==
    \A t \in Tab : req[t].pc \in {"generate", "create"} =>
        /\ req[t].order.status = "Ordering"
        /\ req[t].channel = "web" => ~req[t].order.discount

\* The id of an order to be created is new to the table and to the others.
IdsAreNew ==
    /\ DOMAIN orders \subseteq 1..issued
    /\ \A t \in Tab : req[t] # Idle => req[t].oid \in 0..issued
    /\ \A t \in Tab : req[t].pc = "create" =>
          /\ req[t].oid \notin DOMAIN orders
          /\ \A x \in Tab \ {t} : req[x] # Idle => req[x].oid # req[t].oid

PInv == TypeOK /\ PlacedComplete /\ PayingReady /\ InsertsDraft /\ IdsAreNew

\* What the first step of a request puts into its slot.
LEMMA BeginShape ==
    ASSUME TypeOK, NEW t \in Tab, NEW u \in User, Begin(t, u)
    PROVE  /\ req[t] = Idle
           /\ MayAct(u)
           /\ \A x \in Tab \ {t} : req'[x] = req[x]
           /\ UNCHANGED <<orders, issued, cookie>>
           /\ req'[t] # Idle
           /\ req'[t].user = u
           /\ \/ /\ req'[t].pc = "generate"
                 /\ req'[t].oid = 0
                 /\ req'[t].order.status = "Ordering"
                 /\ req'[t].order.owner = u
                 /\ req'[t].extras = {}
                 /\ req'[t].channel \in {"web", "api"}
                 /\ req'[t].channel = "web" => Drafts(u) = {}
                 /\ req'[t].channel = "web" => ~req'[t].order.discount
                 /\ req'[t].channel = "api" => u \in ApiUser
              \/ /\ req'[t].pc \in {"sync", "apply", "pay"}
                 /\ req'[t].oid \in Drafts(u)
                 /\ req'[t].order = orders[req'[t].oid]
                 /\ req'[t].pc = "pay" =>
                      Ready(req'[t].oid) /\ orders[req'[t].oid].rows # {}
                 /\ req'[t].extras \in {{}, Drafts(u) \ {req'[t].oid}}
                 /\ req'[t].pc = "sync" => req'[t].extras = Drafts(u) \ {req'[t].oid}
<1> USE DEF TypeOK, Load, Free, Current, Ready, Idle
<1> USE DEF InFlight
<1>1. CASE OpenDraft(t, u)
  BY <1>1 DEF OpenDraft
<1>2. CASE ReadDrafts(t, u)
  BY <1>2 DEF ReadDrafts
<1>3. CASE BeginDraft(t, u)
  BY <1>3 DEF BeginDraft, NewOrder
<1>4. CASE ReadForPayment(t, u)
  BY <1>4 DEF ReadForPayment
<1>5. CASE \E items \in SUBSET Valid, p \in PostType, off \in BOOLEAN :
            ApiCheckout(t, u, items, p, off)
  BY <1>5 DEF ApiCheckout, NewOrder
<1> QED BY <1>1, <1>2, <1>3, <1>4, <1>5 DEF Begin

\* What a commit leaves in the slot.
LEMMA GoOnShape ==
    ASSUME TypeOK, NEW t \in Tab, req[t] # Idle, NEW s \in Stamp, GoOn(t, s)
    PROVE  /\ \A x \in Tab \ {t} : req'[x] = req[x]
           /\ \/ req'[t] = Idle
              \/ /\ req[t].channel = "web"
                 /\ req'[t] # Idle /\ req'[t].pc = "apply"
                 /\ req'[t].user = req[t].user /\ req'[t].oid = req[t].oid
                 /\ req'[t].order = Flushed(t, s, FALSE)
                 /\ req'[t].extras = {}
<1>1. req[t] \in Request
  BY Flying
<1>2. req'[t] = NextStage(t, s) /\ \A x \in Tab \ {t} : req'[x] = req[x]
  BY DEF GoOn, TypeOK
<1> HIDE DEF Flushed
<1>3. CASE req[t].channel = "api" \/ Written(t, s) = {}
  BY <1>2, <1>3 DEF NextStage
<1>4. CASE ~(req[t].channel = "api" \/ Written(t, s) = {})
  BY <1>1, <1>2, <1>4 DEF NextStage, Request, Session, Idle
<1> QED BY <1>2, <1>3, <1>4

\* What giving out a code changes.
LEMMA CodeShape ==
    ASSUME TypeOK, NEW t \in Tab, GenerateCode(t)
    PROVE  /\ req[t] # Idle /\ req'[t] # Idle
           /\ \A x \in Tab \ {t} : req'[x] = req[x]
           /\ issued' = issued + 1
           /\ UNCHANGED <<orders, cookie>>
           /\ req'[t].pc = "create" /\ req'[t].oid = issued + 1
           /\ req'[t].user = req[t].user /\ req'[t].items = req[t].items
           /\ req'[t].extras = req[t].extras /\ req'[t].channel = req[t].channel
           /\ \E c \in Nat : req'[t].order = [req[t].order EXCEPT !.code = c]
<1>1. req[t] # Idle
  BY Working DEF GenerateCode
<1>2. PICK c \in Codes \cup {1000} :
          /\ \A d \in Codes : d <= c
          /\ req' = [req EXCEPT ![t] = WithCode(req[t], issued + 1, c + 1)]
  BY DEF GenerateCode
<1>3. c + 1 \in Nat
  BY DEF Codes, TypeOK, Order
<1>4. req[t] \in Session({"generate"}, {0})
  BY <1>1, Flying DEF GenerateCode, Request, Session
<1>5. /\ req'[t] = WithCode(req[t], issued + 1, c + 1)
      /\ \A x \in Tab \ {t} : req'[x] = req[x]
  BY <1>2 DEF TypeOK
<1>6. issued' = issued + 1 /\ UNCHANGED <<orders, cookie>>
  BY DEF GenerateCode
<1>7. /\ req'[t].pc = "create" /\ req'[t].oid = issued + 1
      /\ req'[t].user = req[t].user /\ req'[t].items = req[t].items
      /\ req'[t].extras = req[t].extras /\ req'[t].channel = req[t].channel
      /\ req'[t].order = [req[t].order EXCEPT !.code = c + 1]
  BY <1>4, <1>5 DEF WithCode, Session
<1> QED BY <1>1, <1>3, <1>5, <1>6, <1>7 DEF Idle

\* A step that ends a request.
LEMMA AnswerShape ==
    ASSUME TypeOK, NEW t \in Tab, Answer(t)
    PROVE  /\ req'[t] = Idle
           /\ \A x \in Tab \ {t} : req'[x] = req[x]
BY DEF Answer, TypeOK

\* What every step after the first does to the slots.
LEMMA ContinueShape ==
    ASSUME TypeOK, NEW t \in Tab, Continue(t), ~GenerateCode(t)
    PROVE  /\ req[t] # Idle
           /\ issued' = issued
           /\ \A x \in Tab \ {t} : req'[x] = req[x]
           /\ \/ req'[t] = Idle
              \/ /\ req'[t] # Idle /\ req'[t].pc = "apply"
                 /\ req'[t].user = req[t].user /\ req'[t].oid = req[t].oid
<1>1. ASSUME NEW s \in Stamp, CreateCommits(t, s) \/ SyncCommits(t, s)
      PROVE  req[t] # Idle /\ issued' = issued /\ GoOn(t, s)
  BY <1>1, Working DEF CreateCommits, SyncCommits
<1>2. ASSUME NEW new, Update(t, new)
      PROVE  req[t] # Idle /\ issued' = issued /\ Answer(t)
  BY <1>2, Working DEF Update
<1>3. ASSUME RequestEnds(t) \/ \E arrives \in BOOLEAN : PayCommits(t, arrives)
      PROVE  req[t] # Idle /\ issued' = issued /\ Answer(t)
  BY <1>3, Working DEF RequestEnds, InFlight, PayCommits
<1>4. CASE \E s \in Stamp : CreateCommits(t, s) \/ SyncCommits(t, s)
  BY <1>1, <1>4, GoOnShape
<1>5. CASE \/ ApplyIdentity(t) \/ ApplyAddress(t)
           \/ \E p \in PostType : ApplyPost(t, p)
  BY <1>2, <1>5, AnswerShape DEF ApplyIdentity, ApplyAddress, ApplyPost
<1>6. CASE RequestEnds(t) \/ \E arrives \in BOOLEAN : PayCommits(t, arrives)
  BY <1>3, <1>6, AnswerShape
<1> QED BY <1>4, <1>5, <1>6 DEF Continue

\* What the commits do to the table.
LEMMA TableShape ==
    ASSUME TypeOK, NEW t \in Tab, Continue(t)
    PROVE  DOMAIN orders' \subseteq
             DOMAIN orders \cup (IF req[t].pc = "create" THEN {req[t].oid} ELSE {})
BY DEF Continue, GenerateCode, CreateCommits, SyncCommits, ApplyIdentity,
       ApplyAddress, ApplyPost, Update, RequestEnds, PayCommits

\* Ids stay new until they are used.
LEMMA NextIds == TypeOK /\ IdsAreNew /\ [Next]_vars => IdsAreNew'
<1> SUFFICES ASSUME TypeOK, IdsAreNew, [Next]_vars PROVE IdsAreNew'
  OBVIOUS
<1> USE DEF IdsAreNew
<1>i. issued \in Nat
  BY BoundType DEF TypeOK
<1>0. Idle.pc = "idle"
  BY DEF Idle
<1>1. CASE \E u \in User : Cart(u)
  BY <1>1 DEF Cart, AddToCart, RemoveFromCart
<1>2. CASE \E o \in DOMAIN orders : AdminDelete(o)
  <2>1. DOMAIN orders' = DOMAIN orders /\ UNCHANGED <<issued, req>>
    BY <1>2 DEF AdminDelete
  <2> QED BY <2>1
<1>3. CASE UNCHANGED vars
  BY <1>3 DEF vars
<1>4. ASSUME NEW t \in Tab, NEW u \in User, Begin(t, u) PROVE IdsAreNew'
  <2>1. UNCHANGED <<orders, issued, cookie>> /\ \A x \in Tab \ {t} : req'[x] = req[x]
    BY <1>4, BeginShape
  <2>2. req'[t] # Idle /\ req'[t].pc # "create" /\ req'[t].oid \in {0} \cup DOMAIN orders
    BY <1>4, BeginShape DEF Drafts
  <2>3. req'[t].oid \in 0..issued
    BY <2>2, <1>i
  <2>4. \A x \in Tab \ {t} : req[x].pc = "create" =>
          req[x].oid \notin DOMAIN orders /\ req[x].oid # 0
    BY Working, Flying DEF OrderId
  <2> QED BY <2>1, <2>2, <2>3, <2>4
<1>5. ASSUME NEW t \in Tab, GenerateCode(t) PROVE IdsAreNew'
  <2>1. /\ req[t] # Idle /\ req'[t] # Idle
        /\ UNCHANGED <<orders, cookie>> /\ issued' = issued + 1
        /\ \A x \in Tab \ {t} : req'[x] = req[x]
        /\ req'[t].oid = issued + 1
    BY <1>5, CodeShape
  <2> QED BY <2>1, <1>i, Working
<1>6. ASSUME NEW t \in Tab, Continue(t), ~GenerateCode(t) PROVE IdsAreNew'
  <2>1. /\ req[t] # Idle /\ issued' = issued
        /\ \A x \in Tab \ {t} : req'[x] = req[x]
        /\ \/ req'[t] = Idle
           \/ req'[t] # Idle /\ req'[t].pc = "apply" /\ req'[t].oid = req[t].oid
    BY <1>6, ContinueShape
  <2>2. DOMAIN orders' \subseteq
          DOMAIN orders \cup (IF req[t].pc = "create" THEN {req[t].oid} ELSE {})
    BY <1>6, TableShape
  <2>3. req[t].pc = "create" => req[t].oid \in 1..issued
    BY <2>1, <1>i, Flying DEF OrderId
  <2>4. \A x \in Tab \ {t} : req[x].pc = "create" => req[x] # Idle
    BY Working
  <2> QED BY <1>0, <2>1, <2>2, <2>3, <2>4
<1> QED BY <1>1, <1>2, <1>3, <1>4, <1>5, <1>6 DEF Next

\* What is about to be inserted stays a draft.
LEMMA NextInserts == TypeOK /\ InsertsDraft /\ [Next]_vars => InsertsDraft'
<1> SUFFICES ASSUME TypeOK, InsertsDraft, [Next]_vars PROVE InsertsDraft'
  OBVIOUS
<1> USE DEF InsertsDraft
<1>0. Idle.pc = "idle"
  BY DEF Idle
<1>1. CASE UNCHANGED req
  BY <1>1
<1>2. ASSUME NEW t \in Tab, NEW u \in User, Begin(t, u) PROVE InsertsDraft'
  BY <1>2, BeginShape
<1>3. ASSUME NEW t \in Tab, GenerateCode(t) PROVE InsertsDraft'
  <2>1. /\ req[t] # Idle /\ req'[t].channel = req[t].channel
        /\ \A x \in Tab \ {t} : req'[x] = req[x]
    BY <1>3, CodeShape
  <2>2. PICK c \in Nat : req'[t].order = [req[t].order EXCEPT !.code = c]
    BY <1>3, CodeShape
  <2>3. /\ req'[t].order.status = req[t].order.status
        /\ req'[t].order.discount = req[t].order.discount
    BY <2>1, <2>2, Flying DEF Order
  <2> QED BY <1>3, <2>1, <2>3 DEF GenerateCode
<1>4. ASSUME NEW t \in Tab, Continue(t), ~GenerateCode(t) PROVE InsertsDraft'
  BY <1>0, <1>4, ContinueShape
<1> QED BY <1>1, <1>2, <1>3, <1>4
        DEF Next, Cart, AddToCart, RemoveFromCart, AdminDelete, vars

\* An order that is ready to be paid stays so as long as it exists, and an
\* order only becomes a placed one in a payment step of its own.
LEMMA ReadyStable ==
    ASSUME TypeOK, InsertsDraft, IdsAreNew, [Next]_vars,
           NEW o \in DOMAIN orders, o \in DOMAIN orders'
    PROVE  /\ Ready(o) => Ready(o)'
           /\ \/ orders'[o].status = orders[o].status
              \/ \E t \in Tab : req[t].pc = "pay" /\ req[t].oid = o
<1> USE DEF Ready
<1>o. orders[o] \in Order
  BY DEF TypeOK
<1>1. CASE UNCHANGED orders
  BY <1>1
<1>2. CASE \E x \in DOMAIN orders : AdminDelete(x)
  BY <1>2, <1>o DEF AdminDelete, Order
<1>3. ASSUME NEW t \in Tab, NEW s \in Stamp, CreateCommits(t, s)
      PROVE  orders'[o] = orders[o]
  BY <1>3 DEF CreateCommits, IdsAreNew
<1>4. ASSUME NEW t \in Tab, NEW s \in Stamp, SyncCommits(t, s)
      PROVE  (Ready(o) => Ready(o)') /\ orders'[o].status = orders[o].status
  <2>1. CASE o # req[t].oid
    BY <1>4, <2>1 DEF SyncCommits
  <2>2. CASE o = req[t].oid
    <3> DEFINE rows == Kept(t) \cup Written(t, s)
               quoted == Assign(req[t].order.quoted, Total(t, s, FALSE), orders[o].quoted)
    <3>1. orders'[o] = [orders[o] EXCEPT !.rows = rows, !.quoted = quoted,
                                         !.emptied = (rows = {})]
      BY <1>4, <2>2 DEF SyncCommits
    <3> HIDE DEF rows, quoted
    <3>2. /\ orders'[o].status = orders[o].status
          /\ orders'[o].address = orders[o].address
          /\ orders'[o].post = orders[o].post
          /\ orders'[o].rows = {} => orders'[o].emptied
      BY <3>1, <1>o DEF Order
    <3> QED BY <3>2
  <2> QED BY <2>1, <2>2
<1>5. ASSUME NEW t \in Tab, ApplyIdentity(t) \/ ApplyAddress(t)
      PROVE  (Ready(o) => Ready(o)') /\ orders'[o].status = orders[o].status
  BY <1>5, <1>o DEF ApplyIdentity, ApplyAddress, Update, Order
<1>6. ASSUME NEW t \in Tab, NEW p \in PostType, ApplyPost(t, p)
      PROVE  (Ready(o) => Ready(o)') /\ orders'[o].status = orders[o].status
  <2>1. p # NoPost
    BY DeliveryType
  <2> QED BY <1>6, <1>o, <2>1 DEF ApplyPost, Update, Assign, Order
<1>7. ASSUME NEW t \in Tab, NEW arrives \in BOOLEAN, PayCommits(t, arrives)
      PROVE  /\ Ready(o) => Ready(o)'
             /\ \/ orders'[o].status = orders[o].status
                \/ req[t].pc = "pay" /\ req[t].oid = o
  BY <1>7, <1>o DEF PayCommits, Order
<1>8. ASSUME NEW t \in Tab, Continue(t)
      PROVE  /\ Ready(o) => Ready(o)'
             /\ \/ orders'[o].status = orders[o].status
                \/ req[t].pc = "pay" /\ req[t].oid = o
  BY <1>1, <1>3, <1>4, <1>5, <1>6, <1>7, <1>8
     DEF Continue, GenerateCode, RequestEnds
<1>9. ASSUME NEW t \in Tab, NEW u \in User, Begin(t, u) PROVE UNCHANGED orders
  BY <1>9, BeginShape
<1> QED BY <1>1, <1>2, <1>8, <1>9
        DEF Next, Cart, AddToCart, RemoveFromCart, vars

\* The payment's precondition survives until its commit, and makes the order
\* complete.
LEMMA NextReady ==
    PInv /\ [Next]_vars => PlacedComplete' /\ PayingReady'
<1> SUFFICES ASSUME PInv, [Next]_vars PROVE PlacedComplete' /\ PayingReady'
  OBVIOUS
<1> USE DEF PInv
<1>0. Idle.pc = "idle"
  BY DEF Idle
<1>1. \A o \in DOMAIN orders : o \in DOMAIN orders' /\ Ready(o) => Ready(o)'
  BY ReadyStable
<1>2. \A o \in DOMAIN orders : o \in DOMAIN orders' /\ Placed(o)' => Ready(o)'
  BY <1>1, ReadyStable DEF Placed, PlacedComplete, PayingReady, Ready
<1>3. CASE UNCHANGED req /\ DOMAIN orders' = DOMAIN orders
  BY <1>1, <1>2, <1>3 DEF PlacedComplete, PayingReady, Ready
<1>4. ASSUME NEW t \in Tab, NEW u \in User, Begin(t, u)
      PROVE  PlacedComplete' /\ PayingReady'
  <2>1. UNCHANGED orders /\ \A x \in Tab \ {t} : req'[x] = req[x]
    BY <1>4, BeginShape
  <2>2. req'[t].pc = "pay" => Ready(req'[t].oid)
    BY <1>4, BeginShape
  <2> QED BY <2>1, <2>2 DEF PlacedComplete, PayingReady, Placed, Ready
<1>5. ASSUME NEW t \in Tab, GenerateCode(t) PROVE PlacedComplete' /\ PayingReady'
  BY <1>5, CodeShape DEF PlacedComplete, PayingReady, Placed, Ready
<1>6. ASSUME NEW t \in Tab, Continue(t), ~GenerateCode(t)
      PROVE  PlacedComplete' /\ PayingReady'
  <2>1. /\ \A x \in Tab \ {t} : req'[x] = req[x]
        /\ req'[t].pc # "pay"
        /\ req[t] # Idle
    BY <1>0, <1>6, ContinueShape
  <2>2. DOMAIN orders' \subseteq
          DOMAIN orders \cup (IF req[t].pc = "create" THEN {req[t].oid} ELSE {})
    BY <1>6, TableShape
  <2>3. \A x \in Tab \ {t} : req[x].pc = "pay" /\ req[x].oid \in DOMAIN orders'
          => req[x].oid \in DOMAIN orders
    BY <2>2, Working DEF IdsAreNew
  <2>4. PayingReady'
    BY <1>1, <2>1, <2>3 DEF PayingReady, Ready
  <2>5. ASSUME NEW o \in DOMAIN orders', o \notin DOMAIN orders PROVE ~Placed(o)'
    <3>1. PICK s \in Stamp : CreateCommits(t, s)
      BY <1>6, <2>5
         DEF Continue, SyncCommits, ApplyIdentity, ApplyAddress, ApplyPost,
             Update, RequestEnds, PayCommits
    <3>2. /\ orders'[o] = Flushed(t, s, req[t].order.discount)
          /\ req[t].order \in Order
          /\ req[t].order.status = "Ordering"
      BY <3>1, <2>1, <2>5, Flying DEF CreateCommits, InsertsDraft
    <3> QED BY <3>2 DEF Placed, Flushed, Order
  <2> QED BY <1>2, <2>4, <2>5 DEF PlacedComplete, Ready
<1> QED BY <1>3, <1>4, <1>5, <1>6
        DEF Next, Cart, AddToCart, RemoveFromCart, AdminDelete, vars

\* The initial state satisfies the invariant.
LEMMA InitPInv == Init => PInv
BY InitType DEF Init, PInv, PlacedComplete, PayingReady, InsertsDraft, IdsAreNew, Idle

\* However the requests of a customer overlap, an order that awaits payment
\* has an address and a delivery, and goods unless a cart without a valid line
\* was synchronised into it.
THEOREM PlacedCompleteHolds == Spec => []PlacedComplete
<1>1. PInv /\ [Next]_vars => PInv'
  BY NextType, NextReady, NextInserts, NextIds DEF PInv
<1>2. PInv => PlacedComplete
  BY DEF PInv
<1> QED BY <1>1, <1>2, InitPInv, PTL DEF Spec

-----------------------------------------------------------------------------
(* One request of a customer at a time.                                    *)

\* No two requests of the same customer are in flight.
OneByOne ==
    \A t, x \in Tab : req[t] # Idle /\ req[x] # Idle /\ t # x
                       => req[t].user # req[x].user

\* A session that works on a stored order sees it as it is stored.
UpToDate ==
    \A t \in Tab : req[t].pc \in {"sync", "apply", "pay"} =>
        /\ req[t].oid \in DOMAIN orders
        /\ orders[req[t].oid].owner = req[t].user
        /\ orders[req[t].oid].status = "Ordering"
        /\ orders[req[t].oid].rows = req[t].order.rows
        /\ orders[req[t].oid].post = req[t].order.post
        /\ orders[req[t].oid].quoted = req[t].order.quoted
        /\ req[t].pc = "pay" => orders[req[t].oid].rows # {}

\* The leftover drafts a session has read are still drafts of its customer.
LeftoversAreDrafts ==
    \A t \in Tab : req[t] # Idle => \A e \in req[t].extras :
        /\ e \in DOMAIN orders /\ e # req[t].oid
        /\ orders[e].owner = req[t].user
        /\ orders[e].status = "Ordering"

\* An order about to be created belongs to the customer, who has no draft
\* unless the API is at work.
BeginsAlone ==
    \A t \in Tab : req[t].pc \in {"generate", "create"} =>
        /\ req[t].order.owner = req[t].user
        /\ \A u \in User \ ApiUser : u = req[t].user => Drafts(u) = {}

\* A session that consolidates has seen every draft of its customer.
SeesAllDrafts ==
    \A t \in Tab, u \in User : req[t].pc = "sync" /\ req[t].user = u
        => Drafts(u) \subseteq {req[t].oid} \cup req[t].extras

SInv == /\ PInv /\ OneByOne /\ UpToDate /\ LeftoversAreDrafts /\ BeginsAlone
        /\ SeesAllDrafts
        /\ PayableMatchesLines /\ OneDraftEach

\* A request changes no order of another customer.
LEMMA OthersUntouched ==
    ASSUME SInv, NEW t \in Tab, Continue(t),
           NEW o \in DOMAIN orders, orders[o].owner # req[t].user
    PROVE  o \in DOMAIN orders' /\ orders'[o] = orders[o]
<1>t. TypeOK
  BY DEF SInv, PInv
<1>1. ASSUME NEW s \in Stamp, CreateCommits(t, s)
      PROVE  o \in DOMAIN orders' /\ orders'[o] = orders[o]
  BY <1>1 DEF CreateCommits, SInv, PInv, IdsAreNew
<1>2. ASSUME NEW s \in Stamp, SyncCommits(t, s)
      PROVE  o \in DOMAIN orders' /\ orders'[o] = orders[o]
  <2>1. o # req[t].oid
    BY <1>2 DEF SyncCommits, SInv, UpToDate
  <2>2. o \notin req[t].extras
    BY <1>2, Working DEF SyncCommits, SInv, LeftoversAreDrafts
  <2> QED BY <1>2, <2>1, <2>2 DEF SyncCommits
<1>3. ASSUME NEW new, Update(t, new)
      PROVE  o \in DOMAIN orders' /\ orders'[o] = orders[o]
  BY <1>3 DEF Update, SInv, UpToDate
<1>4. ASSUME NEW arrives \in BOOLEAN, PayCommits(t, arrives)
      PROVE  o \in DOMAIN orders' /\ orders'[o] = orders[o]
  BY <1>4 DEF PayCommits, SInv, UpToDate
<1> QED BY <1>1, <1>2, <1>3, <1>4
        DEF Continue, GenerateCode, RequestEnds, ApplyIdentity, ApplyAddress, ApplyPost

\* A commit of the session's rows leaves exactly them, at their price.
LEMMA SyncExact ==
    ASSUME SInv, NEW t \in Tab, NEW s \in Stamp, SyncCommits(t, s)
    PROVE  /\ req[t].oid \in DOMAIN orders'
           /\ orders'[req[t].oid] =
                [orders[req[t].oid] EXCEPT !.rows = Written(t, s),
                                           !.quoted = Total(t, s, FALSE),
                                           !.emptied = (Written(t, s) = {})]
           /\ Total(t, s, FALSE) =
                Price(Written(t, s), orders[req[t].oid].post, FALSE)
<1>1. /\ orders[req[t].oid].rows = req[t].order.rows
      /\ orders[req[t].oid].post = req[t].order.post
      /\ orders[req[t].oid].quoted = req[t].order.quoted
      /\ req[t].oid \in DOMAIN orders
  BY DEF SyncCommits, SInv, UpToDate
<1>2. req[t].oid \notin req[t].extras
  BY Working DEF SyncCommits, SInv, LeftoversAreDrafts
<1>3. Kept(t) = {}
  BY <1>1 DEF Kept
<1>4. Assign(req[t].order.quoted, Total(t, s, FALSE), orders[req[t].oid].quoted)
        = Total(t, s, FALSE)
  BY <1>1 DEF Assign
<1>5. orders'[req[t].oid] =
        [orders[req[t].oid] EXCEPT
           !.rows = Kept(t) \cup Written(t, s),
           !.quoted = Assign(req[t].order.quoted, Total(t, s, FALSE), @),
           !.emptied = (Kept(t) \cup Written(t, s) = {})]
  BY <1>1, <1>2 DEF SyncCommits
<1>6. req[t].oid \in DOMAIN orders'
  BY <1>1, <1>2 DEF SyncCommits
<1> QED BY <1>1, <1>3, <1>4, <1>5, <1>6 DEF Total

\* Setting the delivery reprices the order.
LEMMA PostExact ==
    ASSUME SInv, NEW t \in Tab, NEW p \in PostType, ApplyPost(t, p)
    PROVE  /\ DOMAIN orders' = DOMAIN orders
           /\ orders'[req[t].oid] =
                [orders[req[t].oid] EXCEPT
                   !.post = p, !.quoted = Price(orders[req[t].oid].rows, p, FALSE)]
<1> DEFINE mine == req[t].order
<1>1. /\ orders[req[t].oid].rows = mine.rows
      /\ orders[req[t].oid].post = mine.post
      /\ orders[req[t].oid].quoted = mine.quoted
      /\ req[t].oid \in DOMAIN orders
  BY DEF ApplyPost, Update, SInv, UpToDate
<1>2. /\ Assign(mine.post, p, orders[req[t].oid].post) = p
      /\ Assign(mine.quoted, Price(mine.rows, p, FALSE), orders[req[t].oid].quoted)
           = Price(mine.rows, p, FALSE)
  BY <1>1 DEF Assign
<1>3. orders'[req[t].oid] =
        [orders[req[t].oid] EXCEPT
           !.post = Assign(mine.post, p, @),
           !.quoted = Assign(mine.quoted, Price(mine.rows, p, FALSE), @)]
  BY <1>1 DEF ApplyPost, Update
<1> QED BY <1>1, <1>2, <1>3 DEF ApplyPost, Update

\* Staff only hide an order.
LEMMA AdminShape ==
    ASSUME TypeOK, NEW d \in DOMAIN orders, AdminDelete(d)
    PROVE  /\ DOMAIN orders' = DOMAIN orders
           /\ UNCHANGED <<issued, cookie, req>>
           /\ \A o \in DOMAIN orders :
                 /\ orders'[o].owner = orders[o].owner
                 /\ orders'[o].status = orders[o].status
                 /\ orders'[o].rows = orders[o].rows
                 /\ orders'[o].post = orders[o].post
                 /\ orders'[o].quoted = orders[o].quoted
                 /\ orders'[o].discount = orders[o].discount
           /\ \A u \in User : Drafts(u)' \subseteq Drafts(u)
<1>1. \A o \in DOMAIN orders : orders[o] \in Order
  BY DEF TypeOK
<1>2. /\ DOMAIN orders' = DOMAIN orders
      /\ UNCHANGED <<issued, cookie, req>>
      /\ \A o \in DOMAIN orders :
            orders'[o] = IF o = d THEN [orders[o] EXCEPT !.removed = TRUE] ELSE orders[o]
  BY DEF AdminDelete
<1>3. \A o \in DOMAIN orders :
         /\ orders'[o].owner = orders[o].owner
         /\ orders'[o].status = orders[o].status
         /\ orders'[o].rows = orders[o].rows
         /\ orders'[o].post = orders[o].post
         /\ orders'[o].quoted = orders[o].quoted
         /\ orders'[o].discount = orders[o].discount
         /\ orders[o].removed => orders'[o].removed
  BY <1>1, <1>2 DEF Order
<1>4. \A u \in User : Drafts(u)' \subseteq Drafts(u)
  BY <1>2, <1>3 DEF Drafts
<1> QED BY <1>2, <1>3, <1>4

\* The shop stays one request at a time.
LEMMA NextOneByOne == ASSUME ~Overlap PROVE SInv /\ [Next]_vars => OneByOne'
<1> SUFFICES ASSUME SInv, [Next]_vars PROVE OneByOne'
  OBVIOUS
<1>t. TypeOK
  BY DEF SInv, PInv
<1> USE DEF SInv, OneByOne
<1>1. CASE UNCHANGED req
  BY <1>1
<1>2. ASSUME NEW t \in Tab, NEW u \in User, Begin(t, u) PROVE OneByOne'
  BY <1>2, <1>t, BeginShape DEF MayAct, InFlight
<1>3. ASSUME NEW t \in Tab, GenerateCode(t) PROVE OneByOne'
  BY <1>3, <1>t, CodeShape
<1>4. ASSUME NEW t \in Tab, Continue(t), ~GenerateCode(t) PROVE OneByOne'
  BY <1>4, <1>t, ContinueShape
<1> QED BY <1>1, <1>2, <1>3, <1>4
        DEF Next, Cart, AddToCart, RemoveFromCart, AdminDelete, vars

\* Sessions stay up to date.
LEMMA NextUpToDate == SInv /\ [Next]_vars => UpToDate'
<1> SUFFICES ASSUME SInv, [Next]_vars PROVE UpToDate'
  OBVIOUS
<1>t. TypeOK
  BY DEF SInv, PInv
<1>0. Idle.pc = "idle"
  BY DEF Idle
<1>u. UpToDate
  BY DEF SInv
<1>1. CASE UNCHANGED <<req, orders>>
  BY <1>1, <1>u DEF UpToDate
<1>2. ASSUME NEW d \in DOMAIN orders, AdminDelete(d) PROVE UpToDate'
  BY <1>2, <1>t, <1>u, AdminShape DEF UpToDate
<1>3. ASSUME NEW t \in Tab, NEW u \in User, Begin(t, u) PROVE UpToDate'
  <2>1. UNCHANGED orders /\ \A x \in Tab \ {t} : req'[x] = req[x]
    BY <1>3, <1>t, BeginShape
  <2>2. req'[t].pc \in {"sync", "apply", "pay"} =>
          /\ req'[t].oid \in Drafts(u) /\ req'[t].user = u
          /\ req'[t].order = orders[req'[t].oid]
          /\ req'[t].pc = "pay" => orders[req'[t].oid].rows # {}
    BY <1>3, <1>t, BeginShape
  <2> QED BY <2>1, <2>2, <1>u DEF UpToDate, Drafts
<1>4. ASSUME NEW t \in Tab, GenerateCode(t) PROVE UpToDate'
  BY <1>4, <1>t, <1>u, CodeShape DEF UpToDate
<1>5. ASSUME NEW t \in Tab, Continue(t), ~GenerateCode(t) PROVE UpToDate'
  <2>1. /\ req[t] # Idle /\ \A x \in Tab \ {t} : req'[x] = req[x]
        /\ \/ req'[t] = Idle
           \/ /\ req'[t].pc = "apply"
              /\ req'[t].user = req[t].user /\ req'[t].oid = req[t].oid
    BY <1>5, <1>t, ContinueShape
  <2>2. ASSUME NEW x \in Tab \ {t}, req[x].pc \in {"sync", "apply", "pay"}
        PROVE  /\ req[x].oid \in DOMAIN orders'
               /\ orders'[req[x].oid] = orders[req[x].oid]
    <3>1. req[x].oid \in DOMAIN orders /\ orders[req[x].oid].owner = req[x].user
      BY <2>2, <1>u DEF UpToDate
    <3>2. req[x].user # req[t].user
      BY <2>1, <2>2, Working DEF SInv, OneByOne
    <3> QED BY <3>1, <3>2, <1>5, OthersUntouched
  <2>3. ASSUME req'[t].pc = "apply"
        PROVE  /\ req[t].oid \in DOMAIN orders'
               /\ orders'[req[t].oid].owner = req[t].user
               /\ orders'[req[t].oid].status = "Ordering"
               /\ orders'[req[t].oid].rows = req'[t].order.rows
               /\ orders'[req[t].oid].post = req'[t].order.post
               /\ orders'[req[t].oid].quoted = req'[t].order.quoted
    <3>1. PICK s \in Stamp : CreateCommits(t, s) \/ SyncCommits(t, s)
      BY <1>0, <1>5, <1>t, <2>3, AnswerShape
         DEF Continue, ApplyIdentity, ApplyAddress, ApplyPost, Update,
             RequestEnds, PayCommits
    <3>2. req'[t].order = Flushed(t, s, FALSE) /\ req[t].channel = "web"
      BY <1>0, <1>t, <2>1, <2>3, <3>1, GoOnShape DEF CreateCommits, SyncCommits
    <3>3. req[t].order \in Order
      BY <1>t, <2>1, Flying
    <3>4. CASE CreateCommits(t, s)
      <4>2. /\ req[t].order.owner = req[t].user /\ req[t].order.status = "Ordering"
            /\ ~req[t].order.discount
        BY <3>2, <3>4 DEF CreateCommits, SInv, PInv, BeginsAlone, InsertsDraft
      <4>3. req[t].order.discount = FALSE
        BY <3>3, <4>2 DEF Order
      <4>1. /\ orders'[req[t].oid] = Flushed(t, s, FALSE)
            /\ req[t].oid \in DOMAIN orders'
        BY <3>4, <4>3 DEF CreateCommits
      <4> QED BY <3>2, <3>3, <4>1, <4>2 DEF Flushed, Order
    <3>5. CASE SyncCommits(t, s)
      <4>1. /\ req[t].oid \in DOMAIN orders'
            /\ orders'[req[t].oid] =
                 [orders[req[t].oid] EXCEPT !.rows = Written(t, s),
                                            !.quoted = Total(t, s, FALSE),
                                            !.emptied = (Written(t, s) = {})]
        BY <3>5, SyncExact
      <4>2. /\ orders[req[t].oid].owner = req[t].user
            /\ orders[req[t].oid].status = "Ordering"
            /\ orders[req[t].oid].post = req[t].order.post
            /\ orders[req[t].oid] \in Order
        BY <3>5, <1>u, <1>t DEF SyncCommits, UpToDate, TypeOK
      <4> QED BY <3>2, <3>3, <4>1, <4>2 DEF Flushed, Order
    <3> QED BY <3>1, <3>4, <3>5
  <2> QED BY <1>0, <1>u, <2>1, <2>2, <2>3 DEF UpToDate
<1> QED BY <1>1, <1>2, <1>3, <1>4, <1>5
        DEF Next, Cart, AddToCart, RemoveFromCart, vars

\* Leftover drafts stay leftover drafts until they are deleted.
LEMMA NextLeftovers == SInv /\ [Next]_vars => LeftoversAreDrafts'
<1> SUFFICES ASSUME SInv, [Next]_vars PROVE LeftoversAreDrafts'
  OBVIOUS
<1>t. TypeOK
  BY DEF SInv, PInv
<1>u. LeftoversAreDrafts
  BY DEF SInv
<1>1. CASE UNCHANGED <<req, orders>>
  BY <1>1, <1>u DEF LeftoversAreDrafts
<1>2. ASSUME NEW d \in DOMAIN orders, AdminDelete(d) PROVE LeftoversAreDrafts'
  BY <1>2, <1>t, <1>u, AdminShape DEF LeftoversAreDrafts
<1>3. ASSUME NEW t \in Tab, NEW u \in User, Begin(t, u) PROVE LeftoversAreDrafts'
  <2>1. UNCHANGED orders /\ \A x \in Tab \ {t} : req'[x] = req[x]
    BY <1>3, <1>t, BeginShape
  <2>2. req'[t].user = u /\ req'[t].extras \in {{}, Drafts(u) \ {req'[t].oid}}
    BY <1>3, <1>t, BeginShape
  <2> QED BY <2>1, <2>2, <1>u DEF LeftoversAreDrafts, Drafts
<1>4. ASSUME NEW t \in Tab, GenerateCode(t) PROVE LeftoversAreDrafts'
  <2>1. /\ req[t] # Idle /\ UNCHANGED orders
        /\ \A x \in Tab \ {t} : req'[x] = req[x]
        /\ req'[t].extras = req[t].extras /\ req'[t].user = req[t].user
        /\ req'[t].oid = issued + 1
    BY <1>4, <1>t, CodeShape
  <2>2. issued + 1 \notin DOMAIN orders
    BY <1>t, BoundType DEF SInv, PInv, IdsAreNew, TypeOK
  <2> QED BY <2>1, <2>2, <1>u DEF LeftoversAreDrafts
<1>5. ASSUME NEW t \in Tab, Continue(t), ~GenerateCode(t) PROVE LeftoversAreDrafts'
  <2>1. /\ req[t] # Idle /\ \A x \in Tab \ {t} : req'[x] = req[x]
    BY <1>5, <1>t, ContinueShape
  <2>2. req'[t] # Idle => req'[t].extras = {}
    BY <1>5, <1>t, <2>1, GoOnShape, AnswerShape
       DEF Continue, CreateCommits, SyncCommits, ApplyIdentity, ApplyAddress,
           ApplyPost, Update, RequestEnds, PayCommits
  <2>3. ASSUME NEW x \in Tab \ {t}, req[x] # Idle, NEW e \in req[x].extras
        PROVE  e \in DOMAIN orders' /\ orders'[e] = orders[e]
    <3>1. req[x].user # req[t].user
      BY <2>1, <2>3 DEF SInv, OneByOne
    <3> QED BY <3>1, <2>3, <1>5, <1>u, OthersUntouched DEF LeftoversAreDrafts
  <2> QED BY <2>1, <2>2, <2>3, <1>u DEF LeftoversAreDrafts
<1> QED BY <1>1, <1>2, <1>3, <1>4, <1>5
        DEF Next, Cart, AddToCart, RemoveFromCart, vars

\* A request adds no draft but the one it creates, and that to its customer.
LEMMA DraftsShrink ==
    ASSUME SInv, NEW t \in Tab, Continue(t), NEW u \in User
    PROVE  Drafts(u)' \subseteq
             Drafts(u) \cup (IF req[t].pc = "create" /\ u = req[t].user
                            THEN {req[t].oid} ELSE {})
<1>t. TypeOK
  BY DEF SInv, PInv
<1>1. ASSUME NEW o \in DOMAIN orders', o \in DOMAIN orders
      PROVE  /\ orders'[o].owner = orders[o].owner
             /\ orders'[o].status = "Ordering" => orders[o].status = "Ordering"
             /\ orders'[o].removed = orders[o].removed
  <2>o. orders[o] \in Order
    BY <1>1, <1>t DEF TypeOK
  <2>1. CASE UNCHANGED orders
    BY <2>1
  <2>2. ASSUME NEW s \in Stamp, CreateCommits(t, s) PROVE orders'[o] = orders[o]
    BY <1>1, <2>2 DEF CreateCommits, SInv, PInv, IdsAreNew
  <2>3. ASSUME NEW s \in Stamp, SyncCommits(t, s)
        PROVE  /\ orders'[o].owner = orders[o].owner
               /\ orders'[o].status = orders[o].status
               /\ orders'[o].removed = orders[o].removed
    <3>1. CASE o = req[t].oid
      <4>1. orders'[o] = [orders[o] EXCEPT !.rows = Written(t, s),
                                           !.quoted = Total(t, s, FALSE),
                                           !.emptied = (Written(t, s) = {})]
        BY <2>3, <3>1, SyncExact
      <4> QED BY <4>1, <2>o DEF Order
    <3>2. CASE o # req[t].oid
      BY <1>1, <2>3, <3>2 DEF SyncCommits
    <3> QED BY <3>1, <3>2
  <2>4. CASE ApplyIdentity(t) \/ ApplyAddress(t)
    BY <1>1, <2>4, <2>o DEF ApplyIdentity, ApplyAddress, Update, Order
  <2>5. CASE \E p \in PostType : ApplyPost(t, p)
    BY <1>1, <2>5, <2>o DEF ApplyPost, Update, Order
  <2>6. CASE \E arrives \in BOOLEAN : PayCommits(t, arrives)
    BY <1>1, <2>6, <2>o DEF PayCommits, Order
  <2> QED BY <1>1, <2>1, <2>2, <2>3, <2>4, <2>5, <2>6
          DEF Continue, GenerateCode, RequestEnds
<1>2. ASSUME NEW o \in DOMAIN orders', o \notin DOMAIN orders
      PROVE  /\ req[t].pc = "create" /\ o = req[t].oid
             /\ orders'[o].owner = req[t].user
  <2>1. PICK s \in Stamp : CreateCommits(t, s)
    BY <1>2
       DEF Continue, GenerateCode, SyncCommits, ApplyIdentity, ApplyAddress,
           ApplyPost, Update, RequestEnds, PayCommits
  <2>2. /\ req[t].pc = "create" /\ o = req[t].oid
        /\ orders'[o] = Flushed(t, s, req[t].order.discount)
    BY <1>2, <2>1 DEF CreateCommits
  <2>3. req[t].order \in Order /\ req[t].order.owner = req[t].user
    BY <2>2, <1>t, Working, Flying DEF SInv, BeginsAlone
  <2> QED BY <2>2, <2>3 DEF Flushed, Order
<1> QED BY <1>1, <1>2 DEF Drafts

\* Who begins an order has no other, unless through the API.
LEMMA NextBeginsAlone == SInv /\ [Next]_vars => BeginsAlone'
<1> SUFFICES ASSUME SInv, [Next]_vars PROVE BeginsAlone'
  OBVIOUS
<1>t. TypeOK
  BY DEF SInv, PInv
<1>u. BeginsAlone
  BY DEF SInv
<1>0. Idle.pc = "idle"
  BY DEF Idle
<1>1. CASE UNCHANGED <<req, orders>>
  BY <1>1, <1>u DEF BeginsAlone, Drafts
<1>2. ASSUME NEW d \in DOMAIN orders, AdminDelete(d) PROVE BeginsAlone'
  <2>1. UNCHANGED req /\ \A u \in User : Drafts(u)' \subseteq Drafts(u)
    BY <1>2, <1>t, AdminShape
  <2> QED BY <2>1, <1>u DEF BeginsAlone
<1>3. ASSUME NEW t \in Tab, NEW u \in User, Begin(t, u) PROVE BeginsAlone'
  <2>1. UNCHANGED orders /\ \A x \in Tab \ {t} : req'[x] = req[x]
    BY <1>3, <1>t, BeginShape
  <2>2. /\ req'[t].user = u
        /\ req'[t].pc \in {"generate", "create"} =>
             req'[t].order.owner = u /\ (u \notin ApiUser => Drafts(u) = {})
    BY <1>3, <1>t, BeginShape
  <2>3. \A v \in User : Drafts(v)' = Drafts(v)
    BY <2>1 DEF Drafts
  <2> QED BY <2>1, <2>2, <2>3, <1>u DEF BeginsAlone
<1>4. ASSUME NEW t \in Tab, GenerateCode(t) PROVE BeginsAlone'
  <2>1. /\ req[t] # Idle /\ UNCHANGED orders
        /\ \A x \in Tab \ {t} : req'[x] = req[x]
        /\ req'[t].user = req[t].user
    BY <1>4, <1>t, CodeShape
  <2>2. PICK c \in Nat : req'[t].order = [req[t].order EXCEPT !.code = c]
    BY <1>4, <1>t, CodeShape
  <2>3. req'[t].order.owner = req[t].order.owner
    BY <1>t, <2>1, <2>2, Flying DEF Order
  <2>4. \A v \in User : Drafts(v)' = Drafts(v)
    BY <2>1 DEF Drafts
  <2> QED BY <1>4, <2>1, <2>3, <2>4, <1>u DEF BeginsAlone, GenerateCode
<1>5. ASSUME NEW t \in Tab, Continue(t), ~GenerateCode(t) PROVE BeginsAlone'
  <2>1. /\ req[t] # Idle /\ \A x \in Tab \ {t} : req'[x] = req[x]
        /\ req'[t].pc \in {"idle", "apply"}
    BY <1>0, <1>5, <1>t, ContinueShape
  <2>2. ASSUME NEW x \in Tab \ {t}, req[x].pc \in {"generate", "create"},
               NEW v \in User, v = req[x].user
        PROVE  Drafts(v)' \subseteq Drafts(v)
    <3>1. v # req[t].user
      BY <2>1, <2>2, Working DEF SInv, OneByOne
    <3> QED BY <3>1, <1>5, DraftsShrink
  <2> QED BY <2>1, <2>2, <1>u DEF BeginsAlone
<1> QED BY <1>1, <1>2, <1>3, <1>4, <1>5
        DEF Next, Cart, AddToCart, RemoveFromCart, vars

\* Nobody adds a draft behind a consolidating session's back.
LEMMA NextSeesAll == SInv /\ [Next]_vars => SeesAllDrafts'
<1> SUFFICES ASSUME SInv, [Next]_vars PROVE SeesAllDrafts'
  OBVIOUS
<1>t. TypeOK
  BY DEF SInv, PInv
<1>u. SeesAllDrafts
  BY DEF SInv
<1>0. Idle.pc = "idle"
  BY DEF Idle
<1>1. CASE UNCHANGED <<req, orders>>
  BY <1>1, <1>u DEF SeesAllDrafts, Drafts
<1>2. ASSUME NEW d \in DOMAIN orders, AdminDelete(d) PROVE SeesAllDrafts'
  BY <1>2, <1>t, <1>u, AdminShape DEF SeesAllDrafts
<1>3. ASSUME NEW t \in Tab, NEW u \in User, Begin(t, u) PROVE SeesAllDrafts'
  <2>1. UNCHANGED orders /\ \A x \in Tab \ {t} : req'[x] = req[x]
    BY <1>3, <1>t, BeginShape
  <2>2. /\ req'[t].user = u
        /\ req'[t].pc = "sync" => req'[t].extras = Drafts(u) \ {req'[t].oid}
    BY <1>3, <1>t, BeginShape
  <2>3. \A v \in User : Drafts(v)' = Drafts(v)
    BY <2>1 DEF Drafts
  <2> QED BY <2>1, <2>2, <2>3, <1>u DEF SeesAllDrafts
<1>4. ASSUME NEW t \in Tab, GenerateCode(t) PROVE SeesAllDrafts'
  <2>1. /\ UNCHANGED orders /\ \A x \in Tab \ {t} : req'[x] = req[x]
        /\ req'[t].pc = "create"
    BY <1>4, <1>t, CodeShape
  <2>2. \A v \in User : Drafts(v)' = Drafts(v)
    BY <2>1 DEF Drafts
  <2> QED BY <2>1, <2>2, <1>u DEF SeesAllDrafts
<1>5. ASSUME NEW t \in Tab, Continue(t), ~GenerateCode(t) PROVE SeesAllDrafts'
  <2>1. /\ req[t] # Idle /\ \A x \in Tab \ {t} : req'[x] = req[x]
        /\ req'[t].pc # "sync"
    BY <1>0, <1>5, <1>t, ContinueShape
  <2>2. ASSUME NEW x \in Tab \ {t}, req[x].pc = "sync",
               NEW v \in User, v = req[x].user
        PROVE  Drafts(v)' \subseteq Drafts(v)
    <3>1. v # req[t].user
      BY <2>1, <2>2, Working DEF SInv, OneByOne
    <3> QED BY <3>1, <1>5, DraftsShrink
  <2> QED BY <2>1, <2>2, <1>u DEF SeesAllDrafts
<1> QED BY <1>1, <1>2, <1>3, <1>4, <1>5
        DEF Next, Cart, AddToCart, RemoveFromCart, vars

\* A customer of the shop pages keeps to one draft.
LEMMA NextOneDraft == SInv /\ [Next]_vars => OneDraftEach'
<1> SUFFICES ASSUME SInv, [Next]_vars PROVE OneDraftEach'
  OBVIOUS
<1>t. TypeOK
  BY DEF SInv, PInv
<1>u. OneDraftEach
  BY DEF SInv
<1>1. CASE UNCHANGED orders
  BY <1>1, <1>u DEF OneDraftEach, Drafts
<1>2. ASSUME NEW d \in DOMAIN orders, AdminDelete(d) PROVE OneDraftEach'
  BY <1>2, <1>t, <1>u, AdminShape DEF OneDraftEach
<1>3. ASSUME NEW t \in Tab, Continue(t) PROVE OneDraftEach'
  <2>1. ASSUME NEW u \in User \ ApiUser PROVE \A o, x \in Drafts(u)' : o = x
    <3>1. Drafts(u)' \subseteq
             Drafts(u) \cup (IF req[t].pc = "create" /\ u = req[t].user
                            THEN {req[t].oid} ELSE {})
      BY <1>3, <2>1, DraftsShrink
    <3>2. req[t].pc = "create" /\ u = req[t].user => Drafts(u) = {}
      BY <2>1 DEF SInv, BeginsAlone
    <3> QED BY <2>1, <3>1, <3>2, <1>u DEF OneDraftEach
  <2> QED BY <2>1 DEF OneDraftEach
<1>4. ASSUME NEW t \in Tab, NEW u \in User, Begin(t, u) PROVE UNCHANGED orders
  BY <1>4, <1>t, BeginShape
<1> QED BY <1>1, <1>2, <1>3, <1>4
        DEF Next, Cart, AddToCart, RemoveFromCart, vars

\* What PayableMatchesLines asks of one order.
Priced(order) == /\ order.quoted.bill = Bill(order.rows, order.post)
                 /\ order.quoted.off => order.discount

\* A price without a discount matches, whatever was granted.
LEMMA FullPrice ==
    ASSUME NEW order, NEW rows, NEW post, order.rows = rows, order.post = post,
           order.quoted = Price(rows, post, FALSE)
    PROVE  Priced(order)
BY DEF Priced, Price

\* Every commit leaves the amount to pay at the price of the lines, less at
\* most a discount of the order's own.
LEMMA NextPayable == SInv /\ [Next]_vars => PayableMatchesLines'
<1> SUFFICES ASSUME SInv, [Next]_vars PROVE PayableMatchesLines'
  OBVIOUS
<1>t. TypeOK
  BY DEF SInv, PInv
<1>u. \A o \in DOMAIN orders : Priced(orders[o])
  BY DEF SInv, PayableMatchesLines, Priced
<1>o. \A o \in DOMAIN orders : orders[o] \in Order
  BY <1>t DEF TypeOK
<1>g. SUFFICES \A o \in DOMAIN orders' : Priced(orders'[o])
  BY DEF PayableMatchesLines, Priced
<1>k. ASSUME NEW o \in DOMAIN orders, NEW order,
             order.rows = orders[o].rows, order.post = orders[o].post,
             order.quoted = orders[o].quoted, order.discount = orders[o].discount
      PROVE  Priced(order)
  BY <1>k, <1>u DEF Priced
<1>1. CASE UNCHANGED orders
  BY <1>1, <1>u
<1>2. ASSUME NEW d \in DOMAIN orders, AdminDelete(d),
             NEW o \in DOMAIN orders' PROVE Priced(orders'[o])
  BY <1>2, <1>t, <1>k, AdminShape
<1>3. ASSUME NEW t \in Tab, NEW u \in User, Begin(t, u) PROVE UNCHANGED orders
  BY <1>3, <1>t, BeginShape
<1>4. ASSUME NEW t \in Tab, Continue(t), NEW o \in DOMAIN orders'
      PROVE  Priced(orders'[o])
  <2>1. ASSUME NEW s \in Stamp, CreateCommits(t, s) PROVE Priced(orders'[o])
    <3> DEFINE new == Flushed(t, s, req[t].order.discount)
    <3>1. req[t].order \in Order
      BY <2>1, <1>t, Working, Flying DEF CreateCommits
    <3>2. orders'[o] = new \/ (o \in DOMAIN orders /\ orders'[o] = orders[o])
      BY <2>1, <1>4 DEF CreateCommits
    <3>3. Priced(new)
      BY <3>1 DEF Flushed, Total, Price, Priced, Order
    <3> HIDE DEF new
    <3> QED BY <3>2, <3>3, <1>u
  <2>2. ASSUME NEW s \in Stamp, SyncCommits(t, s) PROVE Priced(orders'[o])
    <3>1. CASE o = req[t].oid
      <4>1. /\ orders'[o] = [orders[o] EXCEPT !.rows = Written(t, s),
                                              !.quoted = Total(t, s, FALSE),
                                              !.emptied = (Written(t, s) = {})]
            /\ Total(t, s, FALSE) = Price(Written(t, s), orders[o].post, FALSE)
        BY <2>2, <3>1, SyncExact
      <4>2. orders[o] \in Order
        BY <2>2, <3>1, <1>o DEF SyncCommits
      <4>3. /\ orders'[o].rows = Written(t, s) /\ orders'[o].post = orders[o].post
            /\ orders'[o].quoted = Price(Written(t, s), orders[o].post, FALSE)
        BY <4>1, <4>2 DEF Order
      <4> QED BY <4>3, FullPrice
    <3>2. CASE o # req[t].oid
      BY <2>2, <3>2, <1>4, <1>u DEF SyncCommits
    <3> QED BY <3>1, <3>2
  <2>3. CASE ApplyIdentity(t) \/ ApplyAddress(t)
    <3>1. /\ o \in DOMAIN orders
          /\ orders'[o].rows = orders[o].rows
          /\ orders'[o].post = orders[o].post
          /\ orders'[o].quoted = orders[o].quoted
          /\ orders'[o].discount = orders[o].discount
      BY <1>4, <2>3, <1>o DEF ApplyIdentity, ApplyAddress, Update, Order
    <3> QED BY <3>1, <1>k
  <2>4. ASSUME NEW p \in PostType, ApplyPost(t, p) PROVE Priced(orders'[o])
    <3>1. o \in DOMAIN orders
      BY <1>4, <2>4 DEF ApplyPost, Update
    <3>2. CASE o = req[t].oid
      <4>1. orders'[o] = [orders[o] EXCEPT
                            !.post = p, !.quoted = Price(orders[o].rows, p, FALSE)]
        BY <2>4, <3>2, PostExact
      <4>2. /\ orders'[o].rows = orders[o].rows /\ orders'[o].post = p
            /\ orders'[o].quoted = Price(orders[o].rows, p, FALSE)
        BY <3>1, <4>1, <1>o DEF Order
      <4> QED BY <4>2, FullPrice
    <3>3. CASE o # req[t].oid
      BY <2>4, <3>1, <3>3, <1>u DEF ApplyPost, Update
    <3> QED BY <3>2, <3>3
  <2>5. CASE \E arrives \in BOOLEAN : PayCommits(t, arrives)
    <3>1. /\ o \in DOMAIN orders
          /\ orders'[o].rows = orders[o].rows
          /\ orders'[o].post = orders[o].post
          /\ orders'[o].quoted = orders[o].quoted
          /\ orders'[o].discount = orders[o].discount
      BY <1>4, <2>5, <1>o DEF PayCommits, Order
    <3> QED BY <3>1, <1>k
  <2> QED BY <1>1, <1>4, <2>1, <2>2, <2>3, <2>4, <2>5
          DEF Continue, GenerateCode, RequestEnds
<1> QED BY <1>1, <1>2, <1>3, <1>4
        DEF Next, Cart, AddToCart, RemoveFromCart, vars

\* The invariant of the shop where requests of one customer come one by one.
LEMMA SInvInvariant == ASSUME ~Overlap PROVE Spec => []SInv
<1>1. Init => SInv
  BY InitPInv DEF Init, SInv, OneByOne, UpToDate, LeftoversAreDrafts, BeginsAlone,
                  SeesAllDrafts, PayableMatchesLines, OneDraftEach, Drafts, Idle
<1>2. SInv /\ [Next]_vars => SInv'
  <2>1. SInv /\ [Next]_vars => PInv'
    BY NextType, NextReady, NextInserts, NextIds DEF SInv, PInv
  <2> QED BY <2>1, NextOneByOne, NextUpToDate, NextLeftovers, NextBeginsAlone,
             NextPayable, NextOneDraft, NextSeesAll DEF SInv
<1> QED BY <1>1, <1>2, PTL DEF Spec

\* What the customer is asked to pay is the price of what the order holds, less
\* at most a discount granted when it was begun, if the requests of a customer
\* come one by one.
THEOREM PayableMatches == ASSUME ~Overlap PROVE Spec => []PayableMatchesLines
<1>1. SInv => PayableMatchesLines
  BY DEF SInv
<1> QED BY <1>1, SInvInvariant, PTL

\* A customer who does not use the API has one draft at most, if the requests
\* of a customer come one by one.
THEOREM OneDraft == ASSUME ~Overlap PROVE Spec => []OneDraftEach
<1>1. SInv => OneDraftEach
  BY DEF SInv
<1> QED BY <1>1, SInvInvariant, PTL

\* One row of a line is one copy of it, none is none.
LEMMA CopiesOfOnce ==
    ASSUME NEW lines \in SUBSET Line, NEW s \in Stamp, NEW rows,
           rows = {<<l, s>> : l \in lines}
    PROVE  Bill(rows, NoPost).copies = [l \in Line |-> IF l \in lines THEN 1 ELSE 0]
<1>1. ASSUME NEW l \in Line
      PROVE  Cardinality({x \in Stamp : <<l, x>> \in rows}) =
               IF l \in lines THEN 1 ELSE 0
  <2>1. {x \in Stamp : <<l, x>> \in rows} = IF l \in lines THEN {s} ELSE {}
    OBVIOUS
  <2> QED BY <2>1, FS_Singleton, FS_EmptySet
<1> QED BY <1>1 DEF Bill

\* Once a cart has been synchronised its customer, who may use the API or not,
\* has no draft but the one it went into, and that holds the valid lines of
\* the cart and nothing else, if the requests of a customer come one by one.
THEOREM Consolidation == ASSUME ~Overlap PROVE Spec => SyncConsolidates
<1>1. ASSUME SInv, [Next]_vars, NEW t \in Tab, NEW s \in Stamp, NEW u \in User,
             NEW lines \in SUBSET Valid,
             SyncCommits(t, s), req[t].user = u, req[t].items \cap Valid = lines,
             NEW o \in Drafts(u)'
      PROVE  o = req[t].oid /\ Holds(o, lines)'
  <2>1. Continue(t) /\ req[t].pc = "sync"
    BY <1>1 DEF Continue, SyncCommits
  <2>2. Drafts(u)' \subseteq {req[t].oid} \cup req[t].extras
    <3>1. Drafts(u)' \subseteq Drafts(u)
      BY <1>1, <2>1, DraftsShrink
    <3> QED BY <1>1, <2>1, <3>1 DEF SInv, SeesAllDrafts
  <2>3. Drafts(u)' \subseteq DOMAIN orders \ req[t].extras
    BY <1>1 DEF SyncCommits, Drafts
  <2>4. o = req[t].oid
    BY <1>1, <2>2, <2>3
  <2>5. orders'[o].rows = Written(t, s)
    <3>1. orders[o] \in Order
      BY <1>1, <2>4 DEF SyncCommits, SInv, PInv, TypeOK
    <3>2. orders'[o] = [orders[o] EXCEPT !.rows = Written(t, s),
                                         !.quoted = Total(t, s, FALSE),
                                         !.emptied = (Written(t, s) = {})]
      BY <1>1, <2>4, SyncExact
    <3> QED BY <3>1, <3>2 DEF Order
  <2>6. Written(t, s) = {<<l, s>> : l \in lines} /\ lines \in SUBSET Line
    BY <1>1, LinesType DEF Written
  <2>7. Bill(orders'[o].rows, NoPost).copies =
          [l \in Line |-> IF l \in lines THEN 1 ELSE 0]
    BY <2>5, <2>6, CopiesOfOnce
  <2> QED BY <2>4, <2>7 DEF Holds
<1>2. SInv /\ [Next]_vars =>
        [\A t \in Tab, s \in Stamp, u \in User, lines \in SUBSET Valid :
            /\ SyncCommits(t, s)
            /\ req[t].user = u
            /\ req[t].items \cap Valid = lines
            => \A o \in Drafts(u)' : o = req[t].oid /\ Holds(o, lines)']_vars
  BY <1>1
<1> QED BY <1>2, SInvInvariant, PTL DEF Spec, SyncConsolidates

-----------------------------------------------------------------------------
(* The checkout implements the book of orders.                             *)

\* The bill of an order with rows and a delivery lists some goods.
LEMMA ReadyIsSellable ==
    ASSUME NEW rows \in SUBSET Row, rows # {}, NEW post \in PostType
    PROVE  Bill(rows, post) \in
             {b \in BillSet : b.post # NoPost /\ \E l \in Line : b.copies[l] > 0}
<1>1. PICK l \in Line, s \in Stamp : <<l, s>> \in rows
  BY DEF Row
<1> DEFINE S == {x \in Stamp : <<l, x>> \in rows}
<1>2. IsFiniteSet(S) /\ S # {}
  BY <1>1, StampType, FS_Subset
<1>3. Cardinality(S) \in Nat /\ Cardinality(S) # 0
  BY <1>2, FS_CardinalityType, FS_EmptySet
<1>4. Bill(rows, post).copies[l] > 0
  BY <1>3 DEF Bill
<1>5. Bill(rows, post).post # NoPost
  BY DeliveryType DEF Bill
<1>6. Bill(rows, post) \in BillSet
  BY BillType DEF Post
<1> QED BY <1>4, <1>5, <1>6

\* An order that is inserted is one that the book begins.
LEMMA BeginMaps ==
    ASSUME TypeOK, TypeOK', PayableMatchesLines', NEW o \in OrderId,
           o \notin DOMAIN orders,
           DOMAIN orders' = DOMAIN orders \cup {o},
           orders'[o].status = "Ordering",
           \A x \in DOMAIN orders : orders'[x] = orders[x]
    PROVE  Book!Next
<1>1. /\ orders'[o].post \in Post
      /\ orders'[o].quoted \in [bill : BillSet, off : BOOLEAN]
  BY DEF TypeOK, Order
<1>2. BookGoods'[o] = Bill(orders'[o].rows, orders'[o].post) /\ BookGoods'[o] \in BillSet
  BY <1>1, BillType DEF BookGoods
<1>3. /\ BookStage[o] = "none"
      /\ BookStage' = [BookStage EXCEPT ![o] = "draft"]
  BY DEF BookStage, Placed
<1>4. BookGoods' = [BookGoods EXCEPT ![o] = BookGoods'[o]]
  BY DEF BookGoods
<1>5. \E off \in BOOLEAN : orders'[o].quoted = Book!Price(BookGoods'[o], off)
  BY <1>1, <1>2 DEF PayableMatchesLines, Book!Price
<1>6. BookPayable' = [BookPayable EXCEPT ![o] = orders'[o].quoted]
  BY DEF BookPayable
<1>7. Book!Begin(o)
  BY <1>2, <1>3, <1>4, <1>5, <1>6 DEF Book!Begin
<1> QED BY <1>7 DEF Book!Next

\* A draft that is rewritten at its full price, with the leftover drafts that
\* are deleted, is one that the book redrafts.
LEMMA RedraftMaps ==
    ASSUME TypeOK, TypeOK', NEW o \in OrderId,
           NEW Leftover \in SUBSET DOMAIN orders, o \notin Leftover,
           o \in DOMAIN orders, orders[o].status = "Ordering",
           \A x \in Leftover : orders[x].status = "Ordering",
           DOMAIN orders' = DOMAIN orders \ Leftover,
           orders'[o].status = "Ordering",
           orders'[o].quoted = Price(orders'[o].rows, orders'[o].post, FALSE),
           \A x \in DOMAIN orders' \ {o} : orders'[x] = orders[x]
    PROVE  Book!Next
<1>1. Leftover \in SUBSET OrderId
  BY DEF TypeOK
<1>2. \A x \in Leftover \cup {o} : BookStage[x] = "draft"
  BY <1>1 DEF BookStage, Placed
<1>3. BookGoods'[o] \in BillSet
  <2>1. orders'[o].post \in Post
    BY DEF TypeOK, Order
  <2> QED BY <2>1, BillType DEF BookGoods
<1>4. BookStage' = [x \in OrderId |-> IF x \in Leftover THEN "none" ELSE BookStage[x]]
  BY DEF BookStage, Placed
<1>5. BookGoods' = [x \in OrderId |-> IF x = o THEN BookGoods'[o]
                                      ELSE IF x \in Leftover THEN Bill({}, NoPost)
                                      ELSE BookGoods[x]]
  BY DEF BookGoods
<1>6. \A x \in OrderId :
        BookPayable'[x] = IF x \in Leftover \cup {o}
                          THEN Book!Price(BookGoods'[x], FALSE) ELSE BookPayable[x]
  <2>1. ASSUME NEW x \in OrderId, x \in Leftover
        PROVE  BookPayable'[x] = Book!Price(BookGoods'[x], FALSE)
    BY <2>1 DEF BookPayable, BookGoods, Price, Book!Price
  <2>2. BookPayable'[o] = Book!Price(BookGoods'[o], FALSE)
    BY DEF BookPayable, BookGoods, Price, Book!Price
  <2>3. ASSUME NEW x \in OrderId, x \notin Leftover \cup {o}
        PROVE  BookPayable'[x] = BookPayable[x]
    BY <2>3 DEF BookPayable
  <2> QED BY <2>1, <2>2, <2>3
<1>7. BookPayable' = [x \in OrderId |-> IF x \in Leftover \cup {o}
                                        THEN Book!Price(BookGoods'[x], FALSE)
                                        ELSE BookPayable[x]]
  BY <1>6 DEF BookPayable
<1>8. Book!Redraft(o, Leftover)
  BY <1>2, <1>3, <1>4, <1>5, <1>7 DEF Book!Redraft
<1> QED BY <1>1, <1>8 DEF Book!Next

\* A step that keeps what the book shows of every order is none in the book.
LEMMA StutterMaps ==
    ASSUME DOMAIN orders' = DOMAIN orders,
           \A o \in DOMAIN orders : /\ orders'[o].status = orders[o].status
                                    /\ orders'[o].rows = orders[o].rows
                                    /\ orders'[o].post = orders[o].post
                                    /\ orders'[o].quoted = orders[o].quoted
    PROVE  UNCHANGED Book!vars
BY DEF Book!vars, BookStage, BookGoods, BookPayable, Placed

\* A payment is the book's placing of a complete draft.
LEMMA PayMaps ==
    ASSUME SInv, NEW t \in Tab, NEW arrives \in BOOLEAN, PayCommits(t, arrives)
    PROVE  Book!Next
<1> DEFINE o == req[t].oid
<1>t. TypeOK
  BY DEF SInv, PInv
<1>1. /\ o \in DOMAIN orders /\ o \in OrderId /\ orders[o] \in Order
      /\ orders[o].status = "Ordering"
      /\ orders[o].rows # {} /\ orders[o].post # NoPost
  BY <1>t DEF PayCommits, SInv, PInv, UpToDate, PayingReady, Ready, TypeOK
<1>2. orders' = [orders EXCEPT ![o].status = "AwaitingPayment"]
  BY DEF PayCommits
<1>3. /\ DOMAIN orders' = DOMAIN orders
      /\ \A x \in DOMAIN orders \ {o} : orders'[x] = orders[x]
      /\ orders'[o].status = "AwaitingPayment"
      /\ orders'[o].rows = orders[o].rows
      /\ orders'[o].post = orders[o].post
      /\ orders'[o].quoted = orders[o].quoted
  BY <1>1, <1>2 DEF Order
<1>4. BookStage[o] = "draft"
  BY <1>1 DEF BookStage, Placed
<1>5. BookGoods[o] \in
        {b \in BillSet : b.post # NoPost /\ \E l \in Line : b.copies[l] > 0}
  <2>1. orders[o].post \in PostType /\ orders[o].rows \in SUBSET Row
    BY <1>1 DEF Order, Post
  <2> QED BY <1>1, <2>1, ReadyIsSellable DEF BookGoods
<1>6. BookStage' = [BookStage EXCEPT ![o] = "placed"]
  BY <1>1, <1>3 DEF BookStage, Placed
<1>7. UNCHANGED <<BookGoods, BookPayable>>
  BY <1>3 DEF BookGoods, BookPayable
<1>8. Book!Place(o)
  BY <1>4, <1>5, <1>6, <1>7 DEF Book!Place
<1> QED BY <1>1, <1>8 DEF Book!Next

\* The first state is the empty book.
LEMMA InitMaps == Init => Book!Init
BY DEF Init, Book!Init, BookStage, BookGoods, BookPayable, Price, Book!Price

\* Every step is a step of the book or none.
LEMMA StepMaps == SInv /\ SInv' /\ [Next]_vars => [Book!Next]_(Book!vars)
<1> SUFFICES ASSUME SInv, SInv', [Next]_vars
             PROVE  Book!Next \/ UNCHANGED Book!vars
  OBVIOUS
<1>t. TypeOK /\ TypeOK' /\ PayableMatchesLines'
  BY DEF SInv, PInv
<1>o. \A o \in DOMAIN orders : orders[o] \in Order /\ o \in OrderId
  BY <1>t DEF TypeOK
<1>1. CASE UNCHANGED orders
  BY <1>1, StutterMaps
<1>2. ASSUME NEW d \in DOMAIN orders, AdminDelete(d) PROVE UNCHANGED Book!vars
  BY <1>2, <1>t, AdminShape, StutterMaps
<1>3. ASSUME NEW t \in Tab, NEW u \in User, Begin(t, u) PROVE UNCHANGED orders
  BY <1>3, <1>t, BeginShape
<1>4. ASSUME NEW t \in Tab, NEW s \in Stamp, CreateCommits(t, s) PROVE Book!Next
  <2>1. /\ req[t].oid \notin DOMAIN orders /\ req[t].oid \in OrderId
        /\ req[t].order \in Order /\ req[t].order.status = "Ordering"
    BY <1>4, <1>t, Working, Flying
       DEF CreateCommits, SInv, PInv, IdsAreNew, InsertsDraft
  <2>2. /\ DOMAIN orders' = DOMAIN orders \cup {req[t].oid}
        /\ \A x \in DOMAIN orders : orders'[x] = orders[x]
        /\ orders'[req[t].oid] = Flushed(t, s, req[t].order.discount)
    BY <1>4, <2>1 DEF CreateCommits
  <2>3. orders'[req[t].oid].status = "Ordering"
    BY <2>1, <2>2 DEF Flushed, Order
  <2> QED BY <1>t, <2>1, <2>2, <2>3, BeginMaps
<1>5. ASSUME NEW t \in Tab, NEW s \in Stamp, SyncCommits(t, s) PROVE Book!Next
  <2>1. /\ req[t].oid \in DOMAIN orders /\ orders[req[t].oid].status = "Ordering"
    BY <1>5 DEF SyncCommits, SInv, UpToDate
  <2>2. /\ req[t].extras \subseteq DOMAIN orders /\ req[t].oid \notin req[t].extras
        /\ \A e \in req[t].extras : orders[e].status = "Ordering"
    BY <1>5, Working DEF SyncCommits, SInv, LeftoversAreDrafts
  <2>3. /\ orders'[req[t].oid].status = "Ordering"
        /\ orders'[req[t].oid].quoted =
             Price(orders'[req[t].oid].rows, orders'[req[t].oid].post, FALSE)
    <3>1. /\ orders'[req[t].oid] =
               [orders[req[t].oid] EXCEPT !.rows = Written(t, s),
                                          !.quoted = Total(t, s, FALSE),
                                          !.emptied = (Written(t, s) = {})]
          /\ Total(t, s, FALSE) =
               Price(Written(t, s), orders[req[t].oid].post, FALSE)
      BY <1>5, SyncExact
    <3> QED BY <2>1, <3>1, <1>o DEF Order
  <2>4. /\ DOMAIN orders' = DOMAIN orders \ req[t].extras
        /\ \A x \in DOMAIN orders' \ {req[t].oid} : orders'[x] = orders[x]
    BY <1>5 DEF SyncCommits
  <2> QED BY <1>t, <1>o, <2>1, <2>2, <2>3, <2>4, RedraftMaps
<1>6. ASSUME NEW t \in Tab, ApplyIdentity(t) \/ ApplyAddress(t)
      PROVE  UNCHANGED Book!vars
  <2>1. /\ DOMAIN orders' = DOMAIN orders
        /\ \A x \in DOMAIN orders : /\ orders'[x].status = orders[x].status
                                    /\ orders'[x].rows = orders[x].rows
                                    /\ orders'[x].post = orders[x].post
                                    /\ orders'[x].quoted = orders[x].quoted
    BY <1>6, <1>o DEF ApplyIdentity, ApplyAddress, Update, Order
  <2> QED BY <2>1, StutterMaps
<1>7. ASSUME NEW t \in Tab, NEW p \in PostType, ApplyPost(t, p) PROVE Book!Next
  <2>1. /\ req[t].oid \in DOMAIN orders /\ orders[req[t].oid].status = "Ordering"
    BY <1>7 DEF ApplyPost, Update, SInv, UpToDate
  <2>2. /\ DOMAIN orders' = DOMAIN orders
        /\ orders'[req[t].oid] =
             [orders[req[t].oid] EXCEPT
                !.post = p, !.quoted = Price(orders[req[t].oid].rows, p, FALSE)]
    BY <1>7, PostExact
  <2>3. /\ orders'[req[t].oid].status = "Ordering"
        /\ orders'[req[t].oid].quoted =
             Price(orders'[req[t].oid].rows, orders'[req[t].oid].post, FALSE)
    BY <2>1, <2>2, <1>o DEF Order
  <2>4. \A x \in DOMAIN orders' \ {req[t].oid} : orders'[x] = orders[x]
    BY <1>7 DEF ApplyPost, Update
  <2> DEFINE none == {}
  <2>5. /\ none \in SUBSET DOMAIN orders /\ req[t].oid \notin none
        /\ \A x \in none : orders[x].status = "Ordering"
        /\ DOMAIN orders' = DOMAIN orders \ none
    BY <2>2
  <2> HIDE DEF none
  <2> QED BY <1>t, <1>o, <2>1, <2>3, <2>4, <2>5, RedraftMaps
<1>8. ASSUME NEW t \in Tab, Continue(t) PROVE Book!Next \/ UNCHANGED Book!vars
  BY <1>1, <1>4, <1>5, <1>6, <1>7, <1>8, PayMaps
     DEF Continue, GenerateCode, RequestEnds
<1> QED BY <1>1, <1>2, <1>3, <1>8
        DEF Next, Cart, AddToCart, RemoveFromCart, vars

\* If the requests of a customer come one by one, the checkout implements the
\* book: a placed order lists goods and a delivery, is priced, and is final.
THEOREM CheckoutImplementsBook == ASSUME ~Overlap PROVE Spec => ImplementsOrderBook
BY InitMaps, StepMaps, SInvInvariant, PTL DEF Spec, ImplementsOrderBook, Book!Spec
================================================================================
