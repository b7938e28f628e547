------------------------------- MODULE Checkout -------------------------------
(***************************************************************************)
(* The multi-step checkout: a cookie cart becomes a persistent order in    *)
(* status Ordering, the customer picks identity, address and delivery in   *)
(* any number of page loads, and the payment step turns the order into     *)
(* AwaitingPayment.  The JSON API creates Ordering orders of its own.      *)
(*                                                                         *)
(* A request is a coroutine with a database session: it reads at its first *)
(* await, computes on the objects it has read and writes in a later        *)
(* commit, without locks or version columns (READ COMMITTED).  Between the *)
(* two, any other request runs.  A transaction's writes take effect at its *)
(* commit; the rows it deletes or updates are the ones it read.            *)
(***************************************************************************)
EXTENDS Naturals, FiniteSets

CONSTANTS
    User,
    ApiUser,    \* the users who also order through the JSON API
    Tab,        \* request slots: how many requests run at the same time
    Line,       \* what a cart line can be: a product with its variety
    Valid,      \* lines whose product id is one: a cookie may hold any text
    Bare,       \* lines of products without a variety (NULL VarietyId)
    PostType,
    NoPost,
    Stamp,      \* tells the rows written by different commits apart
    MaxOrders,  \* bound: orders that are ever begun
    Removable,  \* bound: orders the administration may delete
    Overlap     \* whether two requests of one user may run at the same time

ASSUME UsersType == ApiUser \subseteq User
ASSUME LinesType == Bare \subseteq Line /\ Valid \subseteq Line
ASSUME DeliveryType == NoPost \notin PostType
ASSUME StampType == IsFiniteSet(Stamp)
ASSUME BoundType == MaxOrders \in Nat
ASSUME OverlapType == Overlap \in BOOLEAN

OrderId == 1..MaxOrders   \* given out in the order of Order.date
Row == Line \X Stamp      \* an OrderProduct row and the commit that wrote it
Post == PostType \cup {NoPost}

\* What the amount to pay is computed from: how many rows there are of each
\* line, and the delivery.
Bill(rows, post) ==
    [copies |-> [l \in Line |-> Cardinality({s \in Stamp : <<l, s>> \in rows})],
     post   |-> post]

BillSet == [copies : [Line -> Nat], post : Post]

\* The amount to pay: the price of goods and delivery, less a discount if off.
Price(rows, post, off) == [bill |-> Bill(rows, post), off |-> off]

\* An order; `discount' tells that its discount columns hold one, `quoted' is
\* the payable.  `emptied' is no column but history: the last synchronisation
\* has left the order without a row.
Order == [status : {"Ordering", "AwaitingPayment"}, removed : BOOLEAN,
          owner : User, code : Nat, rows : SUBSET Row,
          address : BOOLEAN, post : Post, discount : BOOLEAN,
          quoted : [bill : BillSet, off : BOOLEAN], emptied : BOOLEAN]

VARIABLES orders,   \* the Orders table with the rows of OrderProducts
          issued,   \* how many order ids have been given out
          cookie,   \* the lines in each user's cart cookie
          req       \* what each request slot is doing

vars == <<orders, issued, cookie, req>>

Idle == [pc |-> "idle"]

\* A request in flight: `order' is the object its session has loaded or made,
\* `extras' the other Ordering orders it read, `items' the cart it carries.
Session(stages, ids) ==
    [pc : stages, channel : {"web", "api"}, user : User, oid : ids,
     order : Order, extras : SUBSET OrderId, items : SUBSET Line]

Request == Session({"generate"}, {0}) \cup
           Session({"create", "sync", "apply", "pay"}, OrderId)

TypeOK == /\ DOMAIN orders \subseteq OrderId
          /\ \A o \in DOMAIN orders : orders[o] \in Order
          /\ issued \in 0..MaxOrders
          /\ cookie \in [User -> SUBSET Line]
          /\ req \in [Tab -> {Idle} \cup Request]

Init == /\ orders = [o \in {} |-> {}]
        /\ issued = 0
        /\ cookie = [u \in User |-> {}]
        /\ req = [t \in Tab |-> Idle]

-----------------------------------------------------------------------------
InFlight(t) == req[t] # Idle

\* u waits for no answer, or need not wait for it.
MayAct(u) == Overlap \/ \A t \in Tab : InFlight(t) => req[t].user # u

\* A request of u can start in slot t.
Free(t, u) == ~InFlight(t) /\ MayAct(u)

\* Mutant: any live order of u counts as a draft.
DraftsAnyStatus(u) == {o \in DOMAIN orders : /\ orders[o].owner = u
                                             /\ ~orders[o].removed}

Drafts(u) == {o \in DOMAIN orders : /\ orders[o].owner = u
                                    /\ orders[o].status = "Ordering"
                                    /\ ~orders[o].removed}

\* get_ordering_order_full: the newest draft of u.
Current(u) == {o \in Drafts(u) : \A x \in Drafts(u) : x <= o}

Lines(rows) == {r[1] : r \in rows}

NewOrder(u, post, off) ==
    [status |-> "Ordering", removed |-> FALSE, owner |-> u, code |-> 0,
     rows |-> {}, address |-> FALSE, post |-> post,
     discount |-> off, quoted |-> Price({}, post, off), emptied |-> FALSE]

Answer(t) == req' = [req EXCEPT ![t] = Idle]

-----------------------------------------------------------------------------
(* The cart: each call answers with a new cookie.                          *)

AddToCart(u, l) ==
    /\ MayAct(u)
    /\ l \notin cookie[u]
    /\ cookie' = [cookie EXCEPT ![u] = @ \cup {l}]
    /\ UNCHANGED <<orders, issued, req>>

RemoveFromCart(u, l) ==
    /\ MayAct(u)
    /\ l \in cookie[u]
    /\ cookie' = [cookie EXCEPT ![u] = @ \ {l}]
    /\ UNCHANGED <<orders, issued, req>>

-----------------------------------------------------------------------------
(* GET and POST /checkout.                                                 *)

Load(t, u, pc, o, order, extras, items, channel) ==
    req' = [req EXCEPT ![t] =
              [pc |-> pc, channel |-> channel, user |-> u, oid |-> o,
               order |-> order, extras |-> extras, items |-> items]]

\* With an empty cookie sync_ordering_order_from_cart returns the current
\* draft as it is; without a draft, or with an empty one, the page redirects.
OpenDraft(t, u) ==
    /\ Free(t, u)
    /\ cookie[u] = {}
    /\ \E o \in Current(u) :
          /\ orders[o].rows # {}
          /\ Load(t, u, "apply", o, orders[o], {}, {}, "web")
    /\ UNCHANGED <<orders, issued, cookie>>

\* Mutant: the leftover drafts are not consolidated.
ReadNewestDraft(t, u) ==
    /\ Free(t, u)
    /\ cookie[u] # {}
    /\ \E o \in Current(u) :
          Load(t, u, "sync", o, orders[o], {}, cookie[u], "web")
    /\ UNCHANGED <<orders, issued, cookie>>

\* With items and a draft, the newest draft and the leftover ones are read.
ReadDrafts(t, u) ==
    /\ Free(t, u)
    /\ cookie[u] # {}
    /\ \E o \in Current(u) :
          Load(t, u, "sync", o, orders[o], Drafts(u) \ {o}, cookie[u], "web")
    /\ UNCHANGED <<orders, issued, cookie>>

\* Mutant: a new order is begun for every cart.
BeginDraftAlways(t, u) ==
    /\ Free(t, u)
    /\ cookie[u] # {}
    /\ Load(t, u, "generate", 0, NewOrder(u, NoPost, FALSE), {}, cookie[u], "web")
    /\ UNCHANGED <<orders, issued, cookie>>

\* With items and no draft, a new order is begun.
BeginDraft(t, u) ==
    /\ Free(t, u)
    /\ cookie[u] # {}
    /\ Drafts(u) = {}
    /\ Load(t, u, "generate", 0, NewOrder(u, NoPost, FALSE), {}, cookie[u], "web")
    /\ UNCHANGED <<orders, issued, cookie>>

\* POST of the API's cart/checkout: create_order up to the query for its
\* code; off tells whether a discount code was accepted.
ApiCheckout(t, u, items, post, off) ==
    /\ u \in ApiUser
    /\ Free(t, u)
    /\ items # {}
    /\ Load(t, u, "generate", 0, NewOrder(u, post, off), {}, items, "api")
    /\ UNCHANGED <<orders, issued, cookie>>

Codes == {orders[o].code : o \in DOMAIN orders}

WithCode(r, o, c) ==
    [r EXCEPT !.pc = "create", !.oid = o, !.order = [r.order EXCEPT !.code = c]]

\* _generate_reference_code: the maximum of the table, or 1000, plus one.
\* The order object, and with it its date, is made right after the answer.
GenerateCode(t) ==
    /\ req[t].pc = "generate"
    /\ issued < MaxOrders
    /\ issued' = issued + 1
    /\ \E c \in Codes \cup {1000} :
          /\ \A d \in Codes : d <= c
          /\ req' = [req EXCEPT ![t] = WithCode(req[t], issued + 1, c + 1)]
    /\ UNCHANGED <<orders, cookie>>

\* The rows a request writes for its items: one whose product id is no id is
\* skipped.
Written(t, s) == {<<l, s>> : l \in req[t].items \cap Valid}

\* What the session computes as the amount to pay for them.
Total(t, s, off) == Price(Written(t, s), req[t].order.post, off)

\* The session's order, as its flush writes it.
Flushed(t, s, off) ==
    [req[t].order EXCEPT !.rows = Written(t, s), !.quoted = Total(t, s, off)]

\* The request goes on with the order it has just written; an API call is
\* over, and so is a page load whose order is empty: it redirects to /cart.
NextStage(t, s) ==
    IF req[t].channel = "api" \/ Written(t, s) = {} THEN Idle
    ELSE [req[t] EXCEPT !.pc = "apply", !.extras = {}, !.items = {},
                        !.order = Flushed(t, s, FALSE)]

GoOn(t, s) == req' = [req EXCEPT ![t] = NextStage(t, s)]

\* The new order is inserted, unless its code has been taken meanwhile
\* (ReferenceCode is unique); create_order prices it less its discount.
CreateCommits(t, s) ==
    /\ req[t].pc = "create"
    /\ req[t].order.code \notin Codes
    /\ orders' = [x \in DOMAIN orders \cup {req[t].oid} |->
                    IF x = req[t].oid
                    THEN Flushed(t, s, req[t].order.discount) ELSE orders[x]]
    /\ GoOn(t, s)
    /\ UNCHANGED <<issued, cookie>>

\* What the rows a request has read leave behind when it deletes them.
Kept(t) == orders[req[t].oid].rows \ req[t].order.rows

\* The stamp of a new commit differs from that of the rows that stay and of
\* the rows other requests are about to delete.
NewStamp(t, s) ==
    \A l \in Line :
        /\ <<l, s>> \notin Kept(t)
        /\ \A x \in Tab \ {t} :
              req[x].pc = "sync" => <<l, s>> \notin req[x].order.rows

\* The unique index over (order, product, variety), blind to NULL.
NoDuplicate(t) == req[t].items \cap Lines(Kept(t)) \subseteq Bare

\* An assignment writes its column only if it changes what was loaded.
Assign(loaded, new, stored) == IF new = loaded THEN stored ELSE new

\* The leftover drafts are deleted for good, the rows read are replaced by
\* the cart's, of which there may be none, the totals are recomputed without
\* any discount and the transaction commits.
SyncCommits(t, s) ==
    /\ req[t].pc = "sync"
    /\ req[t].oid \in DOMAIN orders
    /\ NewStamp(t, s)
    /\ NoDuplicate(t)
    /\ orders' = [x \in DOMAIN orders \ req[t].extras |->
                    IF x = req[t].oid
                    THEN [orders[x] EXCEPT
                            !.rows = Kept(t) \cup Written(t, s),
                            !.quoted = Assign(req[t].order.quoted,
                                              Total(t, s, FALSE), @),
                            !.emptied = (Kept(t) \cup Written(t, s) = {})]
                    ELSE orders[x]]
    /\ GoOn(t, s)
    /\ UNCHANGED <<issued, cookie>>

\* The parameter of the page load, applied to the session's order and
\* committed; the update of a row that is gone fails (StaleDataError).
Update(t, new) ==
    /\ req[t].pc = "apply"
    /\ orders' = [x \in DOMAIN orders |->
                    IF x = req[t].oid THEN new ELSE orders[x]]
    /\ Answer(t)
    /\ UNCHANGED <<issued, cookie>>

\* set_ordering_identity: its column is left out, since no step reads it.
ApplyIdentity(t) == Update(t, orders[req[t].oid])

\* set_ordering_address
ApplyAddress(t) ==
    Update(t, [orders[req[t].oid] EXCEPT !.address = TRUE])

\* Mutant: the delivery is set and the totals are left as they were.
ApplyPostOnly(t, p) ==
    Update(t, [orders[req[t].oid] EXCEPT !.post = Assign(req[t].order.post, p, @)])

\* set_ordering_post: the totals are those of the lines the session holds,
\* without any discount.
ApplyPost(t, p) ==
    LET mine == req[t].order IN
    Update(t, [orders[req[t].oid] EXCEPT
                 !.post = Assign(mine.post, p, @),
                 !.quoted = Assign(mine.quoted, Price(mine.rows, p, FALSE), @)])

\* A page load without a parameter, or with one that is not the customer's,
\* ends; and any request may be cut short: a constraint refuses its writes,
\* the connection is lost, the server stops.  Its open transaction is void.
RequestEnds(t) ==
    /\ InFlight(t)
    /\ Answer(t)
    /\ UNCHANGED <<orders, issued, cookie>>

-----------------------------------------------------------------------------
(* POST /checkout/payment.                                                 *)

\* Mutant: the payment step does not ask for an address.
ReadForPaymentLax(t, u) ==
    /\ Free(t, u)
    /\ \E o \in Current(u) :
          /\ orders[o].rows # {}
          /\ orders[o].post # NoPost
          /\ Load(t, u, "pay", o, orders[o], {}, {}, "web")
    /\ UNCHANGED <<orders, issued, cookie>>

\* checkout_payment_submit and the checks of pay_ordering_order.
ReadForPayment(t, u) ==
    /\ Free(t, u)
    /\ \E o \in Current(u) :
          /\ orders[o].rows # {}
          /\ orders[o].address
          /\ orders[o].post # NoPost
          /\ Load(t, u, "pay", o, orders[o], {}, {}, "web")
    /\ UNCHANGED <<orders, issued, cookie>>

\* Mutant: the order is stored as paid.
PayCommitsAsPaid(t, arrives) ==
    /\ req[t].pc = "pay"
    /\ req[t].oid \in DOMAIN orders
    /\ orders' = [orders EXCEPT ![req[t].oid].status = "Paid"]
    /\ cookie' = IF arrives THEN [cookie EXCEPT ![req[t].user] = {}] ELSE cookie
    /\ Answer(t)
    /\ UNCHANGED issued

\* The commit of pay_ordering_order; the answer, if it arrives, empties the
\* cart cookie.
PayCommits(t, arrives) ==
    /\ req[t].pc = "pay"
    /\ req[t].oid \in DOMAIN orders
    /\ orders' = [orders EXCEPT ![req[t].oid].status = "AwaitingPayment"]
    /\ cookie' = IF arrives THEN [cookie EXCEPT ![req[t].user] = {}] ELSE cookie
    /\ Answer(t)
    /\ UNCHANGED issued

-----------------------------------------------------------------------------
\* admin_order_delete: soft, and of an order in any status.
AdminDelete(o) ==
    /\ o \in DOMAIN orders \cap Removable
    /\ orders' = [orders EXCEPT ![o].removed = TRUE]
    /\ UNCHANGED <<issued, cookie, req>>

-----------------------------------------------------------------------------
Cart(u) == \E l \in Line : AddToCart(u, l) \/ RemoveFromCart(u, l)

Begin(t, u) == \/ OpenDraft(t, u)
               \/ ReadDrafts(t, u)
               \/ BeginDraft(t, u)
               \/ ReadForPayment(t, u)
               \/ \E items \in SUBSET Valid, p \in PostType, off \in BOOLEAN :
                      ApiCheckout(t, u, items, p, off)

Continue(t) == \/ GenerateCode(t)
               \/ \E s \in Stamp : CreateCommits(t, s) \/ SyncCommits(t, s)
               \/ ApplyIdentity(t) \/ ApplyAddress(t)
               \/ \E p \in PostType : ApplyPost(t, p)
               \/ RequestEnds(t)
               \/ \E arrives \in BOOLEAN : PayCommits(t, arrives)

Next == \/ \E u \in User : Cart(u)
        \/ \E t \in Tab, u \in User : Begin(t, u)
        \/ \E t \in Tab : Continue(t)
        \/ \E o \in DOMAIN orders : AdminDelete(o)

Spec == Init /\ [][Next]_vars

-----------------------------------------------------------------------------
(* Properties.                                                             *)

Placed(o) == orders[o].status = "AwaitingPayment"

\* Whatever runs at the same time, an order that reached the payment step has
\* an address, a delivery and goods: the checks made before the last await of
\* the payment still hold after it, unless a synchronisation has replaced the
\* goods by those of a cart in which no line has a product id.
PlacedComplete ==
    \A o \in DOMAIN orders : Placed(o) =>
        /\ orders[o].address
        /\ orders[o].post # NoPost
        /\ orders[o].rows = {} => orders[o].emptied

\* "Consolidate any leftover 'Ordering' orders into a single one": a customer
\* of the shop pages never has two drafts, if the requests come one by one.
OneDraftEach ==
    \A u \in User \ ApiUser : \A o, x \in Drafts(u) : o = x

\* Order o has one row for each of the lines, and no other.
Holds(o, lines) ==
    Bill(orders[o].rows, NoPost).copies = [l \in Line |-> IF l \in lines THEN 1 ELSE 0]

\* ... and one who uses the API as well has no draft, after a cart has been
\* synchronised, but the one it was synchronised into, which holds the lines
\* of that cart that have a product id and nothing else.
SyncConsolidates ==
    [][\A t \in Tab, s \in Stamp, u \in User, lines \in SUBSET Valid :
          /\ SyncCommits(t, s)
          /\ req[t].user = u
          /\ req[t].items \cap Valid = lines
          => \A o \in Drafts(u)' : o = req[t].oid /\ Holds(o, lines)']_vars

\* "Recalculate order totals from products + selected post type": what the
\* customer is asked to pay is the price of what the order holds; less than
\* that only if the order was begun with a discount.
PayableMatchesLines ==
    \A o \in DOMAIN orders :
        /\ orders[o].quoted.bill = Bill(orders[o].rows, orders[o].post)
        /\ orders[o].quoted.off => orders[o].discount

\* How the tables show the book: an order that is not stored, because it was
\* never inserted or was consolidated away, is no order.
BookStage == [o \in OrderId |-> IF o \notin DOMAIN orders THEN "none"
                               ELSE IF Placed(o) THEN "placed" ELSE "draft"]

BookGoods == [o \in OrderId |-> IF o \notin DOMAIN orders THEN Bill({}, NoPost)
                               ELSE Bill(orders[o].rows, orders[o].post)]

BookPayable == [o \in OrderId |-> IF o \notin DOMAIN orders THEN Price({}, NoPost, FALSE)
                                 ELSE orders[o].quoted]

Book == INSTANCE OrderBook WITH
    Blank    <- Bill({}, NoPost),
    Sellable <- {b \in BillSet : b.post # NoPost /\ \E l \in Line : b.copies[l] > 0},
    stage    <- BookStage,
    goods    <- BookGoods,
    payable  <- BookPayable

\* "Finalize the ordering order": the checkout implements the book of orders, if
\* the requests of one customer come one by one; what is placed lists goods, is
\* priced and is final.
ImplementsOrderBook == Book!Spec
=============================================================================
