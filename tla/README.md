# Verification of the Hamdoos shop

TLA+ models, TLC runs and TLAPS proofs for the Hamdoos web shop: a FastAPI
application (`src/app`, SQLAlchemy 2 async over PostgreSQL, server-rendered
shop and admin pages next to a JSON API) that sells goods, takes bank receipts
and online payments for them, verifies phone numbers by text message, and alerts
customers when goods are back in stock.

Contents

1. [What kind of program this is](#1-what-kind-of-program-this-is)
2. [Inventory of components](#2-inventory-of-components)
3. [Modules and how they correspond to the code](#3-modules-and-how-they-correspond-to-the-code)
4. [Runs](#4-runs)
5. [Bounds, and why they are enough](#5-bounds-and-why-they-are-enough)
6. [Fairness](#6-fairness)
7. [What is proved](#7-what-is-proved)
8. [Disagreements found](#8-disagreements-found)
9. [What is not modelled, and why](#9-what-is-not-modelled-and-why)
10. [Plan](#10-plan)

To repeat a run: `tlc -workers 2 -config CheckoutSerial.cfg MCCheckout`. To
repeat the proofs: `tlapm Checkout_proofs.tla`.


## 1. What kind of program this is

One `uvicorn` process runs one event loop. Every HTTP request is a coroutine
with a database session of its own; between two `await`s nothing else runs,
and at each `await` anything may. A handler has a common shape:

    read rows  ->  check them  ->  assign to the loaded objects  ->  commit

Three facts of the libraries decide what can go wrong, and all models rest on
them:

* **READ COMMITTED, no locks, no version columns.** No handler uses `SELECT ...
  FOR UPDATE` or a version counter (`src/app/database.py:9-27` sets neither an
  isolation level nor a mapper option). Whatever a handler has read can be
  stale when it writes.
* **An assignment writes its column only if it changes the loaded value.**
  SQLAlchemy's unit of work compares with what was loaded, not with what is
  stored. The operator `Assign(loaded, new, stored)` of `Checkout`,
  `OrderPayment`, `Tickets` and `OrderLines` (`Written` in `PhoneCodes`) is this
  rule; it is what makes some lost updates invisible and others real.
* **Autoflush.** A query first writes the pending changes of its session. From
  the flush to the end of the transaction the row is locked against other
  writers (`Locked` in `OrderPayment` and `PhoneCodes`, `Waits` in `OrderLines`),
  and the query sees the session's own uncommitted rows (`Found`, `Flushed`,
  `View`). An object the session already holds is not refreshed by a query
  (`Held` in `OrderLines`).

A fourth is about the answer: `get_db` commits after the handler has returned
and, with the pinned FastAPI, after the answer was sent. A handler that only
flushes has answered before its commit.

A handler that raises, whose client disconnects or whose server stops rolls
back (`get_db`, `database.py:19-27`). So each modelled request may end at any of
its `await`s with nothing written (`RequestEnds`, `JobInterrupted`).


## 2. Inventory of components

For each: state, operations, interactions, what is hard, what makes it correct.

### Back-in-stock alerts - modelled (`BackInStock`)

*State.* Table `NotifiedProducts`: one row per (user, variety), with
`is_removed` and `sms_response_date`; the unique index covers removed rows too
(`models/customer_content.py:36-54`). `Products.stock_quantity`.
*Operations.* Subscribe, unsubscribe (`notified_product_service.py:22-60`), the
hourly job `process_back_in_stock_notifications` (63-123), run by
`TimedHostedService` (`utils/common_works.py:226-258`) inside
`run_periodic_jobs` (`main.py:46-64`), and the staff's page that sends SMS by
hand (`admin_pages.py:6243-6270`).
*Hard.* The job reads once, awaits one sender per row, and commits once at the
end: rows change under it, and an interruption loses every mark but no message.
*Correct if* duplicates come only from interruptions, a marked row was tried,
and what is pending is eventually served.

### Checkout of the shop - modelled (`Checkout`, `OrderBook`)

*State.* The cart cookie (`cart_cookie_service.py`), the rows of `Orders` in
status `Ordering` (drafts) and their `OrderProducts`.
*Operations.* Cart calls; page loads of `/checkout`, which consolidate all
drafts of the user into one that holds the cart
(`order_service.py:462-577`), then set identity, address or delivery; the
payment step (`pay_ordering_order`, 580-601; `shop_pages.py:947-1003`); the
JSON API's `cart/checkout` (`create_order`); deletion by staff.
*Hard.* Two tabs of one customer; a payment step that overlaps a
synchronisation; a lost answer that leaves the cookie full; reference codes
computed from the committed maximum; totals written by `create_order` with a
discount and by every later page load without; an unchecked cookie whose lines
are skipped if they have no product id.
*Correct if* the customer has one draft with the lines of the cart, the payable is
the price of the stored lines and delivery, less a discount only where one was
granted, a placed order is complete and then final.

### Payment of an order - modelled (`OrderPayment`)

*State.* `Orders.order_status`, `payable`; `Receipts`; `PaymentRequests`;
`OrderStatusRecords`; and at the gateway, whether the payment is open, made or
verified.
*Operations.* The customer files a receipt (`shop_pages.py:2745-2866`); the
clerks confirm, reject or delete it (`admin_pages.py:4117-4232`); the gateway's
callback verifies or cancels a payment (`payment_service.py:122-246`); staff
set the status, edit the order, its lines and its payments
(`admin_pages.py:1864-1994`, 2353-2387, 2515-2568).
*Hard.* The handlers sum up money on rows others are writing; callbacks are
repeated and reordered; the gateway's answer is lost after it has verified.
*Correct if* success was verified, an order is accepted exactly when its amount
is confirmed, nothing judged is deleted, and the trail tells the status.

### Support tickets - modelled (`Tickets`)

*State.* `Tickets.status` (Open, Answered, Closed) and, of the messages, who
wrote the newest and how old it is.
*Operations.* Create, reply, close, and the hourly `close_stale_tickets`
(`support_service.py:114-323`; routes in `api/v1/tickets.py`, `shop_pages.py`,
`admin_pages.py`).
*Hard.* The job decides on messages it has read and closes at a later commit: a
reply in between is a fresh message in a closed ticket. A reply writes the
status it computed from the one it loaded, and may open a ticket that was closed
meanwhile.
*Correct if* the status tells who wrote last, the job closes only what is idle,
closed tickets stay closed, and no ticket stays stale for ever.

### Hourly round of the background task - modelled (`HourlyRound`)

*State.* Which part of the round is running; the two jobs have the rest.
*Operations.* `run_periodic_jobs` (`main.py:46-64`): stale tickets are closed and
committed, then the alerts are sent and committed, on one session; an error in
either part rolls back, ends the round and is swallowed by
`TimedHostedService._run` (`common_works.py:243-254`).
*Hard.* The parts are independent but share a session and a fate: an error among
the tickets keeps the alerts from being looked at.
*Correct if* the round serves each job as well as if it ran on its own.

### Lines of an order edited by staff - modelled (`OrderLines`)

*State.* `OrderProducts` with soft deletion, the unique index over order,
product and variety, the order's totals.
*Operations.* Create, edit, delete a line (`admin_pages.py:2128-2387`), each of
which sums up the order anew.
*Hard.* A removed line still occupies the index, and a line without a variety
does not; an edit looks for no other line of the product; a flush takes locks that
are held over awaits; the sum is over objects that another clerk's commit does not
refresh.
*Correct if* a product has one line per variety, a deleted line stays deleted, and a clerk who
is alone leaves the amount of the lines.

### JSON API cart - modelled (`ApiCart`)

*State.* A dictionary in the memory of the process (`order_service.py:159-175`),
one object per customer for all requests.
*Operations.* Add, change, remove, clear, show (`api/v1/cart.py`), and
`create_order` (`order_service.py:255-377`).
*Hard.* `create_order` reads the cart at three different awaits and empties it
before its commit; requests that loop over the cart while another changes it
fail; a restart loses the carts.
*Correct if* no piece is ordered twice, none is lost outside named mishaps, and
an order adds up.

### One-time codes of phone numbers - modelled (`PhoneCodes`), part of sign-in

*State.* Table `SmsCodes`; `phone_number_confirmed` of accounts and of addresses;
the texts on customers' phones.
*Operations.* `send_verification_sms` and `verify_sms_code`
(`auth_flow.py:124-214`) and their callers for accounts (`shop_auth.py`) and
addresses (`shop_pages.py:1255-1399`), and the edit of an address
(`shop_pages.py:1614-1721`), which takes the flag back.
*Hard.* The text is sent before the commit; two requests for one number; codes
that expire while another is asked for; a verification page whose number is never
compared with that of the address it confirms, and an edit of the number behind it.
*Correct if* the latest text has the code that counts, what is confirmed was
proved (an address by that very number, unless the customer went astray in a
named way), texts are few, and a code is refused to its owner only for a known
reason.

### The rest

Listed in section 9 with the reason why they are left out: warehouse, invoices,
catalogue, price updates, the rest of sign-in, content, chat, purchase orders,
wallet, export, migrations, templates and static assets.

### How they interact

    cart cookie --page load--> Checkout --placed order--> OrderPayment
    ApiCart ---create_order---> Checkout                      ^
    OrderLines ----------------------------- payable ---------+
    PhoneCodes --confirmed accounts and addresses--> Checkout
    warehouse, product forms --stock crosses zero--> BackInStock
    HourlyRound --closing, then alerting--> Tickets, BackInStock

`Checkout` ends where `OrderPayment` begins: an order whose status is
`AwaitingPayment`. The two share the row of `Orders`; the customer's handlers of
the first only touch rows in status `Ordering`, unless two requests of one
customer overlap (section 8). `ApiCart` is the inside of the step `ApiCheckout`
of `Checkout`, and `OrderLines` that of `Reprice` in `OrderPayment`. `BackInStock`
sees of the warehouse only the crossing of zero (`StockCrossesZero`), of any
products in either direction at any time, which is every behaviour of the stock.
`HourlyRound` composes two modules: it extends `BackInStock`, instantiates
`Tickets`, and is shown to implement the fair specification of each.


## 3. Modules and how they correspond to the code

| module | models | kind |
|---|---|---|
| `AlertLifecycle` | what the alerts promise about one subscription | abstract specification |
| `BackInStock` | alerts, the job, staff messages | detailed specification |
| `BackInStock_proofs` | theorems about it and about `HourlyRound` | proofs |
| `OrderBook` | what the checkout promises about orders | abstract specification |
| `Checkout` | cart, drafts, payment step | detailed specification |
| `Checkout_proofs` | theorems about it | proofs |
| `OrderPayment` | receipts, payments, status of one order | detailed specification |
| `OrderPayment_proofs` | theorems about it | proofs |
| `Tickets` | replies, closing, the job for stale tickets | detailed specification |
| `Tickets_proofs` | theorems about it | proofs |
| `HourlyRound` | the round of both background jobs | composition; implements `BackInStock!FairSpec` and `Tickets!FairSpec` |
| `PhoneCodes` | one-time codes and what they confirm | detailed specification |
| `PhoneCodes_proofs` | theorems about it | proofs |
| `OrderLines` | staff's edits of an order's lines | detailed specification |
| `OrderLines_proofs` | theorems about it | proofs |
| `ApiCart` | the cart in memory and the order made of it | detailed specification |
| `ApiCart_proofs` | theorems about it | proofs |
| `Sums` | that a sum over a finite set is a number, by induction over its subsets; used by the proofs of `OrderLines` and `ApiCart` | lemmas |
| `MCBackInStock`, `MCCheckout`, `MCOrderPayment`, `MCTickets`, `MCHourlyRound`, `MCPhoneCodes`, `MCOrderLines`, `MCApiCart` | instances for TLC | symmetry sets, functions for constants |

`map` in `PROJECT.json` gives for each definition the lines it models.
Definitions whose comment says "Mutant" are plausible bugs; each property is
violated when one of them takes the place of the definition after it.

### BackInStock

| TLA+ | code |
|---|---|
| `row[<<u, v>>]` | the row of `NotifiedProducts`: absent, live or removed |
| `smsDate` | rows with `sms_response_date` set |
| `job.todo`, `job.sent` | the list the job has loaded, split at the loop's position |
| `tries` | calls of the SMS sender for a row (history) |
| `Subscribe`, `Unsubscribe` | one step each; `Subscribe` only where there is no row: the insert meets the unique index on a live, a removed and a concurrently inserted row alike |
| `StockCrossesZero` | a movement, a product form, or the update of all products at once: any set of products |
| `StaffSendSms` | the loop of the staff's page in one step, with or without its commit |
| `JobWakes`, `JobSends`, `JobCommits` | the SELECT, one turn of the loop, the single commit |
| `JobInterrupted` | shutdown or database error: rollback, the next round starts over |

The senders' answers are dropped by the code, so the model has none. Every user
has a phone number (`identity.py:20`, NOT NULL), so each turn of the loop calls
the SMS sender. The commit writes the one column the job assigns; a row removed
meanwhile stays removed (the mutant `JobCommitsWholeRow` is the other way).

### Checkout

| TLA+ | code |
|---|---|
| `orders[o]` | a row of `Orders` with its `OrderProducts`; ids are given out in the order of `Order.date` |
| `orders[o].rows` | the `OrderProducts` rows: a line and the stamp of the commit that wrote it |
| `Bill`, `Price`, `quoted` | what the payable is computed from: lines with multiplicity, the delivery, and whether a discount is taken off |
| `discount` | that the discount columns hold one: only `create_order` sets them, no page load clears them |
| `emptied` | history: the last synchronisation of the order left it without a row |
| `cookie[u]` | lines in the cart cookie; those in `Valid` have a product id |
| `req[t]` | a request in flight: the object it has loaded (`order`), the leftover drafts it read (`extras`), the items it carries |
| `OpenDraft`, `ReadDrafts`, `BeginDraft` | the three branches of `sync_ordering_order_from_cart` up to its writes |
| `GenerateCode`, `CreateCommits` | `_generate_reference_code`; the insert under the unique index on the code, with the discount an API call was granted |
| `Written` | `_set_order_products_from_cart`, which skips items without a product id |
| `SyncCommits` | hard deletion of leftover drafts, replacement of the rows read by those written (perhaps none), totals recomputed without discount, commit |
| `NextStage` | what follows the commit: nothing for an API call, a redirect for an order without lines, else the page's parameter |
| `ApplyIdentity`, `ApplyAddress`, `ApplyPost` | the page's parameter, applied to the object the session still holds |
| `ReadForPayment`, `PayCommits` | checks, then the status; `arrives` tells whether the browser gets the answer that empties the cookie |
| `RequestEnds` | refused writes, lost connections, stops, and page loads without a parameter |

Abstractions. A line is a (product, variety) pair; price and quantity are
left out, and `Price` stands for the amount computed from them: two amounts are
equal if their bills are and either both or neither are less a discount. How much a
discount is, is left out. The identity column is left out as well, since no step
reads it: the payment step asks for address and delivery only. Rows carry a `Stamp` because the deletion of rows is by
the ids the request has read, so a row written by another request survives it;
`NewStamp` reuses a stamp only when no row or pending deletion has it. Reads of a
request before its first write are one step: what it reads is its user's drafts,
and the interleavings that matter are between these reads and its writes. With
`Overlap = FALSE` a user's cart calls wait for the user's request in flight, as
for a customer with one tab; requests of different users always interleave.
The cart calls put any text into the cookie as a product id. A line whose text is
no id is outside `Valid`; a cart of nothing but such lines is synchronised into an
order without rows, which is committed before the page redirects. A well-formed
id of a product that does not exist violates a foreign key, one of the refused
writes of `RequestEnds`, as is a parameter that is not the customer's.
`SyncCommits` fails when a row of the same line stays
(`NoDuplicate`); the index is blind to NULL varieties, hence `Bare`.

### OrderPayment

The handlers of one order share no rows with those of another, so the module
follows a single order.

| TLA+ | code |
|---|---|
| `order`, `receipts`, `payments` | the rows of the order, soft deletion included |
| `trail` | the status of the newest `OrderStatusRecord` |
| `gateway[p]` | what the payment provider knows (external) |
| `req[t]` | a request: what it read (`was`, `seen`, `payable`) and the status it has decided on (`verdict`) |
| `RegisterReads`, `RegisterSums`, `RegisterCommits` | `profile_register_receipt_submit`: the order read, the two sums after the autoflush, the commit |
| `ConfirmReads`, `ConfirmDecides`, `ConfirmCommits` | `admin_receipt_confirm`: receipt read; flush, order read and sum; commit |
| `RejectReads/Commits`, `DeleteReads/Commits` | the two other clerk handlers |
| `CallbackReads`, `GatewayAnswers`, `AnswerDecides`, `CancelDecides`, `CallbackCommits` | `verify_payment`, split at the gateway's answer and at the flush |
| `StatusReads`, `FormReads`, `StatusCommits` | the status handlers (with a record) and the edit form (without) |
| `Reprice`, `DeleteOrder`, `EditPayment`, `DeletePayment` | staff edits, one step each |

`Found` is the code's query as it runs: `Receipt.id != receipt.id` is built while
`receipt.id` is still `None`, which SQLAlchemy turns into `IS NOT NULL`, and the
autoflush inserts the new receipt before the query. The new amount is
therefore counted twice (section 8). `Succeeded` counts payments in status
Success. Online payments are rows taken over from the former shop:
`payment_request` inserts without mandatory columns, which the database refuses,
so it never adds a row. A receipt of the whole amount makes the order
`NeedsToBeChecked`, since it is counted twice; `ConfirmDecides` leaves an order
in that status alone, as the code does.

`ManyClerks` and `Overlap` say how far requests overlap, since what holds depends
on it. Both are what the environment does, not part of the code.

### Tickets

| TLA+ | code |
|---|---|
| `status[k]` | `Tickets.status`; `none` before the ticket is created |
| `lastBy[k]` | `is_admin` of the newest message; a new ticket's description is the customer's |
| `idle` | tickets whose last activity is older than `STALE_TICKET_DAYS` |
| `req[t]` | a request: the ticket it has loaded, the status it saw, what it does |
| `Begin` | `get_ticket_by_id` |
| `ReplyCommits`, `CloseCommits` | `reply_to_ticket`, `close_ticket` and the commit of their routes |
| `JobLists`, `JobWeighs`, `JobCommits` | the two queries of `close_stale_tickets` (tickets, then their messages) and the commit in `run_periodic_jobs` |
| `RequestEnds`, `JobInterrupted` | empty messages, refused attachments, errors, lost connections, shutdown |

A session writes a column only if the assignment changed the loaded value
(`Assign`), so a reply to a ticket that was `Open` when loaded and is closed
meanwhile writes `Answered` if it is staff's and leaves the status alone if it
is the customer's. Such races exist for every pair of handlers. Instead of
excluding them by an assumption on customers and staff, the module remembers in
`contended` the tickets two handlers were ever at work on at one time; the safety
properties are about the others. Category, priority, attachments and the text
are left out; tickets are never removed (no handler sets `is_removed`).

### HourlyRound

| TLA+ | code |
|---|---|
| `round` | where `run_periodic_jobs` is: asleep, closing tickets, sending alerts |
| `HourPasses` | the sleep of `TimedHostedService._run` |
| `Closes`, `ClosingEnds` | `close_stale_tickets` up to its last query; its commit, or nothing to close |
| `Alerts`, `AlertsEnd` | `process_back_in_stock_notifications`; its commit, or nothing pending |
| `RoundFails` | the rollback and the error that `_run` swallows; also a shutdown |
| `Requests` | the customers and staff of both modules, at any time |

The steps are those of `BackInStock` and `Tickets`; the round only says whose turn
it is. The refinement is `Spec => FairSpec` of each component: its safety part
holds because the round adds no step, its fairness part because a round always
comes to each job again, whatever cut short the rounds before.

### OrderLines

| TLA+ | code |
|---|---|
| `lines[l]` | a row of `OrderProducts` of the order, removed rows included |
| `total` | the amount in the row of `Orders`; price, discount, tax and count are sums over the same lines |
| `req[t]` | a request: its line as loaded (`old`) and as assigned (`row`), the other objects its session holds (`known`), the amount as loaded and as summed |
| `Init` | an order as the shop has placed it: live lines, none of them a product and variety on two lines, and their sum |
| `Bare` | products without varieties: their lines have a NULL `VarietyId`, which the unique index does not compare |
| `BeginCreate`, `BeginEdit`, `BeginDelete` | the three handlers up to their first write; adding refuses a bare product and looks for a live line, editing does neither |
| `PriceOn` | the catalogue's price of the variety, or the price the line has if there is none |
| `Flush`, `FlushRefused` | the insert or update, which waits for locks and for an index entry that is not committed (`Waits`), or is refused by the index |
| `SumUp` | the SELECT of the live lines, and the sum over the objects the session has of them (`Held`) |
| `Commit`, `Fail` | the changed columns only (`Assign`); rollback |

The order the handlers load things in differs, and matters: adding a line loads
the order with all its lines before it flushes, so `known` is what the lines were
at the beginning; an edit or a deletion flushes first. A line keeps its place in
the unique index when it is removed, so an item that was deleted from an order
can never be added to it again (`IndexRefuses` counts removed rows). A bare product
can be on any number of lines: the shop may place an order so, and an edit may
put a line on it that is not the only one. Left out:
discount and tax, which are summed up over the same lines, and drafts whose lines
the customer's synchronisation replaces at the same time (`Checkout` has those).

### ApiCart

| TLA+ | code |
|---|---|
| `cart` | `_carts[user]`: pieces of each item; a line is an item with pieces |
| `ordered` | the lines of committed orders, summed by item |
| `top` | the largest committed reference code |
| `added`, `wanted`, `mishap` | history: what was put in, what of it was not taken out, and whether pieces were lost in a way the code accepts |
| `req[t].size` | `len` of the dictionary when the loop began, which Python checks at each turn |
| `AddToCart`, `RemoveFromCart`, `UpdateCartItem`, `ClearCart` | the change, in one go, and the beginning of the loops that make up the answer |
| `Checkout`, `LoopEnds`, `ReadCode`, `FlushOrder`, `FlushLines`, `CommitOrder` | `create_order` at its awaits: the loop, the totals, the code and the count, the lines, the emptying, the commit |
| `CodeTaken`, `CodeInserted` | the unique index on the reference code: a committed row refuses, an uncommitted one makes the insert wait |
| `Fail`, `Restart` | an exception or a lost connection; the end of the process |

Nothing in the code keeps a customer from checking out twice at once. That the
second order cannot have the same pieces is due to the reference code: both
compute the same, and the second insert waits for the first and fails. A loop
over a cart whose number of lines has changed ends with `RuntimeError`; one
whose lines were exchanged for as many others does not. Prices are equal and discounts
left out, so that an amount is a number of pieces. `Looping` over an empty cart
awaits nothing and is no request in flight.

### PhoneCodes

| TLA+ | code |
|---|---|
| `sms[r]` | a committed row of `SmsCodes`: phone, code, owner; `r` is the code it was inserted with |
| `issued`, `expired` | codes in the order they are generated, which is that of `insert_date`; a prefix of them has outlived `SMS_TTL` |
| `texts`, `last` | history: what the sender was given, and the latest of each number |
| `excused` | history: codes made while another request for the number was at work, and codes that were rolled back |
| `accounts`, `address` | `phone_number_confirmed` of users and addresses, and the address's number |
| `astray` | history: customers who entered a code for another number than their address had, or edited the address while a verification of it was at work |
| `AskForAccount`, `AskForAddress`, `Resend` | the callers of `send_verification_sms` |
| `NewCode` | `_check_sms`: no row, an expired row, a fresh row |
| `Flush`, `SendText`, `CommitCode` | the write and its lock, the awaited sender, the commit |
| `EnterForAccount`, `EnterForAddress`, `Accepted` | `verify_sms_code` and its callers |
| `LoadAddress`, `Edited`, `CommitEdit` | `profile_address_edit_submit` |

A user enters only codes that were sent to the number. Mail and SMS gateways,
masking and timers are left out. `Rows(p)` may have two members: two first
requests at once each insert a row (no unique index), and from then on the newest
counts. A row keeps its first owner when another user of the same number has it
renewed; the code is then refused to the user who received it, which
`OwnCodeIsAccepted` shows to be the only such case. The verification page and the
link for another code carry the phone number and the id of the address in the
request, and no handler compares the two: `Resend` and `EnterForAddress` take any
number for any address, whatever the page was opened for. A customer does nothing
odd to get there: the browser's Back after an edit suffices. `astray` remembers
who did, and `ConfirmedWasProved` says what holds of everyone and what of the others.


## 4. Runs

| run | bound | shows |
|---|---|---|
| `alerts` | 2 users, 1 variety, 2 interruptions | `TypeOK`, `DuplicatesOnlyFromInterruptions`, `MarkedWasTried`, the refinement `ImplementsLifecycle`, and under fairness `PendingIsServed` |
| `checkout_serial` | 2 users (one with the API), 2 lines of which one has a product id, 2 orders, one request at a time | `OneDraftEach`, `PayableMatchesLines`, `SyncConsolidates`, and the refinement `ImplementsOrderBook` |
| `checkout_overlap` | 1 user with 2 requests in flight, 2 lines of which one has a product id, 2 orders, no API orders and no deletions | `TypeOK` and `PlacedComplete`, whatever overlaps |
| `payment_receipts` | 3 receipts, amounts 1 and 2, 2 requests, one clerk at a time | `AcceptanceIsCovered`, `DeletedWasUnjudged` |
| `payment_trail` | 2 receipts, 1 payment, 2 staff statuses, one request at a time | `TypeOK`, `SuccessWasVerified`, `TrailTellsStatus` |
| `tickets` | 2 tickets, 2 requests, 1 interruption | `TypeOK`, `StatusTellsAuthor`, `ClosedWasIdle`, `ClosedStaysClosed`, and under fairness `StaleIsClosed` |
| `round` | 1 subscription, 1 ticket, 1 request, one interruption of each part | `RoundTypeOK`, and that the round implements the fair specification of each job: `ServesAlerts`, `ServesTickets` |
| `lines` | 2 clerks, 2 lines, 3 items of which one has no variety, counts 1 and 2 | `TypeOK`, `OneLinePerItem`, `AloneIsRight`, `RemovedStaysRemoved` |
| `carts` | 2 requests of a customer, 2 items, 2 pieces each, 2 orders | `TypeOK`, `NoPieceTwice`, `NothingLost`, `OrderAddsUp` |
| `codes` | 2 users, 1 address, 2 numbers, 2 requests, 3 codes | `TypeOK`, `LatestTextCounts`, `ConfirmedWasProved`, `TextsAreFew`, `OwnCodeIsAccepted` |
| `payment_half` | violation | `PaidIsCovered` |
| `payment_canceled` | violation | `SuccessIsNotCanceled` |

What the passing runs say:

* **alerts.** `DuplicatesOnlyFromInterruptions` bounds the calls of the sender by
  one plus the number of interrupted rounds, whatever customers and staff do
  meanwhile. `MarkedWasTried` relates the mark in the database to the history of
  calls: the commit writes marks for the rows the loop went through, not for
  those that match the query by then.
* **checkout_serial.** `OneDraftEach` and `SyncConsolidates` are the docstring's
  "consolidate any leftover 'Ordering' orders into a single one", for users
  without and with API orders; the one draft has a row for each line of the cart with
  a product id and no other. `PayableMatchesLines` holds between any two
  handlers although five of them write the totals: the payable is of the stored
  goods and delivery, and less than their price only in an order that was begun with
  a discount. The refinement says more: an order goes from nothing to draft to
  placed, is placed only when it lists goods and can be delivered, never changes
  afterwards, its payable is never that of other goods, and a discount once dropped
  never returns.
* **checkout_overlap.** `PlacedComplete` survives every overlap: what the payment
  step checked on its loaded object can be replaced before its commit, but a
  synchronisation never writes back the old address or delivery (it assigns
  neither). The rows may go: only by a synchronisation of a cart without any product
  id, which the property names (`emptied`).
* **payment_receipts.** Any number of customer requests may interleave with the
  clerk: `AcceptanceIsCovered` is an equivalence at each confirmation.
* **payment_trail.** Seven handlers write statuses and records; between any two,
  they agree. OK and NOK callbacks come in any order and number, with lost answers
  of the gateway and staff edits in between; that callbacks overlap is left to
  the theorem `SuccessVerified`.
* **tickets.** The three safety properties hold of a ticket until two handlers
  are at work on it at once, whatever happens to the other tickets of the same
  job transaction. `StaleIsClosed` has no such condition: a ticket that is open
  and idle is closed or written into, however often it is contended.
* **round.** The two jobs are checked alone in `alerts` and `tickets`; here, that the
  shared session and the shared error path take nothing away from either.
  Fairness is assumed of the round alone; that of each job follows.
* **lines.** `AloneIsRight` is what the code keeps of the relation between the
  amount and the lines: two clerks at once may leave a wrong amount, and the next
  one who is alone repairs it. `OneLinePerItem` and `RemovedStaysRemoved` hold whatever
  overlaps; the former is about products with a variety, and says that the index does
  what the edit handler leaves undone.
* **carts.** `NoPieceTwice` compares the history of additions with orders and cart in
  every interleaving; `NothingLost` names the mishaps: a change of the cart between the
  reading of the lines and the emptying, and a process or transaction that dies between emptying
  and commit. `OrderAddsUp` is about orders whose cart stayed the same; without
  that condition it fails, down to an order without lines.
* **codes.** The properties relate what was sent, what is stored and what is
  confirmed, which three different requests write. `ConfirmedWasProved` holds of
  accounts without a condition, and of every confirmed address in that its owner has
  proved some number; that it was the address's own holds of customers who are not
  astray, through any order of edits, resent codes and verifications. `TextsAreFew` says of each code by
  itself what excuses a second text (`excused`): an overlap when it was made, or a
  rollback afterwards.

Assumptions can be lifted in the cfgs to see that they are needed:
`PayableMatchesLines`, `OneDraftEach` and `ImplementsOrderBook` fail with
`Overlap = TRUE`, and `DeletedWasUnjudged` and `AcceptanceIsCovered` with
`ManyClerks = TRUE` (a receipt confirmed between the check of the deletion and
its commit; two confirmations that each miss the other's receipt).


## 5. Bounds, and why they are enough

* `MaxInterruptions = 2`: two interrupted rounds and one that completes show
  that every interruption adds at most one message.
* `MaxOrders = 2`: drafts are told apart only by being the newest or not; two
  orders are a leftover and a current one, or a placed one and the next draft.
  The API run has both channels fill the same table.
* Two lines, one `Valid` and one not: a cart that fills an order, one that empties it,
  and one of both. Both are `Bare`, so that the index, which refuses writes, does not
  hide an interleaving. `Removable` and `ApiUser`: deletions by staff and API
  orders are in `checkout_serial`; with them `checkout_overlap` would exceed the time
  of a run, and the theorem `PlacedCompleteHolds` has them. `Stamp` needs two values
  when two requests write rows of one order, else one.
* Two tickets and one interrupted round: the job's transaction spans both, one
  of them contended and the other not.
* Two request slots: the hazards found are between a reader and one writer.
  Three slots exceed the time of a run and are covered by the theorems, which
  hold for any set.
* Three receipts with amounts 1 and 2 against a payable of 1 or 2: below, equal
  and above the amount, by one receipt and by several.
* One payment: payments interact only through the sum and the order's status.
* `round`: one subscription and one ticket, since either job is checked with two
  elsewhere; one interruption of each part, so that a round fails in either part,
  in both orders, and the next one completes.
* `lines`: two lines and two items with varieties make a duplicate, a removed line in
  the way and an exchange of items possible, and a bare item what the index does not
  see; one price and two counts tell amounts apart.
* `carts` (`MaxPieces = 2`, `MaxOrders = 2`): a piece that is in an order and one that
  comes later; two orders compete for one code and follow each other.
* `codes` (`MaxCodes = 3`): a code, its successor in the same row
  and one of a second row; a request that is rolled back after its text. Two users
  share a number through the address of one of them. Two requests may generate
  their codes in one order and flush in the other, so that an older code replaces a
  newer one and the row expires early; how many texts come of several such
  overlaps in a row takes more codes than the run has. `TextsAreFew` therefore
  names the codes that are excused instead of counting them, and the theorem
  `FewTexts` shows it for any number of codes.

`Tab`, `Slot`, `Stamp`, `Receipt`, `Payment`, the items with a variety and the `Line` of
`OrderLines` are symmetric; runs with a liveness property use no symmetry.


## 6. Fairness

`BackInStock` and `Tickets` state fairness: `WF_vars(Job)`, for the two halves of
`run_periodic_jobs`. `TimedHostedService._run`
loops until the process ends and catches every error of a round
(`common_works.py:243-254`), so a round that can start does, and a started one goes on:
each `await` in it ends, with an answer or an error. Interruptions are bounded
by `MaxInterruptions`; a server that is stopped for ever serves nobody. Nothing
is assumed of customers, staff, or of the gateway.

`HourlyRound` justifies the two: it assumes `WF_allVars(Round)`, that the hour passes
and a started round goes on, and shows `WF_vars(Job)` of each job although a
round that fails in its first part never reaches the second.

The other modules have no liveness property: every request may end without a
commit, and nothing in the code tries again.


## 7. What is proved

By TLAPS, for every value of the constants that satisfies the named
assumptions (`ProductOfType`, `UsersType`, `PricesType`, ...), that is for any
number of users, lines, receipts, payments and requests in flight.

| theorem | assumption on the environment |
|---|---|
| `BackInStock_proofs!TypeCorrect`, `DuplicatesBounded`, `MarkedHonest`, `Refinement` | none |
| `BackInStock_proofs!RoundTypeCorrect`, `RoundIsAlerts`, `RoundIsTickets`, `RoundKeepsAlerts`, `RoundKeepsTickets` (about `HourlyRound`) | none |
| `Checkout_proofs!TypeCorrect`, `PlacedCompleteHolds` | none |
| `Checkout_proofs!PayableMatches`, `OneDraft`, `Consolidation`, `CheckoutImplementsBook` | requests of one user do not overlap |
| `Tickets_proofs!TypeCorrect`, `TellsAuthor`, `JobClosesIdle`, `ClosedForGood` | none (the properties are about tickets that are not contended) |
| `OrderPayment_proofs!TypeCorrect`, `SuccessVerified` | none |
| `OrderPayment_proofs!DeletedUnjudged` | staff work one at a time |
| `OrderPayment_proofs!AcceptanceCovered` | staff work one at a time; no callback has decided while a confirmation has (`Apart`) |
| `OrderPayment_proofs!AcceptanceCoveredOffline` | staff work one at a time, no online payments |
| `OrderPayment_proofs!TrailTold` | no edit form; no two requests hold on to a status at a time (`OneHolds`) |
| `OrderPayment_proofs!TrailToldAlone` | no edit form; one request at a time |
| `OrderLines_proofs!TypeCorrect`, `OneLineEach`, `DeletedForGood` | none (`OneLineEach` is about products with a variety) |
| `OrderLines_proofs!AlonePutsRight` | none (the property is about requests that are alone) |
| `PhoneCodes_proofs!TypeCorrect`, `LatestCounts`, `OwnCodeAccepted` | none |
| `PhoneCodes_proofs!FewTexts` | none (overlaps and rollbacks are named in the property) |
| `PhoneCodes_proofs!ConfirmedIsProved` | none (who went astray is named in the property) |
| `ApiCart_proofs!TypeCorrect`, `PiecesOrderedOnce`, `PiecesAccounted`, `OrdersAddUp` | a finite set of items; the mishaps and the steady cart are named in the properties |
| `Sums!SumType` | - |

The inductive invariants, and why the property alone is not inductive:

* **Alerts** (`TriesBounded`, `SentWasTried`, `OnlyAskedFor`). A commit marks
  `job.sent`, so the invariant says that each row in `job.sent` was tried, and that a
  key neither marked nor sent in this round has at most as many tries as there
  were interruptions: a round adds one try, and then marks the row or is itself an
  interruption. Marks and messages belong to rows that exist.
* **PlacedComplete** (`PayingReady`, `InsertsDraft`, `IdsAreNew`). It is about stored
  orders, but what makes a placed order complete is what a request in flight has
  seen: the invariant states of each payment request that its stored order (if
  still there) has an address, a delivery, and rows unless it was emptied, and of
  each insert that it is a draft with an id of its own, so that it replaces no order
  that was found complete. That this stays so through every other step is shown step
  by step (`ReadyStable`).
* **PayableMatchesLines, OneDraftEach, refinement** (`OneByOne`, `UpToDate`,
  `LeftoversAreDrafts`, `BeginsAlone`, `SeesAllDrafts`). While a user's requests do
  not overlap, what a request has loaded is still what is stored: the invariant
  ties each request's object to the stored row, each request's `extras` to the
  other drafts of its user, and says that two requests never belong to one user.
  The refinement maps an absent order to `none`, an insert to `Begin`, with a discount
  or without, and a synchronisation to one `Redraft` step that drops the leftover
  ones.
* **SuccessWasVerified.** A callback carries its verdict from the gateway's
  answer to its commit, so the invariant (`Reports`) says of every request in
  flight that a verdict of success was the gateway's, and that a cancellation
  never reports success; that the gateway never forgets is the other half.
* **DeletedWasUnjudged, AcceptanceIsCovered.** With one clerk at work, the
  receipt it has read is still as it read it (`Known`), and what it has summed up
  is still the sum (`Weighed`), although customers keep filing receipts: a new
  one is not confirmed and hence not in the sum. `AcceptanceCovered` admits online
  payments: a callback may read, ask the gateway and commit at any time but between
  a clerk's sum and its commit. That hypothesis is about behaviours
  (`Spec /\ []Apart`), and satisfiable: the run's own behaviours, and those
  in which the two are served one after the other, meet it. Without it the property is false,
  since a payment may be recorded or canceled after the clerk's sum (TLC shows it with one receipt and one payment).
* **TrailTellsStatus** (`Current`). Status and record are written together, but the
  decision is made on a status that was read earlier. The invariant says that what a
  request holds on to is still the status, which is kept as long as only one request
  at a time holds on to one (`OneHolds`): reads before a decision, gateway calls,
  refusals and deletions of receipts may overlap with it and with each other. The edit
  form writes a status without a record, hence `FormStatus = {}`, as in the run.
* **Tickets.** What a reply writes depends on the status it has seen, so the
  invariant (`Quiet`) says of a ticket that is not contended that at most one
  request is at work on it, that what it has seen is stored, that the job has not
  listed it, and that what the job is going to close is still idle. `contended`
  makes this inductive: the second handler to touch a ticket takes it out.
* **OrderLines** (`NewIsNew`, `OldIsThere`, `Apart`, `PlacesFree`). Uniqueness of committed
  lines, of products with a variety, depends on requests that have flushed and not committed: each holds a line
  and an item that nobody else holds (`Apart`), and an item it is going to place
  is still on no other line (`PlacesFree`), since whoever commits meanwhile places a
  different one or leaves the item of a line as it was. For `AloneIsRight`, `AloneKnows`
  says that what a lonely request has loaded is what is stored and that, once
  flushed, its session's objects are the rows of its commit.
* **ApiCart** (`CodesAreNext`, `OneInserts`, `PiecesLast`, `Accounted`). A code was the next
  one when it was read; one that is inserted still is, so one request at a time
  is between its insert and its commit (`OneInserts`). That request's lines and the cart
  share the pieces that are not ordered yet: before the emptying the lines are
  pieces of the cart, afterwards they are next to it (`PiecesLast`, `Accounted`).
  For `OrderAddsUp`, `AddsUp` says at each stage what has been read of the cart, while
  the cart stayed the same; that the cart is not empty comes from the size the
  loop began with.
* **ConfirmedWasProved** (`Owned`). What a commit writes into an address depends on
  what the request loaded, so the invariant says of each request in flight that
  its owner has proved some number, which is that of the address unless the customer is
  astray, and that an address confirmed by now was confirmed when an edit of it was
  loaded, again unless astray (`Behind`). An edit and a verification of one customer at
  work at the same time make the customer astray (`Overlap`), whichever began first.
* **LatestTextCounts, OwnCodeIsAccepted** (`CodesApart`, `LocksHeld`, `Texted`, `Latest`).
  The latest text belongs to a request that is about to commit its code or to a
  code in a row (`Latest`), and a request that has sent its text never replaces the
  code of a later one, because the flush before the text locks the row
  (`LocksHeld`). No code is in a row before its text is out (`Texted`), and the first
  text of a row went to the owner the row keeps.
* **TextsAreFew** (`Spaced`). A code that is fresh and not excused keeps further ones
  away: it is at work itself, or some row of its number has it or a later one, so
  that a new request finds a fresh code and does not generate. What else is at work
  for the number has a later code, and is excused unless it is the same. That the newest row
  need not be the one the code was made for is why the invariant speaks of some row.
* **The hourly round.** `RoundIsAlerts` and `RoundIsTickets` are the safety parts of
  the two refinements, step by step: whatever ends a round, its steps are steps or
  stutters of each job. What is proved of the jobs on their own therefore holds in
  the round (`RoundKeepsAlerts`, `RoundKeepsTickets`), and needs no proof of its own.
* **Types with sums.** An amount is the sum of a function over a finite set, which the
  library defines by recursion through CHOOSE. `Sums` shows that the recursion has a
  solution over all subsets of the set and that a sum of natural numbers is one, by
  induction over the subsets: the set of those that have the property is a constant of the
  lemma `SubsetInduction`, so no operator is passed to it. `Typed` of
  `OrderLines_proofs` adds that an order has finitely many lines, `Typed` of
  `ApiCart_proofs` that no request has a code beyond the bound of orders.

Only model-checked: `PendingIsServed` and `StaleIsClosed`, and of `ServesAlerts` and
`ServesTickets` the fairness part: liveness under fairness is outside the
prover's reach. Every other property of a passing run is stated by a theorem. Where a
theorem has a hypothesis on the environment, the run makes the same assumption or a stronger one
(by its constants or its number of slots). The violated properties of section 8 are
TLC's alone. No module has a RECURSIVE operator.


## 8. Disagreements found

Two runs state what the repository says of the program, and TLC finds it violated
by what the code does; `findings` in `PROJECT.json` quotes the lines.

* **Half the amount makes an order Paid** (`payment_half`). The new receipt is summed
  up twice.
* **A late NOK callback cancels a verified payment** (`payment_canceled`).

Others show when a condition of a passing run is lifted, or follow from the
model as it is:

* A removed subscription blocks a new one: the lookup ignores removed rows, the
  unique index does not (`Subscribe` needs an absent row). In the same way a
  removed line blocks its item (`OrderLines`).
* With two tabs, a synchronisation in flight writes into an order that was placed
  meanwhile (`ImplementsOrderBook` with `Overlap = TRUE`). If the cart has lines without
  a product id only, the placed order is left without goods (`PlacedComplete` without
  `emptied`).
* A discount of an API order is in the payable until the customer opens the checkout
  pages: the first synchronisation or choice of delivery that commits computes the
  payable without it, while the discount columns keep it (`PayableMatchesLines` with
  `<=>` for `=>`).
* An address can be confirmed with a code for another number, in one tab
  (`ConfirmedWasProved` without `astray`).
* Staff may not add a product twice, nor one without varieties, but an edit can put
  one without varieties on a second line (`OneLinePerItem` without `Bare`).
* Of two confirmations at once neither may see the whole amount, and the order is
  never accepted (`AcceptanceIsCovered` with `ManyClerks = TRUE`).
* An API order can be committed without lines if the cart is emptied between its
  total and its lines (`OrderAddsUp` without `steady`).
* Of two users with the same number, one is refused the code sent to them
  (`OwnCodeIsAccepted` without its second half).


## 9. What is not modelled, and why

* *Warehouse.* A movement is one read-modify-write of `stock_quantity`, next to edits
  of the same column by hand and by the update of all products; nothing in the
  code relates the stock to the sum of its movements, so there is no property to
  state. `BackInStock` has the crossing of zero.
* *Invoices.* `create_invoice` fails on a mandatory column in every call, so the
  component never leaves its initial state. The tax client is pure I/O.
* *Wallet.* Charging the wallet on confirmation fails on a foreign key, and
  creating a receipt through the API on its column types; neither ever commits.
* *Catalogue, search, content, blog, SEO, localisation, chat, purchase orders.*
  Reads and edits of independent rows, without a property that relates two.
* *Price updates by exchange rate.* One transaction over all varieties.
* *The rest of sign-in and identity.* Passwords, tokens and captchas are checks
  within one request; access rules are guards that the modelled handlers take as
  given. The JSON API has a sign-in of its own over the same table, which is left
  out. Staff who change the number of an account leave its flag as it is
  (`identity_service.py:113`), which no line of the code promises otherwise.
* *Export, PDF, Excel, templates, migrations, seeds.* Output and one-time scripts.
* *Static assets.* The JavaScript under `src/app/static`, some 113,000 lines, is
  themes and libraries (jQuery, datatables, editors, the front office of another
  shop system) that the pages load; the program proper is Python, some 29,000
  lines. None of the JavaScript is modelled.
* Inside modelled components: the hand-edited history of status records
  (`admin_pages.py:2713-2739`), paper invoices, status changes by staff in
  `Checkout` (they are in `OrderPayment`), the foreign keys from receipts and
  payments to drafts, the browser's order of cookies, the wording of messages.


## 10. Plan

Done: the path of an order (`Checkout`, `OrderPayment`, `OrderLines`, `ApiCart`), the
background task (`BackInStock`, `Tickets`, and `HourlyRound` over both), and the codes that
confirm phone numbers (`PhoneCodes`), with runs and mutants; every safety
property and every refinement of them is proved.

Left, by importance:

1. An abstract order life over `Checkout` and `OrderPayment` together, with the
   foreign keys from receipts to drafts that keep a draft from being dropped.
2. More about sums, along the induction of `Sums`: that a sum changes by what one entry
   changes by. With it the relation between an order's amount and its lines could be
   shown line by line.
