------------------------------- MODULE ApiCart --------------------------------
(***************************************************************************)
(* The cart of the JSON API, of one customer, and the order made of it.    *)
(*                                                                         *)
(* The cart is an object in the memory of the one server process, shared   *)
(* by all requests of the customer.  A request changes it at once; then,   *)
(* or before the order is made, it loops over the lines and awaits the     *)
(* product of each, and Python ends the loop with an error if the number   *)
(* of lines has changed meanwhile.                                         *)
(*                                                                         *)
(* A checkout reads the cart three times, at different awaits: for the     *)
(* total, for the count and for the lines of the order.  It empties the    *)
(* cart before its transaction commits.  Two checkouts may be at work at   *)
(* once; the unique reference code lets one of them insert its order at a  *)
(* time, and refuses a code that was read too early.                       *)
(*                                                                         *)
(* All products cost the same: an amount is a number of pieces.            *)
(***************************************************************************)
EXTENDS Naturals, FiniteSets, Functions

CONSTANTS
    Item,       \* products and varieties: the keys of the cart
    Slot,       \* how many requests of the customer run at the same time
    MaxPieces,  \* bound: pieces of an item ever added
    MaxOrders   \* bound: orders committed

ASSUME BoundsType == MaxPieces \in Nat /\ MaxOrders \in Nat
ASSUME ItemFinite == IsFiniteSet(Item)

VARIABLES
    cart,     \* the pieces of each item in the cart; 0 if it has no line
    ordered,  \* the pieces of each item in the lines of committed orders
    top,      \* the largest committed reference code
    added,    \* the pieces of each item ever put into the cart
    wanted,   \* what is left of them by the customer's own removals
    mishap,   \* whether the cart was changed as an order's lines were written,
              \* or lost with the server or the transaction
    req       \* what each request slot is doing

vars == <<cart, ordered, top, added, wanted, mishap, req>>

Pieces == [Item -> Nat]
None == [i \in Item |-> 0]

Idle == [pc |-> "idle"]

\* A request at work: the loops it has to run, the number of lines this one
\* began with, what it has read of the cart, and whether the cart has stayed
\* the same from the total to the lines.
Request == [pc : {"loop", "totalled", "coded", "lined", "cleared"},
            checkout : BOOLEAN, loops : 1..2, size : Nat, total : Nat, count : Nat,
            code : Nat, lines : Pieces, steady : BOOLEAN]

TypeOK == /\ cart \in Pieces
          /\ ordered \in Pieces
          /\ top \in 0..MaxOrders
          /\ added \in Pieces
          /\ wanted \in Pieces
          /\ mishap \in BOOLEAN
          /\ \A t \in Slot : req[t] \in {Idle} \cup Request

Init == /\ cart = None
        /\ ordered = None
        /\ top = 0
        /\ added = None
        /\ wanted = None
        /\ mishap = FALSE
        /\ req = [t \in Slot |-> Idle]

-----------------------------------------------------------------------------
At(t, pc) == req[t].pc = pc

Size(c) == Cardinality({i \in Item : c[i] > 0})

\* A loop over an empty cart awaits nothing: the request is answered at once.
Looping(checkout, loops, c) ==
    IF c = None THEN Idle
    ELSE [pc |-> "loop", checkout |-> checkout, loops |-> loops, size |-> Size(c),
          total |-> 0, count |-> 0, code |-> 0, lines |-> None, steady |-> TRUE]

\* What the other requests are left with when the cart becomes c.
Disturbed(u, c) == IF (At(u, "totalled") \/ At(u, "coded")) /\ c # cart
                   THEN [req[u] EXCEPT !.steady = FALSE] ELSE req[u]

Become(t, session, c) ==
    /\ cart' = c
    /\ req' = [u \in Slot |-> IF u = t THEN session ELSE Disturbed(u, c)]

\* A call that changes the cart to c on the customer's behalf.
Change(t, loops, c) ==
    /\ At(t, "idle")
    /\ Become(t, Looping(FALSE, loops, c), c)
    /\ added' = [i \in Item |-> IF c[i] > cart[i] THEN added[i] + (c[i] - cart[i])
                                ELSE added[i]]
    /\ wanted' = [i \in Item |-> (wanted[i] + c[i]) - cart[i]]
    /\ mishap' = (mishap \/ (c # cart /\ \E u \in Slot : At(u, "lined")))
    /\ UNCHANGED <<ordered, top>>

\* Mutant: any quantity can be added.
AddAnyToCart(t, i) ==
    /\ added[i] < MaxPieces
    /\ \E n \in {0 - 1, 1} : Change(t, 2, [cart EXCEPT ![i] = @ + n])

\* The key of an item is its line's, or makes a new line; the answer loops again.
AddToCart(t, i) ==
    /\ added[i] < MaxPieces
    /\ Change(t, 2, [cart EXCEPT ![i] = @ + 1])

RemoveFromCart(t, i) ==
    /\ cart[i] > 0
    /\ Change(t, 1, [cart EXCEPT ![i] = 0])

\* A quantity of zero removes the line; a key without a line changes nothing.
UpdateCartItem(t, i, n) ==
    /\ cart[i] > 0
    /\ n <= cart[i] + (MaxPieces - added[i])
    /\ Change(t, 1, [cart EXCEPT ![i] = n])

ClearCart(t) == Change(t, 1, None)

-----------------------------------------------------------------------------
Goto(t, session) == req' = [req EXCEPT ![t] = session]

Checkout(t) ==
    /\ At(t, "idle")
    /\ cart # None
    /\ Goto(t, Looping(TRUE, 1, cart))
    /\ UNCHANGED <<cart, ordered, top, added, wanted, mishap>>

\* The last product has come, and the cart has as many lines as before.
LoopEnds(t) ==
    /\ At(t, "loop")
    /\ Size(cart) = req[t].size
    /\ Goto(t, IF req[t].loops = 2 THEN Looping(FALSE, 1, cart)
               ELSE IF req[t].checkout
               THEN [req[t] EXCEPT !.pc = "totalled", !.total = SumFunction(cart)]
               ELSE Idle)
    /\ UNCHANGED <<cart, ordered, top, added, wanted, mishap>>

\* "dictionary changed size during iteration": an error nobody catches.
LoopBreaks(t) ==
    /\ At(t, "loop")
    /\ Size(cart) # req[t].size
    /\ Goto(t, Idle)
    /\ UNCHANGED <<cart, ordered, top, added, wanted, mishap>>

\* Mutant: the lines of the cart are counted, not their pieces.
ReadCodeCountLines(t) ==
    /\ At(t, "totalled")
    /\ top < MaxOrders
    /\ Goto(t, [req[t] EXCEPT !.pc = "coded", !.code = top + 1, !.count = Size(cart)])
    /\ UNCHANGED <<cart, ordered, top, added, wanted, mishap>>

\* _generate_reference_code, and the order object made on its answer.
ReadCode(t) ==
    /\ At(t, "totalled")
    /\ top < MaxOrders
    /\ Goto(t, [req[t] EXCEPT !.pc = "coded", !.code = top + 1, !.count = SumFunction(cart)])
    /\ UNCHANGED <<cart, ordered, top, added, wanted, mishap>>

\* The unique index has the code, or another transaction has inserted it.
CodeTaken(t) == req[t].code <= top
CodeInserted(t) == \E u \in Slot \ {t} : /\ At(u, "lined") \/ At(u, "cleared")
                                         /\ req[u].code = req[t].code

\* Mutant: the reference code is not unique.
FlushOrderAnyCode(t) ==
    /\ At(t, "coded")
    /\ Goto(t, [req[t] EXCEPT !.pc = "lined", !.lines = cart])
    /\ UNCHANGED <<cart, ordered, top, added, wanted, mishap>>

\* The insert of the order, and the lines made on its answer.
FlushOrder(t) ==
    /\ At(t, "coded")
    /\ ~CodeInserted(t)
    /\ ~CodeTaken(t)
    /\ Goto(t, [req[t] EXCEPT !.pc = "lined", !.lines = cart])
    /\ UNCHANGED <<cart, ordered, top, added, wanted, mishap>>

\* The insert of the lines, and the emptying of the cart on its answer.
FlushLines(t) ==
    /\ At(t, "lined")
    /\ Become(t, [req[t] EXCEPT !.pc = "cleared"], None)
    /\ UNCHANGED <<ordered, top, added, wanted, mishap>>

\* get_db commits when the answer is on its way.
CommitOrder(t) ==
    /\ At(t, "cleared")
    /\ ordered' = [i \in Item |-> ordered[i] + req[t].lines[i]]
    /\ top' = req[t].code
    /\ Goto(t, Idle)
    /\ UNCHANGED <<cart, added, wanted, mishap>>

\* Mutant: the cart is emptied whatever becomes of the order.
FailEmptied(t) ==
    /\ ~At(t, "idle")
    /\ Become(t, Idle, IF req[t].checkout THEN None ELSE cart)
    /\ mishap' = (mishap \/ (At(t, "cleared") /\ req[t].lines # None))
    /\ UNCHANGED <<ordered, top, added, wanted>>

\* A refused insert, a lost connection: the transaction is rolled back, the cart
\* is not put back.
Fail(t) ==
    /\ ~At(t, "idle")
    /\ Goto(t, Idle)
    /\ mishap' = (mishap \/ (At(t, "cleared") /\ req[t].lines # None))
    /\ UNCHANGED <<cart, ordered, top, added, wanted>>

\* The carts are in the memory of the process, and are gone with it.
Restart ==
    /\ cart' = None
    /\ req' = [t \in Slot |-> Idle]
    /\ mishap' = (mishap \/ cart # None \/ \E t \in Slot : At(t, "cleared"))
    /\ UNCHANGED <<ordered, top, added, wanted>>

-----------------------------------------------------------------------------
Cart(t) == \/ \E i \in Item : \/ AddToCart(t, i)
                              \/ RemoveFromCart(t, i)
                              \/ \E n \in 0..MaxPieces : UpdateCartItem(t, i, n)
           \/ ClearCart(t)

Order(t) == \/ Checkout(t)
            \/ ReadCode(t)
            \/ FlushOrder(t)
            \/ FlushLines(t)
            \/ CommitOrder(t)

Next == \/ \E t \in Slot : Cart(t) \/ LoopEnds(t) \/ LoopBreaks(t) \/ Order(t) \/ Fail(t)
        \/ Restart

Spec == Init /\ [][Next]_vars

-----------------------------------------------------------------------------
(* Properties.                                                             *)

\* No piece is ordered twice, or ordered and still in the cart, though nothing
\* keeps a customer from checking out a cart while an order is made of it.
NoPieceTwice ==
    \A i \in Item :
        /\ ordered[i] + cart[i] <= added[i]
        /\ \A t \in Slot : At(t, "cleared") =>
              ordered[i] + req[t].lines[i] + cart[i] <= added[i]

\* What a customer has put into the cart and not taken out is in the cart or in
\* an order: calls overlap freely, but for the insert of an order's lines, and
\* if neither the server nor a transaction dies between emptying and commit.
NothingLost ==
    ~mishap => \A i \in Item :
        \/ \E t \in Slot : At(t, "cleared") /\ wanted[i] = cart[i] + ordered[i] + req[t].lines[i]
        \/ wanted[i] = cart[i] + ordered[i]

\* "Cart is empty" is an error: an order has lines, as many pieces as it counts
\* and is charged for, unless the cart was changed from the total to the lines.
OrderAddsUp ==
    [][\A t \in Slot : CommitOrder(t) /\ req[t].steady =>
          /\ req[t].lines # None
          /\ req[t].total = SumFunction(req[t].lines)
          /\ req[t].count = SumFunction(req[t].lines)]_vars
=============================================================================
