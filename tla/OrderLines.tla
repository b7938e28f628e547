------------------------------ MODULE OrderLines ------------------------------
(***************************************************************************)
(* The lines of an order as staff add, change and delete them, and the     *)
(* amount of the order, which every one of these requests computes anew.   *)
(*                                                                         *)
(* A request that adds a line loads the order with all its lines, looks     *)
(* for a live line of the item and flushes the new one.  One that changes  *)
(* or deletes a line loads that line; loading the order then flushes the   *)
(* change first.  Both select the lines that are not removed, sum up the   *)
(* objects the session has of them and commit line and amount together.    *)
(*                                                                         *)
(* An item is a product with a variety, and has one line of the order for  *)
(* ever: the unique index counts removed lines as well.  A product without *)
(* varieties is a bare item: its lines have no variety, so the index does  *)
(* not compare them.  All sums of the order are sums over the same lines:  *)
(* the amount stands for all of them.                                      *)
(***************************************************************************)
EXTENDS Naturals, FiniteSets, Functions

CONSTANTS
    Item,   \* products on sale, each with one of its varieties
    Bare,   \* those of them whose product has no variety
    Line,   \* the lines that the order may have
    Slot,   \* how many requests run at the same time
    Price,  \* prices of one piece, as the catalogue has them at the time
    Count   \* numbers of pieces

ASSUME ItemsType == Bare \subseteq Item
ASSUME AmountsType == Price \subseteq Nat /\ Count \subseteq Nat

Row == [item : Item, count : Count, price : Price, removed : BOOLEAN]

VARIABLES
    lines,  \* the committed rows of OrderProducts
    total,  \* the amount in the row of Orders
    req,    \* what each request slot is doing
    alone   \* slots whose request has had the order to itself so far

vars == <<lines, total, req, alone>>

Idle == [kind |-> "idle"]

\* A set of rows, by line.
Rows == UNION {[L -> Row] : L \in SUBSET Line}

NoRows == [l \in {} |-> 0]

\* A request at work: its line as loaded and as the session has it by now, the
\* order's lines and amount as loaded, and the new amount.
Request == [kind : {"create", "edit", "delete"}, pc : {"opened", "flushed", "summed"},
            line : Line, old : Row, row : Row, known : Rows, loaded : Nat, sum : Nat]

TypeOK == /\ lines \in Rows
          /\ total \in Nat
          /\ \A t \in Slot : req[t] \in {Idle} \cup Request
          /\ alone \subseteq Slot

Live(rows) == {l \in DOMAIN rows : ~rows[l].removed}

Amount(row) == row.price * row.count

TotalOf(rows) == SumFunction([l \in Live(rows) |-> Amount(rows[l])])

\* Lines that keep to the unique index, which compares no missing varieties.
Indexed(rows) ==
    \A l, m \in DOMAIN rows :
        rows[l].item = rows[m].item /\ rows[l].item \notin Bare => l = m

\* The order as the shop has placed it, of a few lines that are all live.
Init == /\ lines \in Rows
        /\ IsFiniteSet(DOMAIN lines)
        /\ Live(lines) = DOMAIN lines
        /\ Indexed(lines)
        /\ total = TotalOf(lines)
        /\ req = [t \in Slot |-> Idle]
        /\ alone = {}

-----------------------------------------------------------------------------
InFlight(t) == req[t] # Idle

Others(t) == {u \in Slot \ {t} : InFlight(u)}

Session(kind, l, old, row, known, loaded) ==
    [kind |-> kind, pc |-> "opened", line |-> l, old |-> old, row |-> row,
     known |-> known, loaded |-> loaded, sum |-> 0]

\* Whoever begins while others are at work ends their being alone as well.
Begin(t, session) ==
    /\ ~InFlight(t)
    /\ req' = [req EXCEPT ![t] = session]
    /\ alone' = IF Others(t) = {} THEN alone \cup {t} ELSE {}
    /\ UNCHANGED <<lines, total>>

NewLine(i, n, p) == [item |-> i, count |-> n, price |-> p, removed |-> FALSE]

\* admin_order_product_create_submit, up to the look for a live line of the item.
\* It refuses a product without a variety.
BeginCreate(t, l, i, n, p) ==
    /\ i \notin Bare
    /\ l \notin DOMAIN lines
    /\ \A u \in Others(t) : req[u].line # l
    /\ \A m \in Live(lines) : lines[m].item # i
    /\ Begin(t, Session("create", l, NewLine(i, n, p), NewLine(i, n, p), lines, total))

\* Mutant: a form without a count counts zero pieces.
BeginEditBlank(t, l, i, n, p) ==
    /\ l \in Live(lines)
    /\ Begin(t, Session("edit", l, lines[l], NewLine(i, 0, p), NoRows, 0))

\* Without a variety the line keeps the price it has.
PriceOn(l, i, p) == IF i \in Bare THEN lines[l].price ELSE p

\* admin_order_product_edit_submit loads live lines only, takes a product without a
\* variety as well and looks for no other line of the item.
BeginEdit(t, l, i, n, p) ==
    /\ l \in Live(lines)
    /\ Begin(t, Session("edit", l, lines[l], NewLine(i, n, PriceOn(l, i, p)), NoRows, 0))

\* admin_order_product_delete loads a line of any kind.
BeginDelete(t, l) ==
    /\ l \in DOMAIN lines
    /\ Begin(t, Session("delete", l, lines[l], [lines[l] EXCEPT !.removed = TRUE],
                        NoRows, 0))

-----------------------------------------------------------------------------
\* An assignment writes its column only if it changes what was loaded.
Assign(loaded, new, stored) == IF new = loaded THEN stored ELSE new

\* Mutant: the flush writes the whole row.
FlushedWhole(s) == s.row

\* The row as the flush leaves it in the database.
Flushed(s) ==
    IF s.kind = "create" THEN s.row
    ELSE LET stored == lines[s.line] IN
         [item    |-> Assign(s.old.item, s.row.item, stored.item),
          count   |-> Assign(s.old.count, s.row.count, stored.count),
          price   |-> Assign(s.old.price, s.row.price, stored.price),
          removed |-> Assign(s.old.removed, s.row.removed, stored.removed)]

View(s) == [l \in DOMAIN lines \cup {s.line} |->
               IF l = s.line THEN Flushed(s) ELSE lines[l]]

\* Another transaction has flushed the line, or has the item in the index.
Waits(t) == \E u \in Others(t) :
                /\ req[u].pc # "opened"
                /\ \/ req[u].line = req[t].line
                   \/ ({req[u].old.item, req[u].row.item}
                          \cap {req[t].old.item, req[t].row.item}) \ Bare # {}

\* Mutant: the index is on lines that are not removed.
IndexOfLiveRefuses(s) ==
    /\ s.row.item \notin Bare
    /\ s.kind = "create" \/ s.row.item # s.old.item
    /\ \E l \in Live(lines) \ {s.line} : lines[l].item = s.row.item

\* The unique index has the item on another row, removed or not.
IndexRefuses(s) ==
    /\ s.row.item \notin Bare
    /\ s.kind = "create" \/ s.row.item # s.old.item
    /\ \E l \in DOMAIN lines \ {s.line} : lines[l].item = s.row.item

CanFlush(t) == /\ InFlight(t)
               /\ req[t].pc = "opened"
               /\ ~Waits(t)

\* An edit or a deletion flushes on its way to load the order and its lines.
Flush(t) ==
    LET s == req[t] IN
    /\ CanFlush(t)
    /\ ~IndexRefuses(s)
    /\ req' = [req EXCEPT ![t].pc = "flushed",
                 ![t].known = IF s.kind = "create" THEN s.known ELSE View(s),
                 ![t].loaded = IF s.kind = "create" THEN s.loaded ELSE total]
    /\ UNCHANGED <<lines, total, alone>>

\* Mutant: the amount is summed up over the line as it was loaded.
HeldBefore(s, l) == IF l = s.line THEN s.old
                    ELSE IF l \in DOMAIN s.known THEN s.known[l] ELSE lines[l]

\* The object the session has of a line: a SELECT does not refresh one that it
\* holds already.
Held(s, l) == IF l = s.line THEN s.row
              ELSE IF l \in DOMAIN s.known THEN s.known[l] ELSE lines[l]

\* The SELECT filters on the rows, the sum is over the objects.
Sum(s) == SumFunction([l \in Live(View(s)) |-> Amount(Held(s, l))])

SumUp(t) ==
    /\ InFlight(t)
    /\ req[t].pc = "flushed"
    /\ req' = [req EXCEPT ![t].pc = "summed", ![t].sum = Sum(req[t])]
    /\ UNCHANGED <<lines, total, alone>>

End(t) == /\ req' = [req EXCEPT ![t] = Idle]
          /\ alone' = alone \ {t}

\* An IntegrityError nobody catches.
FlushRefused(t) ==
    /\ CanFlush(t)
    /\ IndexRefuses(req[t])
    /\ End(t)
    /\ UNCHANGED <<lines, total>>

Commit(t) ==
    LET s == req[t] IN
    /\ InFlight(t)
    /\ s.pc = "summed"
    /\ lines' = View(s)
    /\ total' = Assign(s.loaded, s.sum, total)
    /\ End(t)

\* A lost connection or a stop of the server rolls everything back.
Fail(t) ==
    /\ InFlight(t)
    /\ End(t)
    /\ UNCHANGED <<lines, total>>

-----------------------------------------------------------------------------
Clerk(t) == \E l \in Line :
                \/ \E i \in Item, n \in Count, p \in Price :
                      BeginCreate(t, l, i, n, p) \/ BeginEdit(t, l, i, n, p)
                \/ BeginDelete(t, l)

Progress(t) == Flush(t) \/ FlushRefused(t) \/ SumUp(t) \/ Commit(t)

Next == \E t \in Slot : Clerk(t) \/ Progress(t) \/ Fail(t)

Spec == Init /\ [][Next]_vars

-----------------------------------------------------------------------------
(* Properties.                                                             *)

\* Two requests at once may leave an amount that is not that of the lines, but
\* whoever has the order to itself from the first read to the commit puts the
\* amount right, whatever state earlier requests have left.
AloneIsRight ==
    [][\A t \in alone : Commit(t) => total' = TotalOf(lines')]_vars

\* A deleted line stays deleted, whatever was loaded of it before.
RemovedStaysRemoved ==
    [][\A l \in DOMAIN lines : lines[l].removed =>
          l \in DOMAIN lines' /\ lines'[l].removed]_vars

\* No product is on two lines with the same variety, though two requests may both
\* find it missing and an edit does not look.
OneLinePerItem == Indexed(lines)
=============================================================================
