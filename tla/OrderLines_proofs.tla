--------------------------- MODULE OrderLines_proofs ---------------------------
(***************************************************************************)
(* A product with a variety has one line for ever, a deleted line stays    *)
(* deleted and a clerk who is alone puts the amount right, for any items,  *)
(* lines, prices and any number of clerks, and for any order the shop has  *)
(* placed.  Between its flush and its commit a request holds its line and  *)
(* its items; what it is going to write cannot be overtaken.               *)
(***************************************************************************)
EXTENDS OrderLines, Sums, TLAPS

Fields == {"kind", "pc", "line", "old", "row", "known", "loaded", "sum"}

\* A request at work, and what its session has done to the line it loaded.
Working(s) == /\ s = [f \in Fields |-> s[f]]
              /\ s.pc \in {"opened", "flushed", "summed"}
              /\ s.old \in Row
              /\ s.row \in Row
              /\ \/ s.kind = "create"
                 \/ s.kind = "edit" /\ s.row.removed = s.old.removed
                 \/ s.kind = "delete" /\ s.row.removed = TRUE

Shape == /\ \A l \in DOMAIN lines : lines[l] \in Row
         /\ req = [t \in Slot |-> req[t]]
         /\ \A t \in Slot : req[t] = Idle \/ Working(req[t])

\* A request has written its line, but not committed it.
Holds(t) == InFlight(t) /\ req[t].pc # "opened"

\* It puts an item on the line that the line did not have.
Places(s) == s.kind = "create" \/ s.row.item # s.old.item

\* A line that is being created is nobody else's.
NewIsNew ==
    \A t \in Slot : InFlight(t) /\ req[t].kind = "create" =>
        /\ req[t].line \notin DOMAIN lines
        /\ \A u \in Slot \ {t} : InFlight(u) => req[u].line # req[t].line

OldIsThere ==
    \A t \in Slot : InFlight(t) /\ req[t].kind # "create" => req[t].line \in DOMAIN lines

\* Requests that hold lines hold different ones, and place different items, unless
\* the items have no variety.
Apart ==
    \A t, u \in Slot : t # u /\ Holds(t) /\ Holds(u) =>
        /\ req[t].line # req[u].line
        /\ req[t].row.item \notin Bare => req[t].row.item # req[u].row.item

\* An item with a variety that is going to be placed is still on no other line.
PlacesFree ==
    \A t \in Slot : Holds(t) /\ Places(req[t]) /\ req[t].row.item \notin Bare =>
        \A l \in DOMAIN lines \ {req[t].line} : lines[l].item # req[t].row.item

IInv == Shape /\ NewIsNew /\ OldIsThere /\ Apart /\ PlacesFree /\ OneLinePerItem

-----------------------------------------------------------------------------
LEMMA InitInv == Init => IInv
<1> SUFFICES ASSUME Init PROVE IInv
  OBVIOUS
<1>1. \A t \in Slot : req[t] = Idle
  BY DEF Init
<1>2. Shape
  <2>1. \A l \in DOMAIN lines : lines[l] \in Row
    BY DEF Init, Rows
  <2> QED BY <1>1, <2>1 DEF Init, Shape
<1>3. OneLinePerItem
  BY DEF Init, OneLinePerItem
<1> QED BY <1>1, <1>2, <1>3 DEF IInv, NewIsNew, OldIsThere, Apart, PlacesFree, Holds, InFlight

\* A session that has just begun is one at work.
LEMMA SessionWorks ==
    ASSUME NEW s, s.pc = "opened", s = [f \in Fields |-> s[f]],
           s.old \in Row, s.row \in Row,
           \/ s.kind = "create"
           \/ s.kind = "edit" /\ s.row.removed = s.old.removed
           \/ s.kind = "delete" /\ s.row.removed = TRUE
    PROVE  Working(s) /\ s # Idle
BY DEF Working, Idle

\* Who begins holds nothing; a new line is nobody's, an old one is there.
LEMMA BeginInv ==
    ASSUME IInv, NEW t \in Slot, NEW s, Begin(t, s), Working(s), s # Idle,
           s.pc = "opened",
           \/ /\ s.kind = "create"
              /\ s.line \notin DOMAIN lines
              /\ \A u \in Others(t) : req[u].line # s.line
           \/ s.kind # "create" /\ s.line \in DOMAIN lines
    PROVE  IInv'
<1>1. /\ req' = [req EXCEPT ![t] = s] /\ lines' = lines
      /\ req'[t] = s
      /\ \A u \in Slot \ {t} : req'[u] = req[u]
  BY DEF Begin, IInv, Shape
<1>2. Shape'
  BY <1>1 DEF IInv, Shape
<1>3. NewIsNew'
  <2> SUFFICES ASSUME NEW v \in Slot, InFlight(v)', req'[v].kind = "create"
               PROVE  /\ req'[v].line \notin DOMAIN lines
                      /\ \A u \in Slot \ {v} : InFlight(u)' => req'[u].line # req'[v].line
    BY <1>1 DEF NewIsNew
  <2>1. CASE v = t
    BY <1>1, <2>1 DEF Others, InFlight
  <2>2. CASE v # t
    <3>1. /\ req[v].line \notin DOMAIN lines
          /\ \A u \in Slot \ {v} : InFlight(u) => req[u].line # req[v].line
      BY <1>1, <2>2 DEF IInv, NewIsNew, InFlight
    <3>2. s.line # req[v].line
      BY <1>1, <2>2, <3>1 DEF Others, InFlight
    <3> QED BY <1>1, <2>2, <3>1, <3>2 DEF InFlight
  <2> QED BY <2>1, <2>2
<1>4. OldIsThere'
  BY <1>1 DEF IInv, OldIsThere, InFlight
<1>5. \A u \in Slot : Holds(u)' => u # t /\ Holds(u)
  BY <1>1 DEF Holds, InFlight
<1>6. Apart' /\ PlacesFree'
  BY <1>1, <1>5 DEF IInv, Apart, PlacesFree
<1>7. OneLinePerItem'
  BY <1>1 DEF IInv, OneLinePerItem, Indexed
<1> QED BY <1>2, <1>3, <1>4, <1>6, <1>7 DEF IInv

LEMMA ClerkInv ==
    ASSUME IInv, NEW t \in Slot, Clerk(t)
    PROVE  IInv'
<1>1. \A i \in Item, n \in Count, p \in Price :
         NewLine(i, n, p) \in Row /\ NewLine(i, n, p).removed = FALSE
  BY DEF NewLine, Row
<1>2. ASSUME NEW l \in Line, NEW i \in Item, NEW n \in Count, NEW p \in Price,
             BeginCreate(t, l, i, n, p)
      PROVE  IInv'
  <2> DEFINE s == Session("create", l, NewLine(i, n, p), NewLine(i, n, p), lines, total)
  <2>1. /\ l \notin DOMAIN lines /\ \A u \in Others(t) : req[u].line # l
        /\ Begin(t, s)
    BY <1>2 DEF BeginCreate
  <2>2. /\ s.kind = "create" /\ s.line = l /\ s.pc = "opened"
        /\ s.old = NewLine(i, n, p) /\ s.row = NewLine(i, n, p)
        /\ s = [f \in Fields |-> s[f]]
    BY DEF Session, Fields
  <2> HIDE DEF s
  <2> QED BY <1>1, <2>1, <2>2, SessionWorks, BeginInv
<1>3. ASSUME NEW l \in Line, NEW i \in Item, NEW n \in Count, NEW p \in Price,
             BeginEdit(t, l, i, n, p)
      PROVE  IInv'
  <2> DEFINE row == NewLine(i, n, PriceOn(l, i, p))
             s == Session("edit", l, lines[l], row, NoRows, 0)
  <2>1. l \in DOMAIN lines /\ ~lines[l].removed /\ Begin(t, s)
    BY <1>3 DEF BeginEdit, Live
  <2>2. lines[l] \in Row /\ lines[l].removed = FALSE
    BY <2>1 DEF IInv, Shape, Row
  <2>3. row \in Row /\ row.removed = FALSE
    BY <1>1, <2>2 DEF PriceOn, Row
  <2> HIDE DEF row
  <2>4. /\ s.kind = "edit" /\ s.line = l /\ s.pc = "opened"
        /\ s.old = lines[l] /\ s.row = row
        /\ s = [f \in Fields |-> s[f]]
    BY DEF Session, Fields
  <2> HIDE DEF s
  <2>5. Working(s) /\ s # Idle
    BY <2>2, <2>4, <2>3, SessionWorks
  <2> QED BY <2>1, <2>4, <2>5, BeginInv
<1>4. ASSUME NEW l \in Line, BeginDelete(t, l) PROVE IInv'
  <2> DEFINE gone == [lines[l] EXCEPT !.removed = TRUE]
             s == Session("delete", l, lines[l], gone, NoRows, 0)
  <2>1. l \in DOMAIN lines /\ Begin(t, s)
    BY <1>4 DEF BeginDelete
  <2>2. lines[l] \in Row
    BY <2>1 DEF IInv, Shape
  <2>3. gone \in Row /\ gone.removed = TRUE
    BY <2>2 DEF Row
  <2> HIDE DEF gone
  <2>4. /\ s.kind = "delete" /\ s.line = l /\ s.pc = "opened"
        /\ s.old = lines[l] /\ s.row = gone
        /\ s = [f \in Fields |-> s[f]]
    BY DEF Session, Fields
  <2> HIDE DEF s
  <2>5. Working(s) /\ s # Idle
    BY <2>2, <2>3, <2>4, SessionWorks
  <2> QED BY <2>1, <2>4, <2>5, BeginInv
<1> QED BY <1>2, <1>3, <1>4 DEF Clerk

-----------------------------------------------------------------------------
\* A session that goes on with the line and items it has.
Continues(s, n) == /\ Working(n) /\ n # Idle
                   /\ n.kind = s.kind /\ n.line = s.line
                   /\ n.old = s.old /\ n.row = s.row

LEMMA WorkIsWork ==
    ASSUME IInv, NEW t \in Slot, InFlight(t)
    PROVE  Working(req[t])
BY DEF IInv, Shape, InFlight

\* The flush takes the line and the items, which nobody else has.
LEMMA FlushInv ==
    ASSUME IInv, NEW t \in Slot, Flush(t)
    PROVE  IInv'
<1> DEFINE k == IF req[t].kind = "create" THEN req[t].known ELSE View(req[t])
           d == IF req[t].kind = "create" THEN req[t].loaded ELSE total
           n == [req[t] EXCEPT !.pc = "flushed", !.known = k, !.loaded = d]
<1>1. /\ InFlight(t) /\ req[t].pc = "opened" /\ ~Waits(t) /\ ~IndexRefuses(req[t])
      /\ lines' = lines
  BY DEF Flush, CanFlush
<1>2. Working(req[t])
  BY <1>1, WorkIsWork
<1>3. /\ req'[t] = n
      /\ \A u \in Slot \ {t} : req'[u] = req[u]
      /\ req' = [u \in Slot |-> req'[u]]
  BY DEF Flush, IInv, Shape
<1> HIDE DEF k, d
<1>4. Continues(req[t], n) /\ n.pc = "flushed"
  <2>1. /\ n = [f \in Fields |-> n[f]] /\ n.pc = "flushed"
        /\ n.kind = req[t].kind /\ n.line = req[t].line
        /\ n.old = req[t].old /\ n.row = req[t].row
    BY <1>2 DEF Working, Fields
  <2> HIDE DEF n
  <2>2. Working(n)
    BY <1>2, <2>1 DEF Working
  <2>3. n # Idle
    BY <2>2 DEF Working, Idle
  <2> QED BY <2>1, <2>2, <2>3 DEF Continues
<1> HIDE DEF n
<1>5. \A u \in Slot : /\ InFlight(u)' <=> InFlight(u)
                      /\ InFlight(u) => /\ req'[u].kind = req[u].kind
                                        /\ req'[u].line = req[u].line
                                        /\ req'[u].old = req[u].old
                                        /\ req'[u].row = req[u].row
  BY <1>1, <1>3, <1>4 DEF Continues, InFlight
<1>6. \A u \in Slot : Holds(u)' => InFlight(u) /\ (u = t \/ Holds(u))
  BY <1>3, <1>5 DEF Holds, InFlight
<1>7. Shape'
  BY <1>1, <1>3, <1>4 DEF IInv, Shape, Continues
<1>8. NewIsNew' /\ OldIsThere' /\ OneLinePerItem'
  BY <1>1, <1>5 DEF IInv, NewIsNew, OldIsThere, OneLinePerItem, Indexed
<1>9. ASSUME NEW u \in Slot \ {t}, Holds(u)
      PROVE  /\ req[t].line # req[u].line
             /\ req[t].row.item \notin Bare => req[t].row.item # req[u].row.item
  BY <1>1, <1>9 DEF Waits, Others, Holds
<1>10. Apart'
  BY <1>5, <1>6, <1>9 DEF IInv, Apart
<1>11. PlacesFree'
  <2> SUFFICES ASSUME NEW u \in Slot, Holds(u)', Places(req[u])', req'[u].row.item \notin Bare
               PROVE  \A l \in DOMAIN lines \ {req'[u].line} : lines[l].item # req'[u].row.item
    BY <1>1 DEF PlacesFree
  <2>1. /\ req'[u].line = req[u].line /\ req'[u].row = req[u].row /\ Places(req[u])
    BY <1>5, <1>6 DEF Places
  <2>2. CASE u = t
    BY <1>1, <2>1, <2>2 DEF IndexRefuses, Places
  <2>3. CASE u # t
    BY <1>6, <2>1, <2>3 DEF IInv, PlacesFree
  <2> QED BY <2>2, <2>3
<1> QED BY <1>7, <1>8, <1>10, <1>11 DEF IInv

LEMMA SumUpInv ==
    ASSUME IInv, NEW t \in Slot, SumUp(t)
    PROVE  IInv'
<1> DEFINE d == Sum(req[t])
           n == [req[t] EXCEPT !.pc = "summed", !.sum = d]
<1>1. InFlight(t) /\ req[t].pc = "flushed" /\ lines' = lines
  BY DEF SumUp
<1>2. Working(req[t])
  BY <1>1, WorkIsWork
<1>3. /\ req'[t] = n
      /\ \A u \in Slot \ {t} : req'[u] = req[u]
      /\ req' = [u \in Slot |-> req'[u]]
  BY DEF SumUp, IInv, Shape
<1> HIDE DEF d
<1>4. Continues(req[t], n) /\ n.pc = "summed"
  <2>1. /\ n = [f \in Fields |-> n[f]] /\ n.pc = "summed"
        /\ n.kind = req[t].kind /\ n.line = req[t].line
        /\ n.old = req[t].old /\ n.row = req[t].row
    BY <1>2 DEF Working, Fields
  <2> HIDE DEF n
  <2>2. Working(n)
    BY <1>2, <2>1 DEF Working
  <2>3. n # Idle
    BY <2>2 DEF Working, Idle
  <2> QED BY <2>1, <2>2, <2>3 DEF Continues
<1> HIDE DEF n
<1>5. \A u \in Slot : /\ InFlight(u)' <=> InFlight(u)
                      /\ InFlight(u) => /\ req'[u].kind = req[u].kind
                                        /\ req'[u].line = req[u].line
                                        /\ req'[u].old = req[u].old
                                        /\ req'[u].row = req[u].row
  BY <1>1, <1>3, <1>4 DEF Continues, InFlight
<1>6. \A u \in Slot : Holds(u)' => InFlight(u) /\ Holds(u)
  BY <1>1, <1>3, <1>5 DEF Holds, InFlight
<1>7. Shape'
  BY <1>1, <1>3, <1>4 DEF IInv, Shape, Continues
<1>8. NewIsNew' /\ OldIsThere' /\ OneLinePerItem'
  BY <1>1, <1>5 DEF IInv, NewIsNew, OldIsThere, OneLinePerItem, Indexed
<1>9. Apart' /\ PlacesFree'
  BY <1>1, <1>5, <1>6 DEF IInv, Apart, PlacesFree, Places
<1> QED BY <1>7, <1>8, <1>9 DEF IInv

\* A request that ends without a commit takes its claims with it.
LEMMA EndInv ==
    ASSUME IInv, NEW t \in Slot, End(t), lines' = lines
    PROVE  IInv'
<1>1. /\ req'[t] = Idle
      /\ \A u \in Slot \ {t} : req'[u] = req[u]
      /\ req' = [u \in Slot |-> req'[u]]
  BY DEF End, IInv, Shape
<1>2. \A u \in Slot : InFlight(u)' => u # t /\ InFlight(u) /\ req'[u] = req[u]
  BY <1>1 DEF InFlight
<1>3. \A u \in Slot : Holds(u)' => Holds(u) /\ req'[u] = req[u]
  BY <1>2 DEF Holds
<1>4. Shape'
  BY <1>1 DEF IInv, Shape
<1>5. NewIsNew' /\ OldIsThere' /\ OneLinePerItem'
  BY <1>2 DEF IInv, NewIsNew, OldIsThere, OneLinePerItem, Indexed
<1>6. Apart' /\ PlacesFree'
  BY <1>3 DEF IInv, Apart, PlacesFree, Places
<1> QED BY <1>4, <1>5, <1>6 DEF IInv

-----------------------------------------------------------------------------
\* What a commit leaves on the line: the item it places or the one that was there.
LEMMA FlushedRow ==
    ASSUME IInv, NEW t \in Slot, InFlight(t)
    PROVE  /\ Flushed(req[t]) \in Row
           /\ Places(req[t]) => Flushed(req[t]).item = req[t].row.item
           /\ ~Places(req[t]) => /\ req[t].line \in DOMAIN lines
                                 /\ Flushed(req[t]).item = lines[req[t].line].item
           /\ req[t].line \in DOMAIN lines /\ lines[req[t].line].removed =>
                 Flushed(req[t]).removed
<1>1. Working(req[t])
  BY WorkIsWork
<1>2. CASE req[t].kind = "create"
  <2>1. Flushed(req[t]) = req[t].row /\ Places(req[t])
    BY <1>2 DEF Flushed, Places
  <2>2. req[t].line \notin DOMAIN lines
    BY <1>2 DEF IInv, NewIsNew
  <2> QED BY <1>1, <2>1, <2>2 DEF Working
<1>3. CASE req[t].kind # "create"
  <2> DEFINE s == req[t]
             stored == lines[s.line]
  <2>1. s.line \in DOMAIN lines
    BY <1>3 DEF IInv, OldIsThere
  <2>2. stored \in Row /\ s.old \in Row /\ s.row \in Row
    BY <1>1, <2>1 DEF IInv, Shape, Working
  <2>3. Flushed(s) = [item    |-> Assign(s.old.item, s.row.item, stored.item),
                      count   |-> Assign(s.old.count, s.row.count, stored.count),
                      price   |-> Assign(s.old.price, s.row.price, stored.price),
                      removed |-> Assign(s.old.removed, s.row.removed, stored.removed)]
    BY <1>3 DEF Flushed
  <2>4. /\ Flushed(s) \in Row
        /\ Flushed(s).item = Assign(s.old.item, s.row.item, stored.item)
        /\ Flushed(s).removed = Assign(s.old.removed, s.row.removed, stored.removed)
    BY <2>2, <2>3 DEF Assign, Row
  <2>5. stored.removed => Flushed(s).removed
    BY <1>1, <1>3, <2>4 DEF Assign, Working
  <2> QED BY <1>3, <2>1, <2>4, <2>5 DEF Assign, Places
<1> QED BY <1>2, <1>3

LEMMA CommitInv ==
    ASSUME IInv, NEW t \in Slot, Commit(t)
    PROVE  IInv'
<1>1. InFlight(t) /\ req[t].pc = "summed" /\ lines' = View(req[t]) /\ End(t)
  BY DEF Commit
<1>2. Holds(t)
  BY <1>1 DEF Holds
<1>3. /\ req'[t] = Idle
      /\ \A u \in Slot \ {t} : req'[u] = req[u]
      /\ req' = [u \in Slot |-> req'[u]]
  BY <1>1 DEF End, IInv, Shape
<1>4. \A u \in Slot : InFlight(u)' => u # t /\ InFlight(u) /\ req'[u] = req[u]
  BY <1>3 DEF InFlight
<1>5. \A u \in Slot : Holds(u)' => u # t /\ Holds(u) /\ req'[u] = req[u]
  BY <1>4 DEF Holds
<1>6. /\ DOMAIN lines' = DOMAIN lines \cup {req[t].line}
      /\ lines'[req[t].line] = Flushed(req[t])
      /\ \A l \in DOMAIN lines \ {req[t].line} : lines'[l] = lines[l]
  BY <1>1 DEF View
<1>7. /\ Flushed(req[t]) \in Row
      /\ Places(req[t]) => Flushed(req[t]).item = req[t].row.item
      /\ ~Places(req[t]) => /\ req[t].line \in DOMAIN lines
                            /\ Flushed(req[t]).item = lines[req[t].line].item
  BY <1>1, FlushedRow
<1>8. ASSUME Flushed(req[t]).item \notin Bare
      PROVE  \A l \in DOMAIN lines \ {req[t].line} : lines[l].item # Flushed(req[t]).item
  <2>1. CASE Places(req[t])
    BY <1>2, <1>7, <1>8, <2>1 DEF IInv, PlacesFree
  <2>2. CASE ~Places(req[t])
    BY <1>7, <1>8, <2>2 DEF IInv, OneLinePerItem, Indexed
  <2> QED BY <2>1, <2>2
<1>9. Shape'
  BY <1>3, <1>6, <1>7 DEF IInv, Shape
<1>10. NewIsNew'
  <2> SUFFICES ASSUME NEW v \in Slot, InFlight(v)', req'[v].kind = "create"
               PROVE  /\ req'[v].line \notin DOMAIN lines'
                      /\ \A u \in Slot \ {v} : InFlight(u)' => req'[u].line # req'[v].line
    BY DEF NewIsNew
  <2>1. /\ v # t /\ req'[v] = req[v] /\ req[v].line \notin DOMAIN lines
        /\ \A u \in Slot \ {v} : InFlight(u) => req[u].line # req[v].line
    BY <1>4 DEF IInv, NewIsNew
  <2> QED BY <1>1, <1>4, <1>6, <2>1
<1>11. OldIsThere'
  BY <1>4, <1>6 DEF IInv, OldIsThere
<1>12. Apart'
  BY <1>5 DEF IInv, Apart
<1>13. PlacesFree'
  <2> SUFFICES ASSUME NEW u \in Slot, Holds(u)', Places(req[u])', req'[u].row.item \notin Bare,
                      NEW l \in DOMAIN lines' \ {req'[u].line}
               PROVE  lines'[l].item # req'[u].row.item
    BY DEF PlacesFree
  <2>1. u # t /\ Holds(u) /\ req'[u] = req[u] /\ Places(req[u])
    BY <1>5 DEF Places
  <2>2. \A m \in DOMAIN lines \ {req[u].line} : lines[m].item # req[u].row.item
    BY <2>1 DEF IInv, PlacesFree
  <2>3. CASE l # req[t].line
    BY <1>6, <2>1, <2>2, <2>3
  <2>4. CASE l = req[t].line
    <3>1. req[t].row.item # req[u].row.item
      BY <1>2, <2>1 DEF IInv, Apart
    <3> QED BY <1>6, <1>7, <2>1, <2>2, <2>4, <3>1
  <2> QED BY <2>3, <2>4
<1>14. OneLinePerItem'
  <2> SUFFICES ASSUME NEW l \in DOMAIN lines', NEW m \in DOMAIN lines',
                      lines'[l].item = lines'[m].item, lines'[l].item \notin Bare
               PROVE  l = m
    BY DEF OneLinePerItem, Indexed
  <2>1. CASE l # req[t].line /\ m # req[t].line
    BY <1>6, <2>1 DEF IInv, OneLinePerItem, Indexed
  <2>2. CASE l = req[t].line \/ m = req[t].line
    BY <1>6, <1>8, <2>2
  <2> QED BY <2>1, <2>2
<1> QED BY <1>9, <1>10, <1>11, <1>12, <1>13, <1>14 DEF IInv

LEMMA NextInv == IInv /\ [Next]_vars => IInv'
<1> SUFFICES ASSUME IInv, [Next]_vars PROVE IInv'
  OBVIOUS
<1>1. ASSUME NEW t \in Slot, FlushRefused(t) \/ Fail(t) PROVE IInv'
  BY <1>1, EndInv DEF FlushRefused, Fail
<1>2. CASE UNCHANGED vars
  BY <1>2 DEF vars, IInv, Shape, NewIsNew, OldIsThere, Apart, PlacesFree, OneLinePerItem,
              Indexed, Holds, InFlight
<1> QED BY <1>1, <1>2, ClerkInv, FlushInv, SumUpInv, CommitInv DEF Next, Progress

LEMMA Invariance == Spec => []IInv
<1> QED BY InitInv, NextInv, PTL DEF Spec

-----------------------------------------------------------------------------
(* The amount.                                                             *)

\* What a request that is alone has loaded is what is stored; once it has
\* flushed, its session has every line as its commit will leave it.
Knows(t) ==
    /\ InFlight(t) /\ \A u \in Slot \ {t} : ~InFlight(u)
    /\ req[t].kind = "create" => req[t].known = lines /\ req[t].loaded = total
    /\ req[t].kind # "create" => req[t].old = lines[req[t].line]
    /\ req[t].kind # "create" /\ req[t].pc # "opened" =>
          req[t].known = View(req[t]) /\ req[t].loaded = total
    /\ req[t].pc = "summed" => req[t].sum = TotalOf(View(req[t]))

AloneKnows == alone \subseteq Slot /\ \A t \in alone : Knows(t)

\* A request that is alone writes its row as the session has it.
LEMMA AloneView ==
    ASSUME IInv, NEW t \in Slot, Knows(t)
    PROVE  /\ Flushed(req[t]) = req[t].row
           /\ req[t].kind = "create" \/ req[t].pc # "opened" =>
                 \A l \in DOMAIN View(req[t]) : Held(req[t], l) = View(req[t])[l]
<1>1. Working(req[t]) /\ InFlight(t)
  BY WorkIsWork DEF Knows
<1>2. CASE req[t].kind = "create"
  <2>1. Flushed(req[t]) = req[t].row /\ req[t].known = lines
    BY <1>2 DEF Flushed, Knows
  <2> QED BY <2>1 DEF View, Held
<1>3. CASE req[t].kind # "create"
  <2> DEFINE s == req[t]
  <2>1. lines[s.line] = s.old /\ s.old \in Row /\ s.row \in Row
    BY <1>1, <1>3 DEF Knows, Working
  <2>2. Flushed(s) = [item    |-> Assign(s.old.item, s.row.item, s.old.item),
                      count   |-> Assign(s.old.count, s.row.count, s.old.count),
                      price   |-> Assign(s.old.price, s.row.price, s.old.price),
                      removed |-> Assign(s.old.removed, s.row.removed, s.old.removed)]
    BY <1>3, <2>1 DEF Flushed
  <2>3. \A a, b : Assign(a, b, a) = b
    BY DEF Assign
  <2>4. Flushed(s) = s.row
    BY <2>1, <2>2, <2>3 DEF Row
  <2>5. s.pc # "opened" => \A l \in DOMAIN View(s) : Held(s, l) = View(s)[l]
    <3> SUFFICES ASSUME s.pc # "opened", NEW l \in DOMAIN View(s)
                 PROVE  Held(s, l) = View(s)[l]
      OBVIOUS
    <3>1. s.known = View(s)
      BY <1>3 DEF Knows
    <3>2. CASE l = s.line
      BY <2>4, <3>2 DEF Held, View
    <3>3. CASE l # s.line
      BY <3>1, <3>3 DEF Held
    <3> QED BY <3>2, <3>3
  <2> QED BY <1>3, <2>4, <2>5
<1> QED BY <1>2, <1>3

\* The sum over the objects is then the sum over the rows.
LEMMA AloneSum ==
    ASSUME IInv, NEW t \in Slot, Knows(t), req[t].pc # "opened"
    PROVE  Sum(req[t]) = TotalOf(View(req[t]))
<1> DEFINE V == View(req[t])
<1>1. \A l \in Live(V) : Held(req[t], l) = V[l]
  BY AloneView DEF Live
<1>2. [l \in Live(V) |-> Amount(Held(req[t], l))] = [l \in Live(V) |-> Amount(V[l])]
  BY <1>1
<1> HIDE DEF V
<1>3. V = View(req[t])
  BY DEF V
<1> QED BY <1>2, <1>3 DEF Sum, TotalOf

\* If one is alone, it is the only one at work.
LEMMA AloneIsOne ==
    ASSUME AloneKnows, NEW t \in Slot, InFlight(t)
    PROVE  alone \subseteq {t}
BY DEF AloneKnows, Knows

\* The others keep an entry that is nobody's business.
LEMMA BeginKnows ==
    ASSUME IInv, AloneKnows, NEW t \in Slot, NEW s, Begin(t, s), s # Idle, s.pc = "opened",
           s.kind = "create" => s.known = lines /\ s.loaded = total,
           s.kind # "create" => s.old = lines[s.line]
    PROVE  AloneKnows'
<1>1. /\ req'[t] = s /\ \A u \in Slot \ {t} : req'[u] = req[u]
      /\ lines' = lines /\ total' = total /\ ~InFlight(t)
      /\ alone' = IF Others(t) = {} THEN alone \cup {t} ELSE {}
  BY DEF Begin, IInv, Shape
<1>2. CASE Others(t) # {}
  BY <1>1, <1>2 DEF AloneKnows
<1>3. CASE Others(t) = {}
  <2>1. \A u \in Slot : ~InFlight(u)
    BY <1>1, <1>3 DEF Others
  <2>2. alone' = {t}
    BY <1>1, <1>3, <2>1 DEF AloneKnows, Knows
  <2>3. Knows(t)'
    BY <1>1, <2>1 DEF Knows, InFlight
  <2> QED BY <2>2, <2>3 DEF AloneKnows
<1> QED BY <1>2, <1>3

LEMMA ClerkKnows ==
    ASSUME IInv, AloneKnows, NEW t \in Slot, Clerk(t)
    PROVE  AloneKnows'
<1>1. ASSUME NEW l \in Line, NEW i \in Item, NEW n \in Count, NEW p \in Price,
             BeginCreate(t, l, i, n, p)
      PROVE  AloneKnows'
  <2> DEFINE s == Session("create", l, NewLine(i, n, p), NewLine(i, n, p), lines, total)
  <2>1. Begin(t, s)
    BY <1>1 DEF BeginCreate
  <2>2. /\ s # Idle /\ s.pc = "opened" /\ s.kind = "create"
        /\ s.known = lines /\ s.loaded = total
    BY DEF Session, Idle
  <2> HIDE DEF s
  <2> QED BY <2>1, <2>2, BeginKnows
<1>2. ASSUME NEW l \in Line, NEW i \in Item, NEW n \in Count, NEW p \in Price,
             BeginEdit(t, l, i, n, p)
      PROVE  AloneKnows'
  <2> DEFINE s == Session("edit", l, lines[l], NewLine(i, n, PriceOn(l, i, p)), NoRows, 0)
  <2>1. Begin(t, s)
    BY <1>2 DEF BeginEdit
  <2>2. /\ s # Idle /\ s.pc = "opened" /\ s.kind = "edit"
        /\ s.line = l /\ s.old = lines[l]
    BY DEF Session, Idle
  <2> HIDE DEF s
  <2> QED BY <2>1, <2>2, BeginKnows
<1>3. ASSUME NEW l \in Line, BeginDelete(t, l) PROVE AloneKnows'
  <2> DEFINE s == Session("delete", l, lines[l], [lines[l] EXCEPT !.removed = TRUE], NoRows, 0)
  <2>1. Begin(t, s)
    BY <1>3 DEF BeginDelete
  <2>2. /\ s # Idle /\ s.pc = "opened" /\ s.kind = "delete"
        /\ s.line = l /\ s.old = lines[l]
    BY DEF Session, Idle
  <2> HIDE DEF s
  <2> QED BY <2>1, <2>2, BeginKnows
<1> QED BY <1>1, <1>2, <1>3 DEF Clerk

\* The flush leaves the session with the rows as they will be.
LEMMA FlushKnows ==
    ASSUME IInv, AloneKnows, NEW t \in Slot, Flush(t)
    PROVE  AloneKnows'
<1> DEFINE k == IF req[t].kind = "create" THEN req[t].known ELSE View(req[t])
           d == IF req[t].kind = "create" THEN req[t].loaded ELSE total
           n == [req[t] EXCEPT !.pc = "flushed", !.known = k, !.loaded = d]
<1>1. /\ InFlight(t) /\ req[t].pc = "opened"
      /\ lines' = lines /\ total' = total /\ alone' = alone
  BY DEF Flush, CanFlush
<1>2. Working(req[t]) /\ alone \subseteq {t}
  BY <1>1, WorkIsWork, AloneIsOne
<1>3. /\ req'[t] = n /\ \A u \in Slot \ {t} : req'[u] = req[u]
  BY DEF Flush, IInv, Shape
<1>4. k = IF req[t].kind = "create" THEN req[t].known ELSE View(req[t])
  OBVIOUS
<1> HIDE DEF k
<1>5. /\ n.pc = "flushed" /\ n.kind = req[t].kind /\ n.line = req[t].line
      /\ n.old = req[t].old /\ n.row = req[t].row
      /\ n.known = k /\ n.loaded = d
  BY <1>2 DEF Working, Fields
<1>6. d = IF req[t].kind = "create" THEN req[t].loaded ELSE total
  OBVIOUS
<1> HIDE DEF d, n
<1>7. View(req[t])' = View(req[t])
  BY <1>1, <1>3, <1>5 DEF View, Flushed
<1>8. ASSUME t \in alone PROVE Knows(t)'
  <2>1. n # Idle /\ InFlight(t)'
    BY <1>1, <1>2, <1>3, <1>5 DEF InFlight, Idle, Working
  <2>2. Knows(t)
    BY <1>8 DEF AloneKnows
  <2>3. \A u \in Slot \ {t} : ~InFlight(u)'
    BY <1>3, <2>2 DEF Knows, InFlight
  <2> QED BY <1>1, <1>3, <1>4, <1>5, <1>6, <1>7, <2>1, <2>2, <2>3 DEF Knows
<1> QED BY <1>1, <1>2, <1>8 DEF AloneKnows

LEMMA SumUpKnows ==
    ASSUME IInv, AloneKnows, NEW t \in Slot, SumUp(t)
    PROVE  AloneKnows'
<1> DEFINE d == Sum(req[t])
           n == [req[t] EXCEPT !.pc = "summed", !.sum = d]
<1>1. /\ InFlight(t) /\ req[t].pc = "flushed"
      /\ lines' = lines /\ total' = total /\ alone' = alone
  BY DEF SumUp
<1>2. Working(req[t]) /\ alone \subseteq {t}
  BY <1>1, WorkIsWork, AloneIsOne
<1>3. /\ req'[t] = n /\ \A u \in Slot \ {t} : req'[u] = req[u]
  BY DEF SumUp, IInv, Shape
<1>4. d = Sum(req[t])
  OBVIOUS
<1> HIDE DEF d
<1>5. /\ n.pc = "summed" /\ n.kind = req[t].kind /\ n.line = req[t].line
      /\ n.old = req[t].old /\ n.row = req[t].row
      /\ n.known = req[t].known /\ n.loaded = req[t].loaded /\ n.sum = d
  BY <1>2 DEF Working, Fields
<1> HIDE DEF n
<1>6. View(req[t])' = View(req[t])
  BY <1>1, <1>3, <1>5 DEF View, Flushed
<1>7. TotalOf(View(req[t]))' = TotalOf(View(req[t]))
  BY <1>6 DEF TotalOf, Live
<1>8. ASSUME t \in alone PROVE Knows(t)'
  <2>1. n # Idle /\ InFlight(t)'
    BY <1>1, <1>2, <1>3, <1>5 DEF InFlight, Idle, Working
  <2>2. Knows(t)
    BY <1>8 DEF AloneKnows
  <2>3. \A u \in Slot \ {t} : ~InFlight(u)'
    BY <1>3, <2>2 DEF Knows, InFlight
  <2>4. d = TotalOf(View(req[t]))
    BY <1>1, <1>4, <2>2, AloneSum
  <2> QED BY <1>1, <1>3, <1>5, <1>6, <1>7, <2>1, <2>2, <2>3, <2>4 DEF Knows
<1> QED BY <1>1, <1>2, <1>8 DEF AloneKnows

LEMMA NextKnows == IInv /\ AloneKnows /\ [Next]_vars => AloneKnows'
<1> SUFFICES ASSUME IInv, AloneKnows, [Next]_vars PROVE AloneKnows'
  OBVIOUS
<1>1. ASSUME NEW t \in Slot, FlushRefused(t) \/ Commit(t) \/ Fail(t) PROVE AloneKnows'
  <2>1. InFlight(t) /\ alone' = alone \ {t}
    BY <1>1 DEF FlushRefused, CanFlush, Commit, Fail, End
  <2> QED BY <2>1, AloneIsOne DEF AloneKnows
<1>2. CASE UNCHANGED vars
  <2>1. req' = req /\ lines' = lines /\ total' = total /\ alone' = alone
    BY <1>2 DEF vars
  <2>2. ASSUME NEW t \in alone PROVE Knows(t)'
    <3>1. View(req[t])' = View(req[t])
      BY <2>1 DEF View, Flushed
    <3>2. TotalOf(View(req[t]))' = TotalOf(View(req[t]))
      BY <3>1 DEF TotalOf, Live
    <3>3. InFlight(t)' = InFlight(t) /\ \A u \in Slot : InFlight(u)' = InFlight(u)
      BY <2>1 DEF InFlight
    <3>4. Knows(t)
      BY DEF AloneKnows
    <3> QED BY <2>1, <3>1, <3>2, <3>3, <3>4 DEF Knows
  <2> QED BY <2>1, <2>2 DEF AloneKnows
<1> QED BY <1>1, <1>2, ClerkKnows, FlushKnows, SumUpKnows DEF Next, Progress

LEMMA InitKnows == Init => AloneKnows
BY DEF Init, AloneKnows

-----------------------------------------------------------------------------
(* The theorems.                                                           *)

\* However many clerks add and change lines at once, the unique index keeps a product
\* with a variety to one line of the order; of the bare items it says nothing.
THEOREM OneLineEach == Spec => []OneLinePerItem
<1>1. IInv => OneLinePerItem
  BY DEF IInv
<1> QED BY <1>1, Invariance, PTL

\* No commit brings back a line that has been deleted since it was loaded.
THEOREM DeletedForGood == Spec => RemovedStaysRemoved
<1> DEFINE A == \A l \in DOMAIN lines : lines[l].removed =>
                   l \in DOMAIN lines' /\ lines'[l].removed
<1>1. IInv /\ [Next]_vars => A
  <2> SUFFICES ASSUME IInv, [Next]_vars PROVE A
    OBVIOUS
  <2>1. ASSUME lines' = lines PROVE A
    BY <2>1
  <2>2. ASSUME NEW t \in Slot, Commit(t) PROVE A
    <3>1. InFlight(t) /\ lines' = View(req[t])
      BY <2>2 DEF Commit
    <3>2. req[t].line \in DOMAIN lines /\ lines[req[t].line].removed =>
             Flushed(req[t]).removed
      BY <3>1, FlushedRow
    <3>3. /\ DOMAIN lines' = DOMAIN lines \cup {req[t].line}
          /\ lines'[req[t].line] = Flushed(req[t])
          /\ \A l \in DOMAIN lines \ {req[t].line} : lines'[l] = lines[l]
      BY <3>1 DEF View
    <3> QED BY <3>2, <3>3
  <2>3. ASSUME NEW t \in Slot, Clerk(t) PROVE lines' = lines
    BY <2>3 DEF Clerk, BeginCreate, BeginEdit, BeginDelete, Begin
  <2>4. ASSUME NEW t \in Slot, Flush(t) \/ FlushRefused(t) \/ SumUp(t) \/ Fail(t)
        PROVE  lines' = lines
    BY <2>4 DEF Flush, FlushRefused, SumUp, Fail
  <2>5. UNCHANGED vars => lines' = lines
    BY DEF vars
  <2> QED BY <2>1, <2>2, <2>3, <2>4, <2>5 DEF Next, Progress
<1>2. Spec => [][A]_vars
  BY <1>1, Invariance, PTL DEF Spec
<1> QED BY <1>2 DEF RemovedStaysRemoved

\* A clerk who has the order to themselves from the first read to the commit
\* leaves the amount of the lines, however wrong it was before.
THEOREM AlonePutsRight == Spec => AloneIsRight
<1> DEFINE A == \A t \in alone : Commit(t) => total' = TotalOf(lines')
<1>1. IInv /\ AloneKnows => A
  <2> SUFFICES ASSUME IInv, AloneKnows, NEW t \in alone, Commit(t)
               PROVE  total' = TotalOf(lines')
    OBVIOUS
  <2>1. /\ req[t].pc = "summed" /\ lines' = View(req[t])
        /\ total' = Assign(req[t].loaded, req[t].sum, total)
    BY DEF Commit
  <2>2. req[t].loaded = total /\ req[t].sum = TotalOf(View(req[t]))
    BY <2>1 DEF AloneKnows, Knows
  <2> QED BY <2>1, <2>2 DEF Assign
<1>2. Spec => []AloneKnows
  BY InitKnows, NextKnows, Invariance, PTL DEF Spec
<1>3. Spec => [][A]_vars
  BY <1>1, <1>2, Invariance, PTL
<1> QED BY <1>3 DEF AloneIsRight
-----------------------------------------------------------------------------
(* Types: the sum of an order's lines is a number, whatever the lines.     *)

\* A few lines have been added so far, each of its type.
Typed == TypeOK /\ IsFiniteSet(DOMAIN lines)

LEMMA RowsType ==
    ASSUME NEW rows
    PROVE  rows \in Rows <=> /\ rows = [l \in DOMAIN rows |-> rows[l]]
                             /\ DOMAIN rows \subseteq Line
                             /\ \A l \in DOMAIN rows : rows[l] \in Row
<1>1. rows \in Rows <=> \E L \in SUBSET Line : rows \in [L -> Row]
  BY DEF Rows
<1>2. ASSUME NEW L \in SUBSET Line, rows \in [L -> Row]
      PROVE  /\ rows = [l \in DOMAIN rows |-> rows[l]]
             /\ DOMAIN rows \subseteq Line
             /\ \A l \in DOMAIN rows : rows[l] \in Row
  BY <1>2
<1>3. ASSUME rows = [l \in DOMAIN rows |-> rows[l]], DOMAIN rows \subseteq Line,
             \A l \in DOMAIN rows : rows[l] \in Row
      PROVE  DOMAIN rows \in SUBSET Line /\ rows \in [DOMAIN rows -> Row]
  BY <1>3
<1> QED BY <1>1, <1>2, <1>3

\* What a request sees of the lines has their type, and is as finite.
LEMMA ViewType ==
    ASSUME IInv, Typed, NEW t \in Slot, InFlight(t)
    PROVE  /\ View(req[t]) \in Rows
           /\ IsFiniteSet(DOMAIN View(req[t]))
           /\ DOMAIN View(req[t]) = DOMAIN lines \cup {req[t].line}
<1> DEFINE V == View(req[t])
<1>1. /\ V = [l \in DOMAIN V |-> V[l]]
      /\ DOMAIN V = DOMAIN lines \cup {req[t].line}
      /\ \A l \in DOMAIN V : V[l] = IF l = req[t].line THEN Flushed(req[t]) ELSE lines[l]
  BY DEF View
<1>2. Flushed(req[t]) \in Row
  BY FlushedRow
<1>3. req[t].line \in Line
  BY DEF Typed, TypeOK, InFlight, Request
<1>4. DOMAIN lines \subseteq Line /\ \A l \in DOMAIN lines : lines[l] \in Row
  BY RowsType DEF Typed, TypeOK
<1>5. IsFiniteSet(DOMAIN lines \cup {req[t].line})
  BY FS_AddElement DEF Typed
<1> HIDE DEF V
<1>6. V \in Rows
  BY <1>1, <1>2, <1>3, <1>4, RowsType
<1> QED BY <1>1, <1>5, <1>6 DEF V

LEMMA AmountType == \A row \in Row : Amount(row) \in Nat
<1>1. \A row \in Row : row.price \in Nat /\ row.count \in Nat
  BY AmountsType DEF Row
<1> QED BY <1>1 DEF Amount

\* The sum is over rows whose amounts are numbers.
LEMMA SumOfLines ==
    ASSUME IInv, Typed, NEW t \in Slot, InFlight(t)
    PROVE  Sum(req[t]) \in Nat
<1> DEFINE L == Live(View(req[t]))
           amounts == [l \in L |-> Amount(Held(req[t], l))]
<1>1. L \subseteq DOMAIN lines \cup {req[t].line} /\ IsFiniteSet(L)
  <2>1. L \in SUBSET DOMAIN View(req[t])
    BY DEF Live
  <2> HIDE DEF L
  <2> QED BY <2>1, ViewType, FS_Subset
<1>2. ASSUME NEW l \in L PROVE Held(req[t], l) \in Row
  <2>1. req[t].row \in Row /\ req[t].known \in Rows
    BY DEF Typed, TypeOK, InFlight, Request
  <2>2. \A m \in DOMAIN req[t].known : req[t].known[m] \in Row
    BY <2>1, RowsType
  <2>3. \A m \in DOMAIN lines : lines[m] \in Row
    BY RowsType DEF Typed, TypeOK
  <2> HIDE DEF L
  <2> QED BY <1>1, <2>1, <2>2, <2>3 DEF Held
<1>3. amounts \in [L -> Nat]
  BY <1>2, AmountType
<1>4. SumFunction(amounts) \in Nat
  <2> HIDE DEF amounts, L
  <2> QED BY <1>1, <1>3, SumType
<1> QED BY <1>4 DEF Sum

LEMMA SessionType ==
    ASSUME NEW kind \in {"create", "edit", "delete"}, NEW l \in Line, NEW old \in Row,
           NEW row \in Row, NEW known \in Rows, NEW loaded \in Nat
    PROVE  Session(kind, l, old, row, known, loaded) \in Request
BY DEF Session, Request

LEMMA SlotTyped ==
    ASSUME IInv, Typed, NEW t \in Slot, NEW s \in {Idle} \cup Request,
           req' = [req EXCEPT ![t] = s]
    PROVE  \A u \in Slot : req'[u] \in {Idle} \cup Request
<1>1. \A u \in Slot : req'[u] = IF u = t THEN s ELSE req[u]
  BY DEF IInv, Shape
<1> QED BY <1>1 DEF Typed, TypeOK

LEMMA BeginTyped ==
    ASSUME IInv, Typed, NEW t \in Slot, NEW s \in Request, Begin(t, s)
    PROVE  Typed'
<1>1. \A u \in Slot : req'[u] \in {Idle} \cup Request
  BY SlotTyped DEF Begin
<1>2. lines' = lines /\ total' = total /\ alone' \subseteq Slot
  BY DEF Begin, Typed, TypeOK
<1> QED BY <1>1, <1>2 DEF Typed, TypeOK

LEMMA ClerkTyped ==
    ASSUME IInv, Typed, NEW t \in Slot, Clerk(t)
    PROVE  Typed'
<1>1. NoRows \in Rows /\ lines \in Rows /\ total \in Nat
  BY RowsType DEF NoRows, Typed, TypeOK
<1>2. \A l \in DOMAIN lines : lines[l] \in Row
  BY <1>1, RowsType
<1>3. ASSUME NEW l \in Line, NEW i \in Item, NEW n \in Count, NEW p \in Price,
             BeginCreate(t, l, i, n, p) \/ BeginEdit(t, l, i, n, p)
      PROVE  Typed'
  <2>1. NewLine(i, n, p) \in Row
    BY DEF NewLine, Row
  <2>2. CASE BeginCreate(t, l, i, n, p)
    <3>1. Session("create", l, NewLine(i, n, p), NewLine(i, n, p), lines, total) \in Request
      BY <1>1, <2>1, SessionType
    <3> QED BY <2>2, <3>1, BeginTyped DEF BeginCreate
  <2>3. CASE BeginEdit(t, l, i, n, p)
    <3>1. lines[l] \in Row
      BY <1>2, <2>3 DEF BeginEdit, Live
    <3>2. NewLine(i, n, PriceOn(l, i, p)) \in Row
      BY <3>1 DEF NewLine, PriceOn, Row
    <3>3. Session("edit", l, lines[l], NewLine(i, n, PriceOn(l, i, p)), NoRows, 0) \in Request
      BY <1>1, <3>1, <3>2, SessionType
    <3> QED BY <2>3, <3>3, BeginTyped DEF BeginEdit
  <2> QED BY <1>3, <2>2, <2>3
<1>4. ASSUME NEW l \in Line, BeginDelete(t, l) PROVE Typed'
  <2>1. lines[l] \in Row
    BY <1>2, <1>4 DEF BeginDelete
  <2>2. [lines[l] EXCEPT !.removed = TRUE] \in Row
    BY <2>1 DEF Row
  <2>3. Session("delete", l, lines[l], [lines[l] EXCEPT !.removed = TRUE], NoRows, 0)
           \in Request
    BY <1>1, <2>1, <2>2, SessionType
  <2> QED BY <1>4, <2>3, BeginTyped DEF BeginDelete
<1> QED BY <1>3, <1>4 DEF Clerk

LEMMA ProgressTyped ==
    ASSUME IInv, Typed, NEW t \in Slot, Progress(t) \/ Fail(t)
    PROVE  Typed'
<1>1. InFlight(t)
  BY DEF Progress, Flush, FlushRefused, CanFlush, SumUp, Commit, Fail
<1>2. /\ req[t] \in Request /\ total \in Nat /\ alone \subseteq Slot
      /\ \A k \in Rows, d \in Nat :
            [req[t] EXCEPT !.pc = "flushed", !.known = k, !.loaded = d] \in Request
      /\ \A d \in Nat : [req[t] EXCEPT !.pc = "summed", !.sum = d] \in Request
      /\ req[t].known \in Rows /\ req[t].loaded \in Nat /\ req[t].sum \in Nat
  BY <1>1 DEF Typed, TypeOK, InFlight, Request
<1>3. CASE Flush(t)
  <2> DEFINE k == IF req[t].kind = "create" THEN req[t].known ELSE View(req[t])
             d == IF req[t].kind = "create" THEN req[t].loaded ELSE total
             s == [req[t] EXCEPT !.pc = "flushed", !.known = k, !.loaded = d]
  <2>1. k \in Rows /\ d \in Nat
    BY <1>1, <1>2, ViewType
  <2>2. req' = [req EXCEPT ![t] = s] /\ UNCHANGED <<lines, total, alone>>
    BY <1>3 DEF Flush
  <2> HIDE DEF k, d
  <2>3. s \in Request
    BY <1>2, <2>1
  <2> HIDE DEF s
  <2>4. \A u \in Slot : req'[u] \in {Idle} \cup Request
    BY <2>2, <2>3, SlotTyped
  <2> QED BY <2>2, <2>4 DEF Typed, TypeOK
<1>4. CASE SumUp(t)
  <2> DEFINE d == Sum(req[t])
             s == [req[t] EXCEPT !.pc = "summed", !.sum = d]
  <2>1. d \in Nat
    BY <1>1, SumOfLines
  <2>2. req' = [req EXCEPT ![t] = s] /\ UNCHANGED <<lines, total, alone>>
    BY <1>4 DEF SumUp
  <2> HIDE DEF d
  <2>3. s \in Request
    BY <1>2, <2>1
  <2> HIDE DEF s
  <2>4. \A u \in Slot : req'[u] \in {Idle} \cup Request
    BY <2>2, <2>3, SlotTyped
  <2> QED BY <2>2, <2>4 DEF Typed, TypeOK
<1>5. ASSUME End(t)
      PROVE  (\A u \in Slot : req'[u] \in {Idle} \cup Request) /\ alone' \subseteq Slot
  BY <1>2, <1>5, SlotTyped DEF End
<1>6. CASE FlushRefused(t) \/ Fail(t)
  <2>1. End(t) /\ UNCHANGED <<lines, total>>
    BY <1>6 DEF FlushRefused, Fail
  <2> QED BY <1>5, <2>1 DEF Typed, TypeOK
<1>7. CASE Commit(t)
  <2>1. End(t) /\ lines' = View(req[t]) /\ total' \in {req[t].sum, total}
    BY <1>7 DEF Commit, Assign
  <2>2. lines' \in Rows /\ IsFiniteSet(DOMAIN lines')
    BY <1>1, <2>1, ViewType
  <2> QED BY <1>2, <1>5, <2>1, <2>2 DEF Typed, TypeOK
<1> QED BY <1>3, <1>4, <1>6, <1>7 DEF Progress

LEMMA NextTyped == IInv /\ Typed /\ [Next]_vars => Typed'
<1>1. Typed /\ UNCHANGED vars => Typed'
  BY DEF vars, Typed, TypeOK
<1> QED BY <1>1, ClerkTyped, ProgressTyped DEF Next

LEMMA InitTyped == Init => Typed
<1> SUFFICES ASSUME Init PROVE Typed
  OBVIOUS
<1>1. lines \in Rows /\ IsFiniteSet(DOMAIN lines) /\ \A l \in DOMAIN lines : lines[l] \in Row
  BY RowsType DEF Init
<1> DEFINE amounts == [l \in Live(lines) |-> Amount(lines[l])]
<1>2. Live(lines) \subseteq DOMAIN lines /\ IsFiniteSet(Live(lines))
  BY <1>1, FS_Subset DEF Init
<1>3. amounts \in [Live(lines) -> Nat]
  BY <1>1, <1>2, AmountType
<1>4. SumFunction(amounts) \in Nat
  <2> HIDE DEF amounts
  <2> QED BY <1>2, <1>3, SumType
<1>5. total \in Nat
  BY <1>4 DEF Init, TotalOf
<1> QED BY <1>1, <1>5 DEF Init, Typed, TypeOK

\* Every variable keeps its type: in particular an amount, which is a sum over
\* whatever lines there are, is always a number.
THEOREM TypeCorrect == Spec => []TypeOK
<1>1. Typed => TypeOK
  BY DEF Typed
<1> QED BY <1>1, InitTyped, NextTyped, Invariance, PTL DEF Spec
=============================================================================
