---------------------------- MODULE ApiCart_proofs ----------------------------
(***************************************************************************)
(* No piece is ordered twice and none is lost outside the named mishaps,   *)
(* for any items and any number of requests.  The unique reference code    *)
(* lets one order at a time be between its insert and its commit; that     *)
(* order's lines and the cart share the pieces that are not yet ordered.   *)
(***************************************************************************)
EXTENDS ApiCart, Sums, FiniteSetTheorems, TLAPS

Inserted(t) == At(t, "lined") \/ At(t, "cleared")

Fields == {"pc", "checkout", "loops", "size", "total", "count", "code", "lines",
           "steady"}

Stages == {"loop", "totalled", "coded", "lined", "cleared"}

\* What the proof needs to know of a slot; of the amounts it needs nothing.
Proper(s) == \/ s = Idle
             \/ /\ s = [f \in Fields |-> s[f]]
                /\ s.pc \in Stages
                /\ s.code \in Nat
                /\ s.lines \in Pieces

Shape == /\ cart \in Pieces
         /\ ordered \in Pieces
         /\ added \in Pieces
         /\ wanted \in Pieces
         /\ \A i \in Item : cart[i] <= wanted[i]
         /\ top \in Nat
         /\ req = [t \in Slot |-> req[t]]
         /\ \A t \in Slot : Proper(req[t])

\* A code was the next one when it was read; one that is inserted still is.
CodesAreNext == \A t \in Slot : /\ At(t, "coded") => req[t].code <= top + 1
                                /\ Inserted(t) => req[t].code = top + 1

OneInserts == \A t, u \in Slot : Inserted(t) /\ Inserted(u) => t = u

PiecesLast ==
    \A i \in Item :
        /\ ordered[i] + cart[i] <= added[i]
        /\ \A t \in Slot :
              /\ At(t, "lined") => ordered[i] + req[t].lines[i] <= added[i]
              /\ At(t, "cleared") => ordered[i] + req[t].lines[i] + cart[i] <= added[i]

\* Where the pieces are that a customer wants.
Accounted ==
    ~mishap =>
        /\ \A t \in Slot : At(t, "lined") => req[t].lines = cart
        /\ \A t \in Slot : At(t, "cleared") =>
              \A i \in Item : wanted[i] = cart[i] + ordered[i] + req[t].lines[i]
        /\ (\A t \in Slot : ~At(t, "cleared")) =>
              \A i \in Item : wanted[i] = cart[i] + ordered[i]

IInv == Shape /\ CodesAreNext /\ OneInserts /\ PiecesLast /\ Accounted

-----------------------------------------------------------------------------
(* What a step does to the slots.                                          *)

\* Slot u is where it was, with the same code and lines.
Stays(u) == /\ Proper(req'[u])
            /\ req'[u].pc = req[u].pc
            /\ (At(u, "coded") \/ Inserted(u)) => /\ req'[u].code = req[u].code
                                                  /\ req'[u].lines = req[u].lines

\* All slots but t stay, and the slots are the same.
OthersStay(t) == /\ req' = [u \in Slot |-> req'[u]]
                 /\ \A u \in Slot \ {t} : Stays(u)

LEMMA IdleIsNoStage == Idle.pc = "idle" /\ "idle" \notin Stages
BY DEF Idle, Stages

\* A request at work has all fields.
LEMMA WorkHasFields ==
    ASSUME NEW s, Proper(s), s.pc # "idle"
    PROVE  /\ s = [f \in Fields |-> s[f]]
           /\ s.pc \in Stages /\ s.code \in Nat /\ s.lines \in Pieces
BY IdleIsNoStage DEF Proper

LEMMA LoopingProper ==
    ASSUME NEW b, NEW n, NEW c
    PROVE  /\ Proper(Looping(b, n, c))
           /\ Looping(b, n, c).pc \in {"idle", "loop"}
<1>1. None \in Pieces
  BY DEF None, Pieces
<1>2. CASE c = None
  BY <1>2 DEF Looping, Proper, Idle
<1>3. CASE c # None
  <2> DEFINE s == [pc |-> "loop", checkout |-> b, loops |-> n, size |-> Size(c),
                   total |-> 0, count |-> 0, code |-> 0, lines |-> None, steady |-> TRUE]
  <2>1. Looping(b, n, c) = s
    BY <1>3 DEF Looping
  <2>2. s.pc = "loop" /\ s.code = 0 /\ s.lines = None
    OBVIOUS
  <2>3. s = [f \in Fields |-> s[f]]
    BY DEF Fields
  <2> QED BY <1>1, <2>1, <2>2, <2>3 DEF Proper, Stages
<1> QED BY <1>2, <1>3

\* A step of slot t alone.
LEMMA GotoStays ==
    ASSUME Shape, NEW t \in Slot, NEW s, Goto(t, s)
    PROVE  OthersStay(t) /\ req'[t] = s
BY DEF Goto, OthersStay, Stays, Shape

\* A change of the cart disturbs the others in nothing but steady.
LEMMA BecomeStays ==
    ASSUME Shape, NEW t \in Slot, NEW s, NEW c, Become(t, s, c)
    PROVE  OthersStay(t) /\ req'[t] = s /\ cart' = c
<1>1. cart' = c /\ req' = [u \in Slot |-> IF u = t THEN s ELSE Disturbed(u, c)]
  BY DEF Become
<1>2. ASSUME NEW u \in Slot \ {t} PROVE Stays(u)
  <2>1. req'[u] = Disturbed(u, c)
    BY <1>1, <1>2
  <2>2. CASE req'[u] = req[u]
    BY <2>2 DEF Stays, Shape
  <2>3. CASE req'[u] # req[u]
    <3>1. req'[u] = [req[u] EXCEPT !.steady = FALSE] /\ (At(u, "totalled") \/ At(u, "coded"))
      BY <2>1, <2>3 DEF Disturbed
    <3>2. req[u].pc # "idle"
      BY <3>1 DEF At
    <3>3. /\ req[u] = [f \in Fields |-> req[u][f]]
          /\ req[u].pc \in Stages /\ req[u].code \in Nat /\ req[u].lines \in Pieces
      BY <3>2, WorkHasFields DEF Shape
    <3>4. /\ req'[u] = [f \in Fields |-> req'[u][f]]
          /\ \A f \in Fields \ {"steady"} : req'[u][f] = req[u][f]
      BY <3>1, <3>3
    <3>5. /\ req'[u].pc = req[u].pc
          /\ req'[u].code = req[u].code
          /\ req'[u].lines = req[u].lines
      BY <3>4 DEF Fields
    <3> QED BY <3>3, <3>4, <3>5 DEF Stays, Proper
  <2> QED BY <2>2, <2>3
<1> QED BY <1>1, <1>2 DEF OthersStay

-----------------------------------------------------------------------------
(* The invariant is kept.                                                  *)

LEMMA InitInv == Init => IInv
<1> SUFFICES ASSUME Init PROVE IInv
  OBVIOUS
<1>1. \A t \in Slot : req[t] = Idle /\ req[t].pc = "idle"
  BY DEF Init, Idle
<1>2. /\ cart = None /\ ordered = None /\ added = None /\ wanted = None /\ top = 0
      /\ None \in Pieces /\ \A i \in Item : None[i] = 0
      /\ req = [t \in Slot |-> req[t]]
  BY DEF Init, None, Pieces
<1>3. Shape
  BY <1>1, <1>2 DEF Shape, Proper
<1>4. CodesAreNext /\ OneInserts
  BY <1>1 DEF CodesAreNext, OneInserts, Inserted, At
<1>5. PiecesLast
  BY <1>1, <1>2 DEF PiecesLast, At
<1>6. Accounted
  BY <1>1, <1>2 DEF Accounted, At
<1> QED BY <1>3, <1>4, <1>5, <1>6 DEF IInv

\* The slots are of the right shape when t becomes proper and the others stay.
LEMMA SlotsShape ==
    ASSUME NEW t \in Slot, OthersStay(t), Proper(req'[t])
    PROVE  /\ req' = [u \in Slot |-> req'[u]]
           /\ \A u \in Slot : Proper(req'[u])
BY DEF OthersStay, Stays

\* A slot that did not move is in a stage after the step if it was before.
LEMMA StaysAt ==
    ASSUME NEW u, Stays(u)
    PROVE  /\ At(u, "coded")' = At(u, "coded")
           /\ At(u, "lined")' = At(u, "lined")
           /\ At(u, "cleared")' = At(u, "cleared")
           /\ Inserted(u)' = Inserted(u)
           /\ At(u, "coded") \/ Inserted(u) =>
                 req'[u].code = req[u].code /\ req'[u].lines = req[u].lines
BY DEF Stays, At, Inserted

\* A request that is not among those that insert, before or after.
Harmless(t) == /\ ~At(t, "coded")'
               /\ ~Inserted(t)'
               /\ Proper(req'[t])

\* A call of the customer that leaves the cart as c.
LEMMA ChangeInv ==
    ASSUME IInv, NEW t \in Slot, NEW n, NEW c \in Pieces, Change(t, n, c)
    PROVE  IInv'
<1>1. OthersStay(t) /\ req'[t] = Looping(FALSE, n, c) /\ cart' = c
  BY BecomeStays DEF Change, IInv
<1>2. Proper(req'[t]) /\ req'[t].pc \in {"idle", "loop"}
  BY <1>1, LoopingProper
<1>3. Harmless(t) /\ ~At(t, "lined") /\ ~At(t, "cleared")
  BY <1>2 DEF Harmless, At, Inserted, Change
<1>4. /\ ordered' = ordered /\ top' = top
      /\ added' = [i \in Item |-> IF c[i] > cart[i] THEN added[i] + (c[i] - cart[i])
                                  ELSE added[i]]
      /\ wanted' = [i \in Item |-> (wanted[i] + c[i]) - cart[i]]
      /\ mishap' = (mishap \/ (c # cart /\ \E u \in Slot : At(u, "lined")))
  BY DEF Change
<1>5. \A i \in Item : /\ cart[i] \in Nat /\ c[i] \in Nat /\ added[i] \in Nat
                      /\ wanted[i] \in Nat /\ ordered[i] \in Nat
                      /\ cart[i] <= wanted[i]
  BY DEF IInv, Shape, Pieces
<1>6. \A i \in Item : /\ added'[i] \in Nat /\ added[i] <= added'[i]
                      /\ added[i] - cart[i] <= added'[i] - c[i]
                      /\ wanted'[i] \in Nat /\ wanted'[i] - c[i] = wanted[i] - cart[i]
  BY <1>4, <1>5
<1>7. Shape'
  <2>1. added' \in Pieces /\ wanted' \in Pieces
    BY <1>4, <1>6 DEF Pieces
  <2>2. \A i \in Item : cart'[i] <= wanted'[i]
    BY <1>1, <1>5, <1>6
  <2> QED BY <1>1, <1>2, <1>4, <2>1, <2>2, SlotsShape DEF IInv, Shape
<1>8. ASSUME NEW u \in Slot
      PROVE  /\ Inserted(u)' => Inserted(u) /\ u # t
             /\ At(u, "coded")' => At(u, "coded") /\ u # t
             /\ At(u, "lined")' => At(u, "lined") /\ u # t
             /\ At(u, "cleared")' => At(u, "cleared") /\ u # t
             /\ (At(u, "coded") \/ Inserted(u))' =>
                   req'[u].code = req[u].code /\ req'[u].lines = req[u].lines
  <2>1. CASE u = t
    BY <1>3, <2>1 DEF Harmless, Inserted
  <2>2. CASE u # t
    BY <1>1, <2>2, StaysAt DEF OthersStay
  <2> QED BY <2>1, <2>2
<1>9. CodesAreNext' /\ OneInserts'
  BY <1>4, <1>8 DEF IInv, CodesAreNext, OneInserts
<1>10. PiecesLast'
  <2> SUFFICES ASSUME NEW i \in Item
               PROVE  /\ ordered'[i] + cart'[i] <= added'[i]
                      /\ \A u \in Slot :
                            /\ At(u, "lined")' => ordered'[i] + req'[u].lines[i] <= added'[i]
                            /\ At(u, "cleared")' =>
                                  ordered'[i] + req'[u].lines[i] + cart'[i] <= added'[i]
    BY DEF PiecesLast, At
  <2>1. ordered'[i] + cart'[i] <= added'[i]
    BY <1>1, <1>4, <1>5, <1>6 DEF IInv, PiecesLast
  <2>2. ASSUME NEW u \in Slot, At(u, "lined")'
        PROVE  ordered'[i] + req'[u].lines[i] <= added'[i]
    <3>1. ordered[i] + req[u].lines[i] <= added[i] /\ req'[u].lines = req[u].lines
      BY <1>8, <2>2 DEF IInv, PiecesLast, Inserted
    <3>2. req[u].lines[i] \in Nat
      BY <1>8, <2>2, WorkHasFields DEF IInv, Shape, Pieces, At
    <3> QED BY <1>4, <1>5, <1>6, <3>1, <3>2
  <2>3. ASSUME NEW u \in Slot, At(u, "cleared")'
        PROVE  ordered'[i] + req'[u].lines[i] + cart'[i] <= added'[i]
    <3>1. ordered[i] + req[u].lines[i] + cart[i] <= added[i] /\ req'[u].lines = req[u].lines
      BY <1>8, <2>3 DEF IInv, PiecesLast, Inserted
    <3>2. req[u].lines[i] \in Nat
      BY <1>8, <2>3, WorkHasFields DEF IInv, Shape, Pieces, At
    <3> QED BY <1>1, <1>4, <1>5, <1>6, <3>1, <3>2
  <2> QED BY <2>1, <2>2, <2>3
<1>11. Accounted'
  <2> SUFFICES ASSUME ~mishap'
               PROVE  /\ \A u \in Slot : At(u, "lined")' => req'[u].lines = cart'
                      /\ \A u \in Slot : At(u, "cleared")' => \A i \in Item :
                            wanted'[i] = cart'[i] + ordered'[i] + req'[u].lines[i]
                      /\ (\A u \in Slot : ~At(u, "cleared")') =>
                            \A i \in Item : wanted'[i] = cart'[i] + ordered'[i]
    BY DEF Accounted, At
  <2>1. ~mishap /\ (c = cart \/ \A u \in Slot : ~At(u, "lined"))
    BY <1>4
  <2>2. ASSUME NEW u \in Slot, At(u, "lined")' PROVE req'[u].lines = cart'
    BY <1>1, <1>8, <2>1, <2>2 DEF IInv, Accounted, Inserted
  <2>3. ASSUME NEW u \in Slot, At(u, "cleared")', NEW i \in Item
        PROVE  wanted'[i] = cart'[i] + ordered'[i] + req'[u].lines[i]
    <3>1. wanted[i] = cart[i] + ordered[i] + req[u].lines[i] /\ req'[u].lines = req[u].lines
      BY <1>8, <2>1, <2>3 DEF IInv, Accounted, Inserted
    <3>2. req[u].lines[i] \in Nat
      BY <1>8, <2>3, WorkHasFields DEF IInv, Shape, Pieces, At
    <3> QED BY <1>1, <1>4, <1>5, <3>1, <3>2
  <2>4. ASSUME \A u \in Slot : ~At(u, "cleared")', NEW i \in Item
        PROVE  wanted'[i] = cart'[i] + ordered'[i]
    <3>1. \A u \in Slot : ~At(u, "cleared")
      BY <1>1, <1>3, <2>4, StaysAt DEF OthersStay
    <3>2. wanted[i] = cart[i] + ordered[i]
      BY <2>1, <3>1 DEF IInv, Accounted
    <3> QED BY <1>1, <1>4, <1>5, <3>2
  <2> QED BY <2>2, <2>3, <2>4
<1> QED BY <1>7, <1>9, <1>10, <1>11 DEF IInv

Quiet == UNCHANGED <<cart, ordered, top, added, wanted>>

\* A request goes on with what inserts nothing, or ends.
LEMMA GotoInv ==
    ASSUME IInv, NEW t \in Slot, NEW s, Goto(t, s), Proper(s),
           s.pc \in {"idle", "loop", "totalled"}, Quiet,
           mishap => mishap',
           At(t, "cleared") => mishap' \/ req[t].lines = None
    PROVE  IInv'
<1>1. OthersStay(t) /\ req'[t] = s
  BY GotoStays DEF IInv
<1>2. Harmless(t)
  BY <1>1 DEF Harmless, At, Inserted
<1>3. ASSUME NEW u \in Slot
      PROVE  /\ Inserted(u)' => Inserted(u) /\ u # t
             /\ At(u, "coded")' => At(u, "coded") /\ u # t
             /\ At(u, "lined")' => At(u, "lined") /\ u # t
             /\ At(u, "cleared")' => At(u, "cleared") /\ u # t
             /\ (At(u, "coded") \/ Inserted(u))' =>
                   req'[u].code = req[u].code /\ req'[u].lines = req[u].lines
  <2>1. CASE u = t
    BY <1>2, <2>1 DEF Harmless, Inserted
  <2>2. CASE u # t
    BY <1>1, <2>2, StaysAt DEF OthersStay
  <2> QED BY <2>1, <2>2
<1>4. Shape'
  BY <1>1, SlotsShape DEF IInv, Shape, Quiet
<1>5. CodesAreNext' /\ OneInserts'
  BY <1>3 DEF IInv, CodesAreNext, OneInserts, Quiet
<1>6. PiecesLast'
  BY <1>3 DEF IInv, PiecesLast, Inserted, Quiet
<1>7. Accounted'
  <2> SUFFICES ASSUME ~mishap' PROVE Accounted'
    BY DEF Accounted
  <2>1. ~mishap /\ (At(t, "cleared") => req[t].lines = None)
    OBVIOUS
  <2>2. ASSUME NEW u \in Slot, At(u, "lined")' PROVE req'[u].lines = cart'
    BY <1>3, <2>1, <2>2 DEF IInv, Accounted, Inserted, Quiet
  <2>3. ASSUME NEW u \in Slot, At(u, "cleared")', NEW i \in Item
        PROVE  wanted'[i] = cart'[i] + ordered'[i] + req'[u].lines[i]
    BY <1>3, <2>1, <2>3 DEF IInv, Accounted, Inserted, Quiet
  <2>4. ASSUME \A u \in Slot : ~At(u, "cleared")', NEW i \in Item
        PROVE  wanted'[i] = cart'[i] + ordered'[i]
    <3>1. CASE At(t, "cleared")
      <4>1. wanted[i] = cart[i] + ordered[i] + None[i]
        BY <2>1, <3>1 DEF IInv, Accounted
      <4>2. None[i] = 0 /\ cart[i] \in Nat /\ ordered[i] \in Nat
        BY DEF None, IInv, Shape, Pieces
      <4> QED BY <4>1, <4>2 DEF Quiet
    <3>2. CASE ~At(t, "cleared")
      <4>1. \A u \in Slot : ~At(u, "cleared")
        BY <1>1, <2>4, <3>2, StaysAt DEF OthersStay
      <4> QED BY <2>1, <4>1 DEF IInv, Accounted, Quiet
    <3> QED BY <3>1, <3>2
  <2> QED BY <2>2, <2>3, <2>4 DEF Accounted, At
<1> QED BY <1>4, <1>5, <1>6, <1>7 DEF IInv

\* The code is read, and not inserted yet.
LEMMA ReadCodeInv ==
    ASSUME IInv, NEW t \in Slot, ReadCode(t)
    PROVE  IInv'
<1> DEFINE s == [req[t] EXCEPT !.pc = "coded", !.code = top + 1, !.count = SumFunction(cart)]
<1>1. At(t, "totalled") /\ Goto(t, s) /\ Quiet /\ mishap' = mishap
  BY DEF ReadCode, Quiet
<1>2. OthersStay(t) /\ req'[t] = s
  BY <1>1, GotoStays DEF IInv
<1>3. req[t] = [f \in Fields |-> req[t][f]] /\ req[t].lines \in Pieces
  BY <1>1, WorkHasFields DEF IInv, Shape, At
<1>4. /\ s = [f \in Fields |-> s[f]]
      /\ s.pc = "coded" /\ s.code = top + 1 /\ s.lines = req[t].lines
  BY <1>3 DEF Fields
<1>5. Proper(req'[t])
  BY <1>2, <1>3, <1>4 DEF Proper, Stages, IInv, Shape
<1>6. /\ ~Inserted(t)' /\ ~At(t, "lined")' /\ ~At(t, "cleared")'
      /\ ~At(t, "cleared") /\ ~Inserted(t)
  BY <1>1, <1>2, <1>4 DEF At, Inserted
<1>7. ASSUME NEW u \in Slot
      PROVE  /\ Inserted(u)' = Inserted(u)
             /\ At(u, "lined")' => At(u, "lined") /\ u # t
             /\ At(u, "cleared")' = At(u, "cleared")
             /\ At(u, "coded")' => u = t \/ At(u, "coded")
             /\ u # t /\ (At(u, "coded") \/ Inserted(u))' =>
                   req'[u].code = req[u].code /\ req'[u].lines = req[u].lines
             /\ Inserted(u)' => u # t
  <2>1. CASE u = t
    BY <1>6, <2>1 DEF Inserted, At
  <2>2. CASE u # t
    BY <1>2, <2>2, StaysAt DEF OthersStay
  <2> QED BY <2>1, <2>2
<1>8. Shape'
  BY <1>1, <1>2, <1>5, SlotsShape DEF IInv, Shape, Quiet
<1> HIDE DEF s
<1>9. CodesAreNext'
  <2>1. ASSUME NEW u \in Slot, At(u, "coded")' PROVE req'[u].code <= top' + 1
    <3>1. CASE u = t
      BY <1>1, <1>2, <1>4, <3>1 DEF Quiet, IInv, Shape
    <3>2. CASE u # t
      BY <1>1, <1>7, <2>1, <3>2 DEF Quiet, IInv, CodesAreNext
    <3> QED BY <3>1, <3>2
  <2>2. ASSUME NEW u \in Slot, Inserted(u)' PROVE req'[u].code = top' + 1
    BY <1>1, <1>7, <2>2 DEF Quiet, IInv, CodesAreNext
  <2> QED BY <2>1, <2>2 DEF CodesAreNext, At, Inserted
<1>10. OneInserts'
  BY <1>7 DEF IInv, OneInserts
<1>11. PiecesLast'
  BY <1>1, <1>7 DEF IInv, PiecesLast, Inserted, Quiet
<1>12. Accounted'
  BY <1>1, <1>7 DEF IInv, Accounted, Inserted, Quiet
<1> QED BY <1>8, <1>9, <1>10, <1>11, <1>12 DEF IInv

\* Nobody has inserted the code: nobody has inserted any.
LEMMA InsertsFirst ==
    ASSUME IInv, NEW t \in Slot, At(t, "coded"), ~CodeInserted(t), ~CodeTaken(t)
    PROVE  /\ req[t].code = top + 1
           /\ \A u \in Slot : ~Inserted(u)
<1>1. req[t].code \in Nat
  BY WorkHasFields DEF IInv, Shape, At
<1>2. req[t].code = top + 1
  BY <1>1 DEF IInv, CodesAreNext, CodeTaken, Shape
<1>3. ASSUME NEW u \in Slot, Inserted(u) PROVE FALSE
  <2>1. req[u].code = req[t].code /\ u # t
    BY <1>2, <1>3 DEF IInv, CodesAreNext, Inserted, At
  <2> QED BY <1>3, <2>1 DEF CodeInserted, Inserted
<1> QED BY <1>2, <1>3

\* The order is inserted, with the cart as its lines.
LEMMA FlushOrderInv ==
    ASSUME IInv, NEW t \in Slot, FlushOrder(t)
    PROVE  IInv'
<1> DEFINE s == [req[t] EXCEPT !.pc = "lined", !.lines = cart]
<1>1. /\ At(t, "coded") /\ ~CodeInserted(t) /\ ~CodeTaken(t)
      /\ Goto(t, s) /\ Quiet /\ mishap' = mishap
  BY DEF FlushOrder, Quiet
<1>2. OthersStay(t) /\ req'[t] = s
  BY <1>1, GotoStays DEF IInv
<1>3. req[t] = [f \in Fields |-> req[t][f]] /\ req[t].code \in Nat
  BY <1>1, WorkHasFields DEF IInv, Shape, At
<1>4. /\ s = [f \in Fields |-> s[f]]
      /\ s.pc = "lined" /\ s.code = req[t].code /\ s.lines = cart
  BY <1>3 DEF Fields
<1> HIDE DEF s
<1>5. Proper(req'[t])
  BY <1>2, <1>3, <1>4 DEF Proper, Stages, IInv, Shape
<1>6. req[t].code = top + 1 /\ \A u \in Slot : ~Inserted(u)
  BY <1>1, InsertsFirst
<1>7. ASSUME NEW u \in Slot, u # t
      PROVE  /\ ~Inserted(u)' /\ ~At(u, "lined")' /\ ~At(u, "cleared")'
             /\ At(u, "coded")' => At(u, "coded") /\ req'[u].code = req[u].code
  <2>1. Stays(u) /\ ~Inserted(u)
    BY <1>2, <1>6, <1>7 DEF OthersStay
  <2> QED BY <2>1, StaysAt DEF Inserted, At
<1>8. ~At(t, "coded")' /\ ~At(t, "cleared")' /\ ~At(t, "cleared") /\ At(t, "lined")'
  BY <1>1, <1>2, <1>4 DEF At
<1>9. Shape'
  BY <1>1, <1>2, <1>5, SlotsShape DEF IInv, Shape, Quiet
<1>10. CodesAreNext'
  <2>1. ASSUME NEW u \in Slot, At(u, "coded")' PROVE req'[u].code <= top' + 1
    <3>1. u # t
      BY <1>8, <2>1 DEF At
    <3> QED BY <1>1, <1>7, <2>1, <3>1 DEF Quiet, IInv, CodesAreNext
  <2>2. ASSUME NEW u \in Slot, Inserted(u)' PROVE req'[u].code = top' + 1
    <3>1. u = t
      BY <1>7, <2>2
    <3> QED BY <1>1, <1>2, <1>4, <1>6, <3>1 DEF Quiet
  <2> QED BY <2>1, <2>2 DEF CodesAreNext, At, Inserted
<1>11. OneInserts'
  BY <1>7 DEF OneInserts
<1>12. PiecesLast'
  <2> SUFFICES ASSUME NEW i \in Item
               PROVE  /\ ordered'[i] + cart'[i] <= added'[i]
                      /\ \A u \in Slot :
                            /\ At(u, "lined")' => ordered'[i] + req'[u].lines[i] <= added'[i]
                            /\ At(u, "cleared")' =>
                                  ordered'[i] + req'[u].lines[i] + cart'[i] <= added'[i]
    BY DEF PiecesLast, At
  <2>1. ordered'[i] + cart'[i] <= added'[i]
    BY <1>1 DEF IInv, PiecesLast, Quiet
  <2>2. ASSUME NEW u \in Slot, At(u, "lined")'
        PROVE  ordered'[i] + req'[u].lines[i] <= added'[i]
    <3>1. u = t
      BY <1>7, <2>2
    <3> QED BY <1>1, <1>2, <1>4, <2>1, <3>1 DEF Quiet
  <2>3. ASSUME NEW u \in Slot PROVE ~At(u, "cleared")'
    <3>1. CASE u = t
      BY <1>8, <3>1 DEF At
    <3> QED BY <1>7, <3>1
  <2> QED BY <2>1, <2>2, <2>3
<1>13. Accounted'
  <2>1. \A u \in Slot : ~At(u, "cleared")
    BY <1>6 DEF Inserted
  <2>2. ASSUME NEW u \in Slot, At(u, "lined")' PROVE req'[u].lines = cart'
    <3>1. u = t
      BY <1>7, <2>2
    <3> QED BY <1>1, <1>2, <1>4, <3>1 DEF Quiet
  <2>3. ASSUME NEW u \in Slot PROVE ~At(u, "cleared")'
    <3>1. CASE u = t
      BY <1>8, <3>1 DEF At
    <3> QED BY <1>7, <3>1
  <2>4. mishap' \/ \A i \in Item : wanted'[i] = cart'[i] + ordered'[i]
    BY <1>1, <2>1 DEF IInv, Accounted, Quiet
  <2> QED BY <2>2, <2>3, <2>4 DEF Accounted, At
<1> QED BY <1>9, <1>10, <1>11, <1>12, <1>13 DEF IInv

\* The lines are inserted and the cart is emptied.
LEMMA FlushLinesInv ==
    ASSUME IInv, NEW t \in Slot, FlushLines(t)
    PROVE  IInv'
<1> DEFINE s == [req[t] EXCEPT !.pc = "cleared"]
<1>1. /\ At(t, "lined") /\ Become(t, s, None)
      /\ UNCHANGED <<ordered, top, added, wanted, mishap>>
  BY DEF FlushLines
<1>2. OthersStay(t) /\ req'[t] = s /\ cart' = None
  BY <1>1, BecomeStays DEF IInv
<1>3. /\ req[t] = [f \in Fields |-> req[t][f]]
      /\ req[t].code \in Nat /\ req[t].lines \in Pieces
  BY <1>1, WorkHasFields DEF IInv, Shape, At
<1>4. /\ s = [f \in Fields |-> s[f]]
      /\ s.pc = "cleared" /\ s.code = req[t].code /\ s.lines = req[t].lines
  BY <1>3 DEF Fields
<1> HIDE DEF s
<1>5. Proper(req'[t])
  BY <1>2, <1>3, <1>4 DEF Proper, Stages
<1>6. ASSUME NEW u \in Slot, u # t
      PROVE  /\ ~Inserted(u)' /\ ~At(u, "lined")' /\ ~At(u, "cleared")'
             /\ At(u, "coded")' => At(u, "coded") /\ req'[u].code = req[u].code
  <2>1. Stays(u)
    BY <1>2, <1>6 DEF OthersStay
  <2>2. ~Inserted(u)
    BY <1>1, <1>6 DEF IInv, OneInserts, Inserted
  <2> QED BY <2>1, <2>2, StaysAt DEF Inserted, At
<1>7. ~At(t, "coded")' /\ ~At(t, "lined")' /\ At(t, "cleared")'
  BY <1>2, <1>4 DEF At
<1>8. /\ None \in Pieces
      /\ \A i \in Item : None[i] = 0 /\ wanted[i] \in Nat /\ ordered[i] \in Nat
                         /\ added[i] \in Nat /\ cart[i] \in Nat /\ req[t].lines[i] \in Nat
  BY <1>3 DEF None, Pieces, IInv, Shape
<1>9. Shape'
  BY <1>1, <1>2, <1>5, <1>8, SlotsShape DEF IInv, Shape
<1>10. CodesAreNext'
  <2>1. ASSUME NEW u \in Slot, At(u, "coded")' PROVE req'[u].code <= top' + 1
    <3>1. u # t
      BY <1>7, <2>1 DEF At
    <3> QED BY <1>1, <1>6, <2>1, <3>1 DEF IInv, CodesAreNext
  <2>2. ASSUME NEW u \in Slot, Inserted(u)' PROVE req'[u].code = top' + 1
    <3>1. u = t
      BY <1>6, <2>2
    <3>2. req[t].code = top + 1
      BY <1>1 DEF IInv, CodesAreNext, Inserted
    <3> QED BY <1>1, <1>2, <1>4, <3>1, <3>2
  <2> QED BY <2>1, <2>2 DEF CodesAreNext, At, Inserted
<1>11. OneInserts'
  BY <1>6 DEF OneInserts
<1>12. PiecesLast'
  <2> SUFFICES ASSUME NEW i \in Item
               PROVE  /\ ordered'[i] + cart'[i] <= added'[i]
                      /\ \A u \in Slot :
                            /\ At(u, "lined")' => ordered'[i] + req'[u].lines[i] <= added'[i]
                            /\ At(u, "cleared")' =>
                                  ordered'[i] + req'[u].lines[i] + cart'[i] <= added'[i]
    BY DEF PiecesLast, At
  <2>1. ordered[i] + cart[i] <= added[i] /\ ordered[i] + req[t].lines[i] <= added[i]
    BY <1>1 DEF IInv, PiecesLast
  <2>2. ordered'[i] + cart'[i] <= added'[i]
    BY <1>1, <1>2, <1>8, <2>1
  <2>3. ASSUME NEW u \in Slot PROVE ~At(u, "lined")'
    <3>1. CASE u = t
      BY <1>7, <3>1 DEF At
    <3> QED BY <1>6, <3>1
  <2>4. ASSUME NEW u \in Slot, At(u, "cleared")'
        PROVE  ordered'[i] + req'[u].lines[i] + cart'[i] <= added'[i]
    <3>1. u = t
      BY <1>6, <2>4
    <3> QED BY <1>1, <1>2, <1>4, <1>8, <2>1, <3>1
  <2> QED BY <2>2, <2>3, <2>4
<1>13. Accounted'
  <2> SUFFICES ASSUME ~mishap' PROVE Accounted'
    BY DEF Accounted
  <2>1. ASSUME NEW u \in Slot PROVE ~At(u, "lined")'
    <3>1. CASE u = t
      BY <1>7, <3>1 DEF At
    <3> QED BY <1>6, <3>1
  <2>2. \A u \in Slot : ~At(u, "cleared")
    <3>1. ASSUME NEW u \in Slot, At(u, "cleared") PROVE FALSE
      BY <1>1, <3>1 DEF IInv, OneInserts, Inserted, At
    <3> QED BY <3>1
  <2>3. ASSUME NEW u \in Slot, At(u, "cleared")', NEW i \in Item
        PROVE  wanted'[i] = cart'[i] + ordered'[i] + req'[u].lines[i]
    <3>1. u = t
      BY <1>6, <2>3
    <3>2. wanted[i] = cart[i] + ordered[i] /\ req[t].lines = cart
      BY <1>1, <2>2 DEF IInv, Accounted
    <3> QED BY <1>1, <1>2, <1>4, <1>8, <3>1, <3>2
  <2> QED BY <1>7, <2>1, <2>3 DEF Accounted, At
<1> QED BY <1>9, <1>10, <1>11, <1>12, <1>13 DEF IInv

\* The order is committed: its lines are ordered pieces by now.
LEMMA CommitOrderInv ==
    ASSUME IInv, NEW t \in Slot, CommitOrder(t)
    PROVE  IInv'
<1>1. /\ At(t, "cleared") /\ Goto(t, Idle)
      /\ ordered' = [i \in Item |-> ordered[i] + req[t].lines[i]]
      /\ top' = req[t].code
      /\ UNCHANGED <<cart, added, wanted, mishap>>
  BY DEF CommitOrder
<1>2. OthersStay(t) /\ req'[t] = Idle /\ Proper(req'[t])
  BY <1>1, GotoStays DEF IInv, Proper
<1>3. req[t].code \in Nat /\ req[t].lines \in Pieces /\ top' = top + 1
  BY <1>1, WorkHasFields DEF IInv, Shape, At, CodesAreNext, Inserted
<1>4. ASSUME NEW u \in Slot
      PROVE  /\ ~Inserted(u)' /\ ~At(u, "lined")' /\ ~At(u, "cleared")'
             /\ At(u, "coded")' => At(u, "coded") /\ req'[u].code = req[u].code
                                    /\ req'[u].code \in Nat
  <2>1. CASE u = t
    BY <1>2, <2>1, IdleIsNoStage DEF Inserted, At
  <2>2. CASE u # t
    <3>1. Stays(u)
      BY <1>2, <2>2 DEF OthersStay
    <3>2. ~Inserted(u)
      BY <1>1, <2>2 DEF IInv, OneInserts, Inserted
    <3>3. At(u, "coded") => req[u].code \in Nat
      BY WorkHasFields DEF IInv, Shape, At
    <3> QED BY <3>1, <3>2, <3>3, StaysAt DEF Inserted, At
  <2> QED BY <2>1, <2>2
<1>5. \A i \in Item : /\ ordered[i] \in Nat /\ req[t].lines[i] \in Nat /\ cart[i] \in Nat
                      /\ added[i] \in Nat /\ wanted[i] \in Nat
                      /\ ordered'[i] = ordered[i] + req[t].lines[i]
  BY <1>1, <1>3 DEF IInv, Shape, Pieces
<1>6. Shape'
  <2>1. ordered' \in Pieces
    BY <1>1, <1>5 DEF Pieces
  <2> QED BY <1>1, <1>2, <1>3, <2>1, SlotsShape DEF IInv, Shape
<1>7. CodesAreNext'
  <2>1. ASSUME NEW u \in Slot, At(u, "coded")' PROVE req'[u].code <= top' + 1
    BY <1>3, <1>4, <2>1 DEF IInv, CodesAreNext, Shape
  <2> QED BY <1>4, <2>1 DEF CodesAreNext, At, Inserted
<1>8. OneInserts'
  BY <1>4 DEF OneInserts
<1>9. PiecesLast'
  <2>1. ASSUME NEW i \in Item PROVE ordered'[i] + cart'[i] <= added'[i]
    <3>1. ordered[i] + req[t].lines[i] + cart[i] <= added[i]
      BY <1>1 DEF IInv, PiecesLast
    <3> QED BY <1>1, <1>5, <3>1
  <2> QED BY <1>4, <2>1 DEF PiecesLast, At
<1>10. Accounted'
  <2>1. ASSUME ~mishap', NEW i \in Item PROVE wanted'[i] = cart'[i] + ordered'[i]
    <3>1. wanted[i] = cart[i] + ordered[i] + req[t].lines[i]
      BY <1>1, <2>1 DEF IInv, Accounted
    <3> QED BY <1>1, <1>5, <3>1
  <2> QED BY <1>4, <2>1 DEF Accounted, At
<1> QED BY <1>6, <1>7, <1>8, <1>9, <1>10 DEF IInv

\* The server is started again with empty carts.
LEMMA RestartInv ==
    ASSUME IInv, Restart
    PROVE  IInv'
<1>1. /\ cart' = None /\ req' = [t \in Slot |-> Idle]
      /\ mishap' = (mishap \/ cart # None \/ \E t \in Slot : At(t, "cleared"))
      /\ UNCHANGED <<ordered, top, added, wanted>>
  BY DEF Restart
<1>2. \A t \in Slot : req'[t] = Idle /\ req'[t].pc = "idle"
  BY <1>1 DEF Idle
<1>3. /\ None \in Pieces
      /\ \A i \in Item : None[i] = 0 /\ wanted[i] \in Nat /\ ordered[i] \in Nat
                         /\ added[i] \in Nat /\ cart[i] \in Nat
  BY DEF None, Pieces, IInv, Shape
<1>4. Shape'
  BY <1>1, <1>2, <1>3 DEF IInv, Shape, Proper
<1>5. CodesAreNext' /\ OneInserts'
  BY <1>2 DEF CodesAreNext, OneInserts, Inserted, At
<1>6. PiecesLast'
  <2>1. ASSUME NEW i \in Item PROVE ordered'[i] + cart'[i] <= added'[i]
    <3>1. ordered[i] + cart[i] <= added[i]
      BY DEF IInv, PiecesLast
    <3> QED BY <1>1, <1>3, <3>1
  <2> QED BY <1>2, <2>1 DEF PiecesLast, At
<1>7. Accounted'
  <2>1. ASSUME ~mishap', NEW i \in Item PROVE wanted'[i] = cart'[i] + ordered'[i]
    <3>1. ~mishap /\ cart = None /\ \A t \in Slot : ~At(t, "cleared")
      BY <1>1, <2>1
    <3>2. wanted[i] = cart[i] + ordered[i]
      BY <3>1 DEF IInv, Accounted
    <3> QED BY <1>1, <3>1, <3>2
  <2> QED BY <1>2, <2>1 DEF Accounted, At
<1> QED BY <1>4, <1>5, <1>6, <1>7 DEF IInv

LEMMA CartInv ==
    ASSUME IInv, NEW t \in Slot, Cart(t)
    PROVE  IInv'
<1>1. ASSUME NEW i \in Item, AddToCart(t, i) PROVE IInv'
  <2>1. [cart EXCEPT ![i] = @ + 1] \in Pieces
    BY DEF IInv, Shape, Pieces
  <2> QED BY <1>1, <2>1, ChangeInv DEF AddToCart
<1>2. ASSUME NEW i \in Item, RemoveFromCart(t, i) PROVE IInv'
  <2>1. [cart EXCEPT ![i] = 0] \in Pieces
    BY DEF IInv, Shape, Pieces
  <2> QED BY <1>2, <2>1, ChangeInv DEF RemoveFromCart
<1>3. ASSUME NEW i \in Item, NEW n \in 0..MaxPieces, UpdateCartItem(t, i, n) PROVE IInv'
  <2>1. [cart EXCEPT ![i] = n] \in Pieces
    BY BoundsType DEF IInv, Shape, Pieces
  <2> QED BY <1>3, <2>1, ChangeInv DEF UpdateCartItem
<1>4. CASE ClearCart(t)
  <2>1. None \in Pieces
    BY DEF None, Pieces
  <2> QED BY <1>4, <2>1, ChangeInv DEF ClearCart
<1> QED BY <1>1, <1>2, <1>3, <1>4 DEF Cart

\* A loop goes on to the next, to the totals or to an answer.
LEMMA LoopEndsInv ==
    ASSUME IInv, NEW t \in Slot, LoopEnds(t)
    PROVE  IInv'
<1> DEFINE totalled == [req[t] EXCEPT !.pc = "totalled", !.total = SumFunction(cart)]
           s == IF req[t].loops = 2 THEN Looping(FALSE, 1, cart)
                ELSE IF req[t].checkout THEN totalled ELSE Idle
<1>1. At(t, "loop") /\ Goto(t, s) /\ Quiet /\ mishap' = mishap
  BY DEF LoopEnds, Quiet
<1>2. /\ req[t] = [f \in Fields |-> req[t][f]]
      /\ req[t].code \in Nat /\ req[t].lines \in Pieces
  BY <1>1, WorkHasFields DEF IInv, Shape, At
<1>3. Proper(totalled) /\ totalled.pc = "totalled"
  <2>1. /\ totalled = [f \in Fields |-> totalled[f]]
        /\ totalled.pc = "totalled" /\ totalled.code = req[t].code
        /\ totalled.lines = req[t].lines
    BY <1>2 DEF Fields
  <2> QED BY <1>2, <2>1 DEF Proper, Stages
<1> HIDE DEF totalled
<1>4. Proper(s) /\ s.pc \in {"idle", "loop", "totalled"}
  <2>1. Proper(Looping(FALSE, 1, cart)) /\ Looping(FALSE, 1, cart).pc \in {"idle", "loop"}
    BY LoopingProper
  <2>2. Proper(Idle) /\ Idle.pc = "idle"
    BY IdleIsNoStage DEF Proper
  <2>3. CASE req[t].loops = 2
    <3>1. s = Looping(FALSE, 1, cart)
      BY <2>3
    <3> QED BY ONLY <2>1, <3>1
  <2>4. CASE req[t].loops # 2 /\ req[t].checkout
    <3>1. s = totalled
      BY <2>4
    <3> QED BY ONLY <1>3, <3>1
  <2>5. CASE req[t].loops # 2 /\ ~req[t].checkout
    <3>1. s = Idle
      BY <2>5
    <3> QED BY ONLY <2>2, <3>1
  <2> QED BY <2>3, <2>4, <2>5
<1>5. ~At(t, "cleared")
  BY <1>1 DEF At
<1> HIDE DEF s
<1> QED BY <1>1, <1>4, <1>5, GotoInv

LEMMA NextInv == IInv /\ [Next]_vars => IInv'
<1> SUFFICES ASSUME IInv, [Next]_vars PROVE IInv'
  OBVIOUS
<1>1. Proper(Idle) /\ Idle.pc \in {"idle", "loop", "totalled"}
  BY IdleIsNoStage DEF Proper
<1>2. ASSUME NEW t \in Slot, LoopBreaks(t) PROVE IInv'
  BY <1>1, <1>2, GotoInv DEF LoopBreaks, Quiet, At
<1>3. ASSUME NEW t \in Slot, Checkout(t) PROVE IInv'
  BY <1>3, LoopingProper, GotoInv DEF Checkout, Quiet, At
<1>4. ASSUME NEW t \in Slot, Fail(t) PROVE IInv'
  BY <1>1, <1>4, GotoInv DEF Fail, Quiet
<1>5. CASE Restart
  BY <1>5, RestartInv
<1>6. CASE UNCHANGED vars
  BY <1>6 DEF vars, IInv, Shape, CodesAreNext, OneInserts, PiecesLast, Accounted,
              Inserted, At
<1> QED
  BY <1>2, <1>3, <1>4, <1>5, <1>6, CartInv, LoopEndsInv, ReadCodeInv, FlushOrderInv,
     FlushLinesInv, CommitOrderInv DEF Next, Order

LEMMA Invariance == Spec => []IInv
<1> QED BY InitInv, NextInv, PTL DEF Spec

-----------------------------------------------------------------------------
(* The amounts of an order.                                                *)

\* A request has found the cart to have lines, and while the cart stays the
\* same, has read of it what the lines will say.
AddsUp(t) ==
    /\ At(t, "loop") => req[t].size # 0
    /\ At(t, "totalled") /\ req[t].steady => /\ cart # None
                                            /\ req[t].total = SumFunction(cart)
    /\ At(t, "coded") /\ req[t].steady => /\ cart # None
                                         /\ req[t].total = SumFunction(cart)
                                         /\ req[t].count = SumFunction(cart)
    /\ Inserted(t) /\ req[t].steady => /\ req[t].lines # None
                                      /\ req[t].total = SumFunction(req[t].lines)
                                      /\ req[t].count = SumFunction(req[t].lines)

AllAddUp == \A t \in Slot : AddsUp(t)

\* A cart has lines if it has pieces.
LEMMA SizeCounts ==
    /\ Size(None) = 0
    /\ \A c \in Pieces : c # None => Size(c) # 0
<1>1. {i \in Item : None[i] > 0} = {}
  BY DEF None
<1>2. Size(None) = 0
  BY <1>1, FS_EmptySet DEF Size
<1>3. ASSUME NEW c \in Pieces, c # None PROVE Size(c) # 0
  <2> DEFINE L == {i \in Item : c[i] > 0}
  <2>1. L # {}
    BY <1>3 DEF None, Pieces
  <2>2. IsFiniteSet(L)
    BY ItemFinite, FS_Subset
  <2> QED BY <2>1, <2>2, FS_EmptySet DEF Size
<1> QED BY <1>2, <1>3

LEMMA LoopingAdds ==
    ASSUME NEW b, NEW n, NEW c \in Pieces, Looping(b, n, c).pc # "idle"
    PROVE  Looping(b, n, c).size # 0 /\ Looping(b, n, c).pc = "loop"
<1>1. c # None
  BY DEF Looping, Idle
<1> QED BY <1>1, SizeCounts DEF Looping

\* A slot that loops or is idle has nothing to add up.
LEMMA StartAdds ==
    ASSUME NEW t, \/ req'[t].pc = "idle"
                  \/ req'[t].pc = "loop" /\ req'[t].size # 0
    PROVE  AddsUp(t)'
BY DEF AddsUp, At, Inserted

\* The others add up as before when t makes a step of its own.
LEMMA GotoAdds ==
    ASSUME Shape, AllAddUp, NEW t \in Slot, NEW s, Goto(t, s), cart' = cart,
           NEW u \in Slot, u # t
    PROVE  AddsUp(u)'
<1>1. req'[u] = req[u]
  BY DEF Goto, Shape
<1> QED BY <1>1 DEF AllAddUp, AddsUp, At, Inserted

\* A change of the cart makes those who have read it unsteady.
LEMMA BecomeAdds ==
    ASSUME Shape, AllAddUp, NEW t \in Slot, NEW s, NEW c, Become(t, s, c),
           NEW u \in Slot, u # t
    PROVE  AddsUp(u)'
<1>1. cart' = c /\ req'[u] = Disturbed(u, c)
  BY DEF Become
<1>2. CASE (At(u, "totalled") \/ At(u, "coded")) /\ c # cart
  <2>1. req'[u] = [req[u] EXCEPT !.steady = FALSE]
    BY <1>1, <1>2 DEF Disturbed
  <2>2. req[u].pc # "idle"
    BY <1>2 DEF At
  <2>3. req[u] = [f \in Fields |-> req[u][f]]
    BY <2>2, WorkHasFields DEF Shape
  <2>4. req'[u].pc = req[u].pc /\ req'[u].steady = FALSE
    BY <2>1, <2>3 DEF Fields
  <2> QED BY <1>2, <2>4 DEF AddsUp, At, Inserted
<1>3. CASE ~((At(u, "totalled") \/ At(u, "coded")) /\ c # cart)
  <2>1. req'[u] = req[u]
    BY <1>1, <1>3 DEF Disturbed
  <2>2. At(u, "totalled") \/ At(u, "coded") => cart' = cart
    BY <1>1, <1>3
  <2> QED BY <2>1, <2>2 DEF AllAddUp, AddsUp, At, Inserted
<1> QED BY <1>2, <1>3

LEMMA ChangeAdds ==
    ASSUME Shape, AllAddUp, NEW t \in Slot, NEW n, NEW c \in Pieces, Change(t, n, c)
    PROVE  AllAddUp'
<1>1. Become(t, Looping(FALSE, n, c), c)
  BY DEF Change
<1>2. req'[t] = Looping(FALSE, n, c)
  BY <1>1 DEF Become
<1>3. AddsUp(t)'
  BY <1>2, LoopingAdds, StartAdds
<1> QED BY <1>1, <1>3, BecomeAdds DEF AllAddUp

LEMMA CartAdds ==
    ASSUME Shape, AllAddUp, NEW t \in Slot, Cart(t)
    PROVE  AllAddUp'
<1>1. ASSUME NEW i \in Item, AddToCart(t, i) PROVE AllAddUp'
  <2>1. [cart EXCEPT ![i] = @ + 1] \in Pieces
    BY DEF Shape, Pieces
  <2> QED BY <1>1, <2>1, ChangeAdds DEF AddToCart
<1>2. ASSUME NEW i \in Item, RemoveFromCart(t, i) PROVE AllAddUp'
  <2>1. [cart EXCEPT ![i] = 0] \in Pieces
    BY DEF Shape, Pieces
  <2> QED BY <1>2, <2>1, ChangeAdds DEF RemoveFromCart
<1>3. ASSUME NEW i \in Item, NEW n \in 0..MaxPieces, UpdateCartItem(t, i, n) PROVE AllAddUp'
  <2>1. [cart EXCEPT ![i] = n] \in Pieces
    BY BoundsType DEF Shape, Pieces
  <2> QED BY <1>3, <2>1, ChangeAdds DEF UpdateCartItem
<1>4. CASE ClearCart(t)
  <2>1. None \in Pieces
    BY DEF None, Pieces
  <2> QED BY <1>4, <2>1, ChangeAdds DEF ClearCart
<1> QED BY <1>1, <1>2, <1>3, <1>4 DEF Cart

\* A step to a loop or to an answer.
LEMMA RestAdds ==
    ASSUME Shape, AllAddUp, NEW t \in Slot, NEW s, Goto(t, s), cart' = cart,
           s.pc = "idle" \/ (s.pc = "loop" /\ s.size # 0)
    PROVE  AllAddUp'
<1>1. req'[t] = s
  BY GotoStays
<1>2. AddsUp(t)'
  BY <1>1, StartAdds
<1> QED BY <1>2, GotoAdds DEF AllAddUp

\* The loop has found as many lines as when it began: not none.
LEMMA LoopEndsAdds ==
    ASSUME Shape, AllAddUp, NEW t \in Slot, LoopEnds(t)
    PROVE  AllAddUp'
<1> DEFINE totalled == [req[t] EXCEPT !.pc = "totalled", !.total = SumFunction(cart)]
<1>1. At(t, "loop") /\ Size(cart) = req[t].size /\ cart' = cart /\ cart \in Pieces
  BY DEF LoopEnds, Shape
<1>2. CASE req[t].loops = 2
  <2>1. Goto(t, Looping(FALSE, 1, cart))
    BY <1>2 DEF LoopEnds
  <2>2. \/ Looping(FALSE, 1, cart).pc = "idle"
        \/ Looping(FALSE, 1, cart).pc = "loop" /\ Looping(FALSE, 1, cart).size # 0
    BY <1>1, LoopingAdds
  <2> QED BY <1>1, <2>1, <2>2, RestAdds
<1>3. CASE req[t].loops # 2 /\ req[t].checkout
  <2>1. Goto(t, totalled)
    BY <1>3 DEF LoopEnds
  <2>2. req[t] = [f \in Fields |-> req[t][f]]
    BY <1>1, WorkHasFields DEF Shape, At
  <2>3. totalled.pc = "totalled" /\ totalled.total = SumFunction(cart)
    BY <2>2 DEF Fields
  <2> HIDE DEF totalled
  <2>4. req'[t] = totalled
    BY <2>1, GotoStays
  <2>5. cart # None
    BY <1>1, SizeCounts DEF AllAddUp, AddsUp
  <2>6. AddsUp(t)'
    BY <1>1, <2>3, <2>4, <2>5 DEF AddsUp, At, Inserted
  <2> QED BY <1>1, <2>1, <2>6, GotoAdds DEF AllAddUp
<1>4. CASE req[t].loops # 2 /\ ~req[t].checkout
  <2>1. Goto(t, Idle) /\ Idle.pc = "idle"
    BY <1>4 DEF LoopEnds, Idle
  <2> QED BY <1>1, <2>1, RestAdds
<1> QED BY <1>2, <1>3, <1>4

LEMMA ReadCodeAdds ==
    ASSUME Shape, AllAddUp, NEW t \in Slot, ReadCode(t)
    PROVE  AllAddUp'
<1> DEFINE s == [req[t] EXCEPT !.pc = "coded", !.code = top + 1, !.count = SumFunction(cart)]
<1>1. At(t, "totalled") /\ Goto(t, s) /\ cart' = cart
  BY DEF ReadCode
<1>2. req[t] = [f \in Fields |-> req[t][f]]
  BY <1>1, WorkHasFields DEF Shape, At
<1>3. /\ s.pc = "coded" /\ s.total = req[t].total
      /\ s.count = SumFunction(cart) /\ s.steady = req[t].steady
  BY <1>2 DEF Fields
<1> HIDE DEF s
<1>4. req'[t] = s
  BY <1>1, GotoStays
<1>5. AddsUp(t)'
  <2>1. req[t].steady => cart # None /\ req[t].total = SumFunction(cart)
    BY <1>1 DEF AllAddUp, AddsUp
  <2> QED BY <1>1, <1>3, <1>4, <2>1 DEF AddsUp, At, Inserted
<1> QED BY <1>1, <1>5, GotoAdds DEF AllAddUp

LEMMA FlushOrderAdds ==
    ASSUME Shape, AllAddUp, NEW t \in Slot, FlushOrder(t)
    PROVE  AllAddUp'
<1> DEFINE s == [req[t] EXCEPT !.pc = "lined", !.lines = cart]
<1>1. At(t, "coded") /\ Goto(t, s) /\ cart' = cart
  BY DEF FlushOrder
<1>2. req[t] = [f \in Fields |-> req[t][f]]
  BY <1>1, WorkHasFields DEF Shape, At
<1>3. /\ s.pc = "lined" /\ s.total = req[t].total /\ s.count = req[t].count
      /\ s.lines = cart /\ s.steady = req[t].steady
  BY <1>2 DEF Fields
<1> HIDE DEF s
<1>4. req'[t] = s
  BY <1>1, GotoStays
<1>5. AddsUp(t)'
  <2>1. req[t].steady => /\ cart # None /\ req[t].total = SumFunction(cart)
                         /\ req[t].count = SumFunction(cart)
    BY <1>1 DEF AllAddUp, AddsUp
  <2> QED BY <1>1, <1>3, <1>4, <2>1 DEF AddsUp, At, Inserted
<1> QED BY <1>1, <1>5, GotoAdds DEF AllAddUp

LEMMA FlushLinesAdds ==
    ASSUME Shape, AllAddUp, NEW t \in Slot, FlushLines(t)
    PROVE  AllAddUp'
<1> DEFINE s == [req[t] EXCEPT !.pc = "cleared"]
<1>1. At(t, "lined") /\ Become(t, s, None)
  BY DEF FlushLines
<1>2. req[t] = [f \in Fields |-> req[t][f]]
  BY <1>1, WorkHasFields DEF Shape, At
<1>3. /\ s.pc = "cleared" /\ s.total = req[t].total /\ s.count = req[t].count
      /\ s.lines = req[t].lines /\ s.steady = req[t].steady
  BY <1>2 DEF Fields
<1> HIDE DEF s
<1>4. req'[t] = s
  BY <1>1, BecomeStays
<1>5. AddsUp(t)'
  <2>1. req[t].steady => /\ req[t].lines # None
                         /\ req[t].total = SumFunction(req[t].lines)
                         /\ req[t].count = SumFunction(req[t].lines)
    BY <1>1 DEF AllAddUp, AddsUp, Inserted
  <2> QED BY <1>3, <1>4, <2>1 DEF AddsUp, At, Inserted
<1> QED BY <1>1, <1>5, BecomeAdds DEF AllAddUp

LEMMA NextAdds == Shape /\ AllAddUp /\ [Next]_vars => AllAddUp'
<1> SUFFICES ASSUME Shape, AllAddUp, [Next]_vars PROVE AllAddUp'
  OBVIOUS
<1>1. Idle.pc = "idle"
  BY DEF Idle
<1>2. ASSUME NEW t \in Slot, LoopBreaks(t) PROVE AllAddUp'
  BY <1>1, <1>2, RestAdds DEF LoopBreaks
<1>3. ASSUME NEW t \in Slot, Checkout(t) PROVE AllAddUp'
  <2>1. Goto(t, Looping(TRUE, 1, cart)) /\ cart' = cart /\ cart \in Pieces
    BY <1>3 DEF Checkout, Shape
  <2>2. \/ Looping(TRUE, 1, cart).pc = "idle"
        \/ Looping(TRUE, 1, cart).pc = "loop" /\ Looping(TRUE, 1, cart).size # 0
    BY <2>1, LoopingAdds
  <2> QED BY <2>1, <2>2, RestAdds
<1>4. ASSUME NEW t \in Slot, Fail(t) PROVE AllAddUp'
  BY <1>1, <1>4, RestAdds DEF Fail
<1>5. ASSUME NEW t \in Slot, CommitOrder(t) PROVE AllAddUp'
  BY <1>1, <1>5, RestAdds DEF CommitOrder
<1>6. CASE Restart
  <2>1. \A t \in Slot : req'[t].pc = "idle"
    BY <1>1, <1>6 DEF Restart
  <2> QED BY <2>1, StartAdds DEF AllAddUp
<1>7. CASE UNCHANGED vars
  BY <1>7 DEF vars, AllAddUp, AddsUp, Inserted, At
<1> QED
  BY <1>2, <1>3, <1>4, <1>5, <1>6, <1>7, CartAdds, LoopEndsAdds, ReadCodeAdds,
     FlushOrderAdds, FlushLinesAdds DEF Next, Order

LEMMA InitAdds == Init => AllAddUp
BY DEF Init, Idle, AllAddUp, AddsUp, Inserted, At

-----------------------------------------------------------------------------
(* The types.                                                              *)

\* A request's code is a next code: no more than there can be orders.
Work(s) == s = Idle \/ (s \in Request /\ s.code <= MaxOrders)

Typed == mishap \in BOOLEAN /\ top <= MaxOrders /\ \A t \in Slot : Work(req[t])

LEMMA SizeType == ASSUME NEW c PROVE Size(c) \in Nat
<1>1. IsFiniteSet({i \in Item : c[i] > 0})
  BY ItemFinite, FS_Subset
<1> QED BY <1>1, FS_CardinalityType DEF Size

LEMMA PiecesSum == ASSUME NEW c \in Pieces PROVE SumFunction(c) \in Nat
BY ItemFinite, SumType DEF Pieces

LEMMA IdleWork == Work(Idle)
BY DEF Work

LEMMA LoopingWork ==
    ASSUME NEW b \in {TRUE, FALSE}, NEW n \in {1, 2}, NEW c
    PROVE  Work(Looping(b, n, c))
<1>1. CASE c = None
  BY <1>1, IdleWork DEF Looping
<1>2. CASE c # None
  <2> DEFINE s == [pc |-> "loop", checkout |-> b, loops |-> n, size |-> Size(c),
                   total |-> 0, count |-> 0, code |-> 0, lines |-> None, steady |-> TRUE]
  <2>1. None \in Pieces /\ Size(c) \in Nat /\ n \in 1..2
    BY SizeType DEF None, Pieces
  <2>2. s \in Request
    BY <2>1 DEF Request
  <2>3. s.code <= MaxOrders
    BY BoundsType
  <2>4. Looping(b, n, c) = s
    BY <1>2 DEF Looping
  <2> HIDE DEF s
  <2> QED BY <2>2, <2>3, <2>4 DEF Work
<1> QED BY <1>1, <1>2

\* A request that is not idle has all its fields.
LEMMA Working ==
    ASSUME NEW s, Work(s), s.pc # "idle"
    PROVE  s \in Request /\ s.code <= MaxOrders
BY DEF Work, Idle

LEMMA GotoWork ==
    ASSUME Shape, Typed, NEW t \in Slot, NEW s, Work(s), Goto(t, s)
    PROVE  \A u \in Slot : Work(req'[u])
BY DEF Goto, Shape, Typed

LEMMA BecomeWork ==
    ASSUME Shape, Typed, NEW t \in Slot, NEW s, NEW c, Work(s), Become(t, s, c)
    PROVE  \A u \in Slot : Work(req'[u])
<1>1. ASSUME NEW u \in Slot PROVE Work(Disturbed(u, c))
  <2>1. CASE At(u, "totalled") \/ At(u, "coded")
    <3> DEFINE d == [req[u] EXCEPT !.steady = FALSE]
    <3>1. req[u] \in Request /\ req[u].code <= MaxOrders
      BY <1>1, <2>1, Working DEF Typed, At
    <3>2. d \in Request /\ d.code <= MaxOrders
      BY <3>1 DEF Request
    <3> HIDE DEF d
    <3>3. Work(d)
      BY <3>2 DEF Work
    <3> QED BY <1>1, <3>3 DEF d, Disturbed, Typed
  <2>2. CASE ~(At(u, "totalled") \/ At(u, "coded"))
    BY <1>1, <2>2 DEF Disturbed, Typed
  <2> QED BY <2>1, <2>2
<1>2. req' = [u \in Slot |-> IF u = t THEN s ELSE Disturbed(u, c)]
  BY DEF Become
<1> QED BY <1>1, <1>2

LEMMA ChangeTyped ==
    ASSUME Shape, Typed, NEW t \in Slot, NEW n \in {1, 2}, NEW c, Change(t, n, c)
    PROVE  Typed'
<1>1. Become(t, Looping(FALSE, n, c), c)
  BY DEF Change
<1>2. \A u \in Slot : Work(req'[u])
  BY <1>1, BecomeWork, LoopingWork
<1>3. mishap' \in BOOLEAN /\ top' = top
  BY DEF Change, Typed
<1> QED BY <1>2, <1>3 DEF Typed

LEMMA CartTyped ==
    ASSUME Shape, Typed, NEW t \in Slot, Cart(t)
    PROVE  Typed'
<1>1. \E n \in {1, 2} : \E c : Change(t, n, c)
  BY DEF Cart, AddToCart, RemoveFromCart, UpdateCartItem, ClearCart
<1>2. ASSUME NEW n \in {1, 2}, NEW c, Change(t, n, c) PROVE Typed'
  BY <1>2, ChangeTyped
<1> QED BY <1>1, <1>2

\* A slot's own step, of which mishap and top are no part.
LEMMA OwnTyped ==
    ASSUME Shape, Typed, NEW t \in Slot, NEW s, Work(s), Goto(t, s),
           UNCHANGED <<mishap, top>>
    PROVE  Typed'
<1>1. \A u \in Slot : Work(req'[u])
  BY GotoWork
<1> QED BY <1>1 DEF Typed

LEMMA LoopEndsTyped ==
    ASSUME Shape, Typed, NEW t \in Slot, LoopEnds(t)
    PROVE  Typed'
<1> DEFINE totalled == [req[t] EXCEPT !.pc = "totalled", !.total = SumFunction(cart)]
           s == IF req[t].loops = 2 THEN Looping(FALSE, 1, cart)
                ELSE IF req[t].checkout THEN totalled ELSE Idle
<1>1. At(t, "loop") /\ Goto(t, s) /\ UNCHANGED <<mishap, top>>
  BY DEF LoopEnds
<1>2. req[t] \in Request /\ req[t].code <= MaxOrders
  BY <1>1, Working DEF Typed, At
<1>3. SumFunction(cart) \in Nat
  BY PiecesSum DEF Shape
<1>4. totalled \in Request /\ totalled.code <= MaxOrders
  BY <1>2, <1>3 DEF Request
<1>5. Work(totalled)
  <2> HIDE DEF totalled
  <2> QED BY <1>4 DEF Work
<1>6. Work(Looping(FALSE, 1, cart))
  BY LoopingWork, Zenon
<1> HIDE DEF totalled
<1>7. Work(s)
  BY <1>5, <1>6, IdleWork
<1> HIDE DEF s
<1> QED BY <1>1, <1>7, OwnTyped

LEMMA ReadCodeTyped ==
    ASSUME Shape, Typed, NEW t \in Slot, ReadCode(t)
    PROVE  Typed'
<1> DEFINE s == [req[t] EXCEPT !.pc = "coded", !.code = top + 1, !.count = SumFunction(cart)]
<1>1. At(t, "totalled") /\ top < MaxOrders /\ Goto(t, s) /\ UNCHANGED <<mishap, top>>
  BY DEF ReadCode
<1>2. req[t] \in Request
  BY <1>1, Working DEF Typed, At
<1>3. SumFunction(cart) \in Nat /\ top + 1 \in Nat /\ top + 1 <= MaxOrders
  BY <1>1, PiecesSum, BoundsType DEF Shape
<1>4. s \in Request /\ s.code <= MaxOrders
  BY <1>2, <1>3 DEF Request
<1> HIDE DEF s
<1> QED BY <1>1, <1>4, OwnTyped DEF Work

LEMMA FlushOrderTyped ==
    ASSUME Shape, Typed, NEW t \in Slot, FlushOrder(t)
    PROVE  Typed'
<1> DEFINE s == [req[t] EXCEPT !.pc = "lined", !.lines = cart]
<1>1. At(t, "coded") /\ Goto(t, s) /\ UNCHANGED <<mishap, top>>
  BY DEF FlushOrder
<1>2. req[t] \in Request /\ req[t].code <= MaxOrders
  BY <1>1, Working DEF Typed, At
<1>3. s \in Request /\ s.code <= MaxOrders
  BY <1>2 DEF Request, Shape
<1> HIDE DEF s
<1> QED BY <1>1, <1>3, OwnTyped DEF Work

LEMMA FlushLinesTyped ==
    ASSUME Shape, Typed, NEW t \in Slot, FlushLines(t)
    PROVE  Typed'
<1> DEFINE s == [req[t] EXCEPT !.pc = "cleared"]
<1>1. At(t, "lined") /\ Become(t, s, None) /\ UNCHANGED <<mishap, top>>
  BY DEF FlushLines
<1>2. req[t] \in Request /\ req[t].code <= MaxOrders
  BY <1>1, Working DEF Typed, At
<1>3. s \in Request /\ s.code <= MaxOrders
  BY <1>2 DEF Request
<1> HIDE DEF s
<1>4. \A u \in Slot : Work(req'[u])
  BY <1>1, <1>3, BecomeWork DEF Work
<1> QED BY <1>1, <1>4 DEF Typed

\* An order's code is the largest committed one from now on.
LEMMA CommitOrderTyped ==
    ASSUME Shape, Typed, NEW t \in Slot, CommitOrder(t)
    PROVE  Typed'
<1>1. At(t, "cleared") /\ Goto(t, Idle) /\ top' = req[t].code /\ mishap' = mishap
  BY DEF CommitOrder
<1>2. req[t].code <= MaxOrders
  BY <1>1, Working DEF Typed, At
<1>3. \A u \in Slot : Work(req'[u])
  BY <1>1, GotoWork, IdleWork
<1> QED BY <1>1, <1>2, <1>3 DEF Typed

LEMMA NextTyped == Shape /\ Typed /\ [Next]_vars => Typed'
<1> SUFFICES ASSUME Shape, Typed, [Next]_vars PROVE Typed'
  OBVIOUS
<1>1. ASSUME NEW t \in Slot, LoopBreaks(t) PROVE Typed'
  BY <1>1, IdleWork, OwnTyped DEF LoopBreaks
<1>2. ASSUME NEW t \in Slot, Checkout(t) PROVE Typed'
  <2>1. Goto(t, Looping(TRUE, 1, cart)) /\ UNCHANGED <<mishap, top>>
    BY <1>2 DEF Checkout
  <2>2. Work(Looping(TRUE, 1, cart))
    BY LoopingWork, Zenon
  <2> QED BY <2>1, <2>2, OwnTyped
<1>3. ASSUME NEW t \in Slot, Fail(t) PROVE Typed'
  <2>1. \A u \in Slot : Work(req'[u])
    BY <1>3, GotoWork, IdleWork DEF Fail
  <2> QED BY <1>3, <2>1 DEF Fail, Typed
<1>4. CASE Restart
  <2>1. \A u \in Slot : req'[u] = Idle
    BY <1>4 DEF Restart
  <2> QED BY <1>4, <2>1, IdleWork DEF Restart, Typed
<1>5. CASE UNCHANGED vars
  BY <1>5 DEF vars, Typed
<1> QED
  BY <1>1, <1>2, <1>3, <1>4, <1>5, CartTyped, LoopEndsTyped, ReadCodeTyped,
     FlushOrderTyped, FlushLinesTyped, CommitOrderTyped DEF Next, Order

LEMMA InitTyped == Init => Typed
<1> SUFFICES ASSUME Init PROVE Typed
  OBVIOUS
<1>1. \A t \in Slot : Work(req[t])
  BY IdleWork DEF Init
<1>2. mishap \in BOOLEAN
  BY DEF Init
<1>3. top <= MaxOrders
  BY BoundsType DEF Init
<1> QED BY <1>1, <1>2, <1>3 DEF Typed

-----------------------------------------------------------------------------
(* The theorems.                                                           *)

\* However calls and checkouts of a customer overlap, fail and are cut short by
\* a restart, no piece is ordered twice, or ordered and still in the cart.
THEOREM PiecesOrderedOnce == Spec => []NoPieceTwice
<1>1. IInv => NoPieceTwice
  BY DEF IInv, PiecesLast, NoPieceTwice
<1> QED BY <1>1, Invariance, PTL

\* Without a mishap, what a customer wants is in the cart or in an order.
THEOREM PiecesAccounted == Spec => []NothingLost
<1>1. IInv => NothingLost
  BY DEF IInv, Accounted, NothingLost
<1> QED BY <1>1, Invariance, PTL

\* An order whose cart stayed the same from its total to its lines has lines,
\* and counts and charges the pieces of its lines.
THEOREM OrdersAddUp == Spec => OrderAddsUp
<1> DEFINE A == \A t \in Slot : CommitOrder(t) /\ req[t].steady =>
                   /\ req[t].lines # None
                   /\ req[t].total = SumFunction(req[t].lines)
                   /\ req[t].count = SumFunction(req[t].lines)
<1>1. AllAddUp => A
  BY DEF AllAddUp, AddsUp, CommitOrder, Inserted
<1>2. IInv /\ AllAddUp /\ [Next]_vars => AllAddUp'
  BY NextAdds DEF IInv
<1>3. Spec => []AllAddUp
  BY <1>2, InitAdds, Invariance, PTL DEF Spec
<1>4. Spec => [][A]_vars
  BY <1>1, <1>3, PTL
<1> QED BY <1>4 DEF OrderAddsUp
\* Every variable keeps its type: the total and the count of an order, which are
\* sums over the cart, are numbers, and no more orders get a code than are made.
THEOREM TypeCorrect == Spec => []TypeOK
<1>1. Shape /\ Typed => TypeOK
  BY BoundsType DEF Shape, Typed, Work, TypeOK
<1>2. IInv /\ Typed /\ [Next]_vars => Typed'
  BY NextTyped DEF IInv
<1>3. Spec => [](IInv /\ Typed)
  BY <1>2, InitTyped, Invariance, PTL DEF Spec
<1>4. IInv /\ Typed => TypeOK
  BY <1>1 DEF IInv
<1> QED BY <1>3, <1>4, PTL
=============================================================================
