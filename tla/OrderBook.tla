------------------------------ MODULE OrderBook ------------------------------
(***************************************************************************)
(* What the checkout promises about orders, whatever requests, sessions    *)
(* and transactions there are.  An order is begun, redrafted any number of *)
(* times, and placed.  The amount to pay is the price of what the order    *)
(* holds, or that price less a discount granted when the order was begun;  *)
(* the first redraft takes the discount back for ever.  Only an order that *)
(* can be delivered and lists goods is placed; a placed order is final,    *)
(* and only a draft can be dropped.                                        *)
(* A bill stands for goods and delivery.                                   *)
(***************************************************************************)
CONSTANTS OrderId, BillSet,
          Blank,     \* the bill of no goods and no delivery
          Sellable   \* the bills that list goods and a way of delivery

VARIABLES stage,     \* "none", "draft" or "placed" per order
          goods,     \* the bill of what the order holds
          payable    \* the amount to pay

vars == <<stage, goods, payable>>

\* The amount of a bill; off tells whether a discount is taken from it.
Price(bill, off) == [bill |-> bill, off |-> off]

Init == /\ stage = [o \in OrderId |-> "none"]
        /\ goods = [o \in OrderId |-> Blank]
        /\ payable = [o \in OrderId |-> Price(Blank, FALSE)]

\* Order o is begun and priced, with a discount or without.
Begin(o) ==
    /\ stage[o] = "none"
    /\ stage' = [stage EXCEPT ![o] = "draft"]
    /\ goods'[o] \in BillSet
    /\ goods' = [goods EXCEPT ![o] = goods'[o]]
    /\ \E off \in BOOLEAN : payable' = [payable EXCEPT ![o] = Price(goods'[o], off)]

\* Order o is changed, and priced without a discount; leftover drafts are
\* dropped.
Redraft(o, Leftover) ==
    /\ o \notin Leftover
    /\ \A x \in Leftover \cup {o} : stage[x] = "draft"
    /\ stage' = [x \in OrderId |-> IF x \in Leftover THEN "none" ELSE stage[x]]
    /\ goods'[o] \in BillSet
    /\ goods' = [x \in OrderId |-> IF x = o THEN goods'[o]
                                   ELSE IF x \in Leftover THEN Blank ELSE goods[x]]
    /\ payable' = [x \in OrderId |-> IF x \in Leftover \cup {o}
                                     THEN Price(goods'[x], FALSE) ELSE payable[x]]

Place(o) == /\ stage[o] = "draft"
            /\ goods[o] \in Sellable
            /\ stage' = [stage EXCEPT ![o] = "placed"]
            /\ UNCHANGED <<goods, payable>>

Next == \E o \in OrderId :
            \/ Begin(o)
            \/ \E Leftover \in SUBSET OrderId : Redraft(o, Leftover)
            \/ Place(o)

Spec == Init /\ [][Next]_vars
=============================================================================
