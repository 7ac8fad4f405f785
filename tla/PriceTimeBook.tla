--------------------------- MODULE PriceTimeBook ---------------------------
(***************************************************************************)
(* What a matching engine promises a contestant's order flow               *)
(* (CONTESTANT_GUIDE.md, "Price-time priority"): orders are taken one at a *)
(* time, a taker trades only with the best resting order of the other      *)
(* side, and it comes to rest only when nothing it could trade with is     *)
(* left.  The book is a set; how the best order is found is left to the    *)
(* implementation.                                                         *)
(***************************************************************************)
EXTENDS Naturals

CONSTANTS
  Prices,  \* limit prices; 0 marks a market order
  Qtys,    \* quantities of a request
  NoOrder  \* the absence of a taker

Sides == {"BUY", "SELL"}
Opposite(side) == IF side = "BUY" THEN "SELL" ELSE "BUY"

\* An order: its identity, its limit, what is left of it and when it arrived.
Orders == [id : Nat, side : Sides, price : Nat, qty : Nat, at : Nat]

VARIABLES resting, taker

\* x goes before y in their side's queue.
Before(x, y) ==
  \/ x.side = "BUY" /\ x.price > y.price
  \/ x.side = "SELL" /\ x.price < y.price
  \/ x.price = y.price /\ x.at < y.at

\* Taker o accepts the price of the resting order r.
Crosses(o, r) ==
  \/ o.price = 0
  \/ o.side = "BUY" /\ r.price <= o.price
  \/ o.side = "SELL" /\ r.price >= o.price

\* The resting orders no other order of their side goes before.
Best(side) ==
  {r \in resting : r.side = side /\ \A x \in resting : x.side = side => ~Before(x, r)}

Less(x, y) == IF x < y THEN x ELSE y

Init == resting = {} /\ taker = NoOrder

\* An order whose identity is not in the book becomes the taker.
Accept ==
  /\ taker = NoOrder
  /\ taker' \in Orders
  /\ taker'.price \in Prices /\ taker'.qty \in Qtys
  /\ \A r \in resting : r.id # taker'.id
  /\ UNCHANGED resting

\* The taker trades with a best order of the other side.
Trade(r) ==
  LET q == Less(taker.qty, r.qty) IN
  /\ taker # NoOrder
  /\ r \in Best(Opposite(taker.side))
  /\ taker.qty > 0 /\ Crosses(taker, r)
  /\ taker' = [taker EXCEPT !.qty = @ - q]
  /\ resting' = (resting \ {r}) \cup (IF r.qty > q THEN {[r EXCEPT !.qty = @ - q]} ELSE {})

\* Nothing is left to trade; the rest of the order goes into the book.
Settle ==
  /\ taker # NoOrder
  /\ \/ taker.qty = 0
     \/ \A r \in resting : r.side = Opposite(taker.side) => ~Crosses(taker, r)
  /\ resting' = resting \cup (IF taker.qty > 0 THEN {taker} ELSE {})
  /\ taker' = NoOrder

Next ==
  \/ Accept
  \/ \E r \in resting : Trade(r)
  \/ Settle

Spec == Init /\ [][Next]_<<resting, taker>>
=============================================================================
