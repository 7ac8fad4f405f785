----------------------------- MODULE OrderBook -----------------------------
(***************************************************************************)
(* The order book of the reference matching engine (dummy-engine/main.go). *)
(* handleOrder stamps an order, sleeps and calls match, which runs under   *)
(* the mutex of the symbol's book: it walks the sorted slice of the other  *)
(* side from its head and puts what is left of the order into its own      *)
(* side, which it sorts again.  Books of different symbols share nothing,  *)
(* so one book is modelled.                                                *)
(*                                                                         *)
(* The walk is one step per iteration; the mutex is held from Lock to      *)
(* Reply (taker # NoOrder), so that nobody sees the steps in between.      *)
(***************************************************************************)
EXTENDS Naturals, Sequences, Functions

CONSTANTS
  Prices,     \* limit prices; 0 is what a market order carries
  Qtys,       \* quantities of a request
  MaxOrders,  \* bound: orders ever sent
  NoOrder     \* the absence of a taker

ASSUME PricesAssumption == Prices \subseteq Nat
ASSUME QtysAssumption == Qtys \subseteq Nat

Sides == {"BUY", "SELL"}
Opposite(side) == IF side = "BUY" THEN "SELL" ELSE "BUY"

\* type order; id stands for the pointer.
Orders == [id : Nat, side : Sides, price : Nat, qty : Nat, at : Nat]

ASSUME NoOrderAssumption == NoOrder \notin Orders

VARIABLES
  waiting,    \* orders whose handler sleeps or waits for the mutex
  taker,      \* the order match was called with by the holder of the mutex
  book,       \* book["BUY"] is ob.bids, book["SELL"] is ob.asks
  fillPrice, fillQty,   \* match's results so far
  clock,      \* time.Now
  responses,  \* answers given, with the quantity asked for
  asked,      \* observed: the quantity of each order, by id
  traded      \* observed: how much of each order was traded, by id

vars == <<waiting, taker, book, fillPrice, fillQty, clock, responses, asked, traded>>

\* The comparison functions of sortBids and sortAsks.
Before(x, y) ==
  \/ x.side = "BUY" /\ x.price > y.price
  \/ x.side = "SELL" /\ x.price < y.price
  \/ x.price = y.price /\ x.at < y.at

Sorted(s) == \A i, j \in DOMAIN s : i < j => ~Before(s[j], s[i])

\* Mutant: the queue is left in the order of insertion.
sort_None(s) == {s}

\* sortBids, sortAsks: sort.Slice is not stable, so orders that compare equal
\* may come out in any order.
sort(s) ==
  {t \in {[i \in DOMAIN s |-> s[f[i]]] : f \in Bijection(DOMAIN s, DOMAIN s)} : Sorted(t)}

\* Mutant: an order that is not used up keeps its quantity.
Consume_KeepQty(q, fill) == IF q[1].qty = fill THEN Tail(q) ELSE q

\* best.qty -= fill, and the head is dropped when nothing is left of it.
Consume(q, fill) == IF q[1].qty = fill THEN Tail(q) ELSE [q EXCEPT ![1].qty = @ - fill]

min64(x, y) == IF x < y THEN x ELSE y

\* Mutant: orders at the same price do not trade.
Crosses_Strict(o, best) ==
  \/ o.price = 0
  \/ o.side = "BUY" /\ best.price < o.price
  \/ o.side = "SELL" /\ best.price > o.price

\* The negation of the break condition; a price of 0 accepts everything.
Crosses(o, best) ==
  \/ o.price = 0
  \/ o.side = "BUY" /\ best.price <= o.price
  \/ o.side = "SELL" /\ best.price >= o.price

\* The observer's account of a trade of n between the orders ids.
Credit(t, ids, n) == [i \in DOMAIN t |-> IF i \in ids THEN t[i] + n ELSE t[i]]

CanFill ==
  LET opp == book[Opposite(taker.side)] IN
  /\ opp # <<>> /\ taker.qty > 0
  /\ Crosses(taker, Head(opp))

-----------------------------------------------------------------------------

Init ==
  /\ waiting = {}
  /\ taker = NoOrder
  /\ book = [s \in Sides |-> <<>>]
  /\ fillPrice = 0 /\ fillQty = 0
  /\ clock = 0
  /\ responses = {}
  /\ asked = <<>> /\ traded = <<>>

\* handleOrder up to the sleep.  The clock may stand still between two orders.
handleOrder(side, price, qty) ==
  /\ Len(asked) < MaxOrders
  /\ clock' \in {clock, clock + 1}
  /\ waiting' = waiting \cup {[id |-> Len(asked) + 1, side |-> side, price |-> price,
                               qty |-> qty, at |-> clock']}
  /\ asked' = Append(asked, qty)
  /\ traded' = Append(traded, 0)
  /\ UNCHANGED <<taker, book, fillPrice, fillQty, responses>>

\* match takes the mutex.
Lock(o) ==
  /\ taker = NoOrder
  /\ waiting' = waiting \ {o}
  /\ taker' = o
  /\ fillPrice' = 0 /\ fillQty' = 0
  /\ UNCHANGED <<book, clock, responses, asked, traded>>

\* One iteration of the loop.
Fill ==
  LET opp  == Opposite(taker.side)
      best == Head(book[opp])
      fill == min64(taker.qty, best.qty)
  IN
  /\ taker # NoOrder
  /\ CanFill
  /\ fillPrice' = best.price
  /\ fillQty' = fillQty + fill
  /\ taker' = [taker EXCEPT !.qty = @ - fill]
  /\ book' = [book EXCEPT ![opp] = Consume(@, fill)]
  /\ traded' = Credit(traded, {taker.id, best.id}, fill)
  /\ UNCHANGED <<waiting, clock, responses, asked>>

\* The end of match, and the answer.
Reply ==
  /\ taker # NoOrder
  /\ ~CanFill
  /\ IF taker.qty > 0
       THEN \E s \in sort(Append(book[taker.side], taker)) : book' = [book EXCEPT ![taker.side] = s]
       ELSE UNCHANGED book
  /\ responses' = responses \cup {[id |-> taker.id, asked |-> asked[taker.id],
                                   price |-> fillPrice, qty |-> fillQty,
                                   status |-> IF fillQty > 0 THEN "FILLED" ELSE "PENDING"]}
  /\ taker' = NoOrder
  /\ UNCHANGED <<waiting, fillPrice, fillQty, clock, asked, traded>>

Next ==
  \/ \E side \in Sides, price \in Prices, qty \in Qtys : handleOrder(side, price, qty)
  \/ \E o \in waiting : Lock(o)
  \/ Fill
  \/ Reply

Spec == Init /\ [][Next]_vars

-----------------------------------------------------------------------------
(* Properties                                                              *)

\* The orders in the book, and all orders the engine holds.
Resting == Range(book["BUY"]) \cup Range(book["SELL"])
Live == waiting \cup Resting \cup ({taker} \ {NoOrder})

\* Every variable has its type.
TypeOK ==
  /\ waiting \subseteq Orders
  /\ taker \in Orders \cup {NoOrder}
  /\ book \in [Sides -> Seq(Orders)]
  /\ fillPrice \in Nat /\ fillQty \in Nat /\ clock \in Nat
  /\ asked \in Seq(Nat) /\ traded \in Seq(Nat)
  /\ responses \subseteq [id : Nat, asked : Nat, price : Nat, qty : Nat, status : {"FILLED", "PENDING"}]

\* No quantity is made or lost: what is left of an order that sleeps, trades or
\* rests is what was asked for minus what was traded, and an order that is
\* nowhere any more was traded in full.
Conserved ==
  /\ \A o \in Live : o.qty + traded[o.id] = asked[o.id]
  /\ \A i \in DOMAIN asked : (\A o \in Live : o.id # i) => traded[i] = asked[i]

\* Between two calls of match the book is not crossed: no resting buy order
\* accepts the price of a resting sell order, whatever mixture of limit orders,
\* market orders and leftovers of market orders came in.
Uncrossed ==
  taker = NoOrder =>
    \A i \in DOMAIN book["BUY"], j \in DOMAIN book["SELL"] :
      book["BUY"][i].price < book["SELL"][j].price

\* The book implements price-time priority matching.
Abstract == INSTANCE PriceTimeBook WITH resting <- Resting, taker <- taker
PriceTimePriority == Abstract!Spec

\* An answer with a trade has an execution price: 0 is for orders that rest.
FillHasPrice == \A r \in responses : r.qty > 0 => r.price > 0

\* FILLED is said of an order that traded in full.
FilledIsComplete == \A r \in responses : r.status = "FILLED" => r.qty = r.asked

=============================================================================
