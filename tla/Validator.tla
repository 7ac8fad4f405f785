----------------------------- MODULE Validator -----------------------------
(***************************************************************************)
(* The price-time priority validator of a session                          *)
(* (telemetry/internal/scorer/validator.go), as operators on its state:    *)
(* each method holds the mutex from its first to its last line.  The lists *)
(* are kept in priority order by insertion and filled orders stay in them. *)
(***************************************************************************)
EXTENDS Naturals, Sequences, FiniteSetsExt

NewValidator ==
  [BUY |-> <<>>, SELL |-> <<>>, seq |-> 0, violations |-> 0, total |-> 0, correct |-> 0]

\* x goes before y on their side.
Ahead(side, x, y) ==
  \/ side = "BUY" /\ x.price > y.price
  \/ side = "SELL" /\ x.price < y.price
  \/ x.price = y.price /\ x.seq < y.seq

\* Mutant: an ask is inserted as if it were a bid.
insert_AsBid(side, q, o) ==
  LET stop == Max({0} \cup {i \in DOMAIN q : ~Ahead("BUY", o, q[i])})
  IN  SubSeq(q, 1, stop) \o <<o>> \o SubSeq(q, stop + 1, Len(q))

\* insertBid, insertAsk: o is swapped towards the front until its neighbour is
\* not behind it.
insert(side, q, o) ==
  LET stop == Max({0} \cup {i \in DOMAIN q : ~Ahead(side, o, q[i])})
  IN  SubSeq(q, 1, stop) \o <<o>> \o SubSeq(q, stop + 1, Len(q))

RecordOrder(v, id, price, side) ==
  LET o == [id |-> id, price |-> price, seq |-> v.seq + 1, filled |-> FALSE]
  IN  [v EXCEPT !.seq = @ + 1, ![side] = insert(side, @, o)]

\* findOrder: the place of the first order with this id, bids first.
Places(v, side, id) == {i \in DOMAIN v[side] : v[side][i].id = id}
Known(v, id) == Places(v, "BUY", id) \cup Places(v, "SELL", id) # {}
findOrder(v, id) ==
  LET side == IF Places(v, "BUY", id) # {} THEN "BUY" ELSE "SELL"
  IN  [side |-> side, at |-> Min(Places(v, side, id))]

\* The loop over the orders in front of the filled one.
Overtaken(v, p) ==
  LET q == v[p.side]
  IN  \E j \in 1 .. p.at - 1 : ~q[j].filled /\ Ahead(p.side, q[j], q[p.at])

\* A fill of an order nobody recorded is a violation, and so is one that
\* overtakes; either way the order counts as filled from now on.
RecordFill(v, id) ==
  LET p  == findOrder(v, id)
      ok == Known(v, id) /\ ~Overtaken(v, p)
      w  == [v EXCEPT !.total = @ + 1,
                      !.correct = IF ok THEN @ + 1 ELSE @,
                      !.violations = IF ok THEN @ ELSE @ + 1]
  IN  IF Known(v, id) THEN [w EXCEPT ![p.side][p.at].filled = TRUE] ELSE w
=============================================================================
