-------------------------- MODULE OrderBookProofs --------------------------
(***************************************************************************)
(* Proofs about the reference engine's order book, for any prices, any     *)
(* quantities and any number of orders: quantity is conserved, the book is *)
(* never crossed, and match implements price-time priority.                *)
(*                                                                         *)
(* And about the validator, under any calls of its methods: its verdicts   *)
(* are those of price-time priority.                                       *)
(***************************************************************************)
EXTENDS OrderBook, ValidatorCalls, SequenceTheorems, NaturalsInduction, WellFoundedInduction, TLAPS

\* No order is in a queue twice.
Distinct(q) == \A i, j \in DOMAIN q : q[i].id = q[j].id => i = j

\* Both queues are sorted, hold orders of their own side only, no order twice
\* and none that is used up.
Queues ==
  \A s \in Sides :
    /\ Sorted(book[s]) /\ Distinct(book[s])
    /\ \A o \in Range(book[s]) : o.side = s /\ o.qty > 0

\* The orders that wait are as they were sent.
WaitingAsSent == \A o \in waiting : o.price \in Prices /\ o.qty \in Qtys

\* Every order is in one place, under the id it was given on arrival.
OnePlace ==
  /\ Len(traded) = Len(asked)
  /\ \A o \in Live : o.id \in DOMAIN asked
  /\ \A x, y \in waiting : x.id = y.id => x = y
  /\ \A x \in waiting, y \in Resting : x.id # y.id
  /\ \A x \in Range(book["BUY"]), y \in Range(book["SELL"]) : x.id # y.id
  /\ taker # NoOrder => \A x \in waiting \cup Resting : x.id # taker.id

\* The book is not crossed even while match runs: the taker is not in it.
BookUncrossed ==
  \A x \in Range(book["BUY"]), y \in Range(book["SELL"]) : x.price < y.price

\* The inductive invariant.
IInv == TypeOK /\ Queues /\ WaitingAsSent /\ OnePlace /\ BookUncrossed /\ Conserved

-----------------------------------------------------------------------------
(* Queues                                                                  *)

\* Sorting a queue permutes it.
LEMMA SortPermutes ==
  ASSUME NEW q \in Seq(Orders), NEW t \in sort(q)
  PROVE  /\ t \in Seq(Orders) /\ Sorted(t) /\ Range(t) = Range(q)
         /\ Distinct(q) => Distinct(t)
<1>1. PICK f \in Bijection(DOMAIN q, DOMAIN q) : t = [i \in DOMAIN q |-> q[f[i]]]
  BY DEF sort
<1>2. /\ f \in [DOMAIN q -> DOMAIN q]
      /\ \A i, j \in DOMAIN q : f[i] = f[j] => i = j
      /\ \A i \in DOMAIN q : \E j \in DOMAIN q : f[j] = i
  BY DEF Bijection, Injection, Surjection, IsInjective
<1>3. DOMAIN q = 1..Len(q) /\ Len(q) \in Nat
  OBVIOUS
<1>4. t \in Seq(Orders) /\ DOMAIN t = DOMAIN q
  BY <1>1, <1>2, <1>3
<1>5. Sorted(t)
  BY DEF sort
<1>6. Range(t) = Range(q)
  BY <1>1, <1>2, <1>4 DEF Range
<1>7. Distinct(q) => Distinct(t)
  BY <1>1, <1>2, <1>4 DEF Distinct
<1> QED
  BY <1>4, <1>5, <1>6, <1>7

\* Appending an order that is not in the queue.
LEMMA AppendDistinct ==
  ASSUME NEW q \in Seq(Orders), NEW o \in Orders, Distinct(q),
         \A x \in Range(q) : x.id # o.id
  PROVE  /\ Append(q, o) \in Seq(Orders) /\ Distinct(Append(q, o))
         /\ Range(Append(q, o)) = Range(q) \cup {o}
<1>1. /\ Append(q, o) \in Seq(Orders)
      /\ DOMAIN q = 1..Len(q) /\ Len(q) \in Nat
      /\ DOMAIN Append(q, o) = 1..(Len(q) + 1)
      /\ \A i \in 1..Len(q) : Append(q, o)[i] = q[i]
      /\ Append(q, o)[Len(q) + 1] = o
  OBVIOUS
<1>2. Range(Append(q, o)) = Range(q) \cup {o}
  BY <1>1 DEF Range
<1>3. \A i \in 1..Len(q) : q[i].id # o.id
  BY <1>1 DEF Range
<1>4. Distinct(Append(q, o))
  BY <1>1, <1>3 DEF Distinct
<1> QED
  BY <1>1, <1>2, <1>4

\* What consuming n of the first order leaves of the others and of itself.
LEMMA ConsumeHead ==
  ASSUME NEW q \in Seq(Orders), q # <<>>, Sorted(q), Distinct(q),
         NEW n \in Nat, n <= q[1].qty
  PROVE  LET b == q[1] IN
         /\ b \in Range(q)
         /\ Consume(q, n) \in Seq(Orders)
         /\ Sorted(Consume(q, n)) /\ Distinct(Consume(q, n))
         /\ Range(Consume(q, n)) =
              (Range(q) \ {b}) \cup (IF b.qty > n THEN {[b EXCEPT !.qty = @ - n]} ELSE {})
<1> DEFINE b == q[1]
           c == [b EXCEPT !.qty = @ - n]
           t == Consume(q, n)
<1>0. /\ Len(q) \in Nat /\ Len(q) > 0 /\ DOMAIN q = 1..Len(q)
      /\ 1 \in DOMAIN q /\ q[1] \in Orders
  BY EmptySeq, LenProperties
<1>1. /\ Len(q) \in Nat /\ Len(q) > 0 /\ DOMAIN q = 1..Len(q)
      /\ b \in Orders /\ 1 \in DOMAIN q /\ b.qty \in Nat
  BY <1>0 DEF Orders
<1>2. b \in Range(q)
  BY <1>1 DEF Range
<1>3. CASE b.qty = n
  <2>1. t = Tail(q)
    BY <1>3 DEF Consume
  <2>2. /\ t \in Seq(Orders) /\ Len(t) = Len(q) - 1 /\ DOMAIN t = 1..(Len(q) - 1)
        /\ \A i \in DOMAIN t : t[i] = q[i + 1] /\ i + 1 \in DOMAIN q
    BY <2>1, <1>1, HeadTailProperties
  <2> HIDE DEF t
  <2>3. Sorted(t) /\ Distinct(t)
    <3>1. ASSUME NEW i \in DOMAIN t, NEW j \in DOMAIN t
          PROVE  /\ i < j => ~Before(t[j], t[i])
                 /\ t[i].id = t[j].id => i = j
      <4>1. t[i] = q[i + 1] /\ t[j] = q[j + 1] /\ i + 1 \in DOMAIN q /\ j + 1 \in DOMAIN q
        BY <2>2
      <4>2. i \in Nat /\ j \in Nat
        BY <2>2, <1>1
      <4>3. i < j => ~Before(q[j + 1], q[i + 1])
        BY <4>1, <4>2 DEF Sorted
      <4>4. q[i + 1].id = q[j + 1].id => i + 1 = j + 1
        BY <4>1 DEF Distinct
      <4> QED
        BY <4>1, <4>2, <4>3, <4>4
    <3> QED
      BY <3>1 DEF Sorted, Distinct
  <2>4. Range(t) = Range(q) \ {b}
    <3>1. ASSUME NEW x \in Range(t) PROVE x \in Range(q) \ {b}
      <4>1. PICK i \in DOMAIN t : x = t[i]
        BY DEF Range
      <4>2. x = q[i + 1] /\ i + 1 \in DOMAIN q /\ i + 1 # 1
        BY <4>1, <2>2
      <4> QED
        BY <4>2, <1>1 DEF Range, Distinct
    <3>2. ASSUME NEW x \in Range(q) \ {b} PROVE x \in Range(t)
      <4>1. PICK i \in DOMAIN q : x = q[i]
        BY DEF Range
      <4>2. i - 1 \in DOMAIN t /\ x = t[i - 1]
        BY <4>1, <2>2, <1>1
      <4> QED
        BY <4>2 DEF Range
    <3> QED
      BY <3>1, <3>2
  <2>5. ~(b.qty > n)
    BY <1>1, <1>3
  <2> QED
    BY <2>2, <2>3, <2>4, <2>5, <1>2 DEF t
<1>4. CASE b.qty # n
  <2>1. t = [q EXCEPT ![1] = c]
    BY <1>4, <1>1 DEF Consume
  <2> HIDE DEF t, b
  <2>2. c \in Orders /\ c.id = b.id /\ c.side = b.side /\ c.price = b.price /\ c.at = b.at
    <3>1. b \in Orders /\ b.qty - n \in Nat
      BY <1>1, <1>4 DEF b
    <3> QED
      BY <3>1 DEF Orders
  <2> USE DEF b
  <2> HIDE DEF c
  <2>3. /\ t \in Seq(Orders) /\ DOMAIN t = DOMAIN q /\ t[1] = c
        /\ \A i \in DOMAIN q : i # 1 => t[i] = q[i]
    BY <2>1, <2>2, <1>1
  <2>4. \A i \in DOMAIN q : t[i].id = q[i].id /\ t[i].side = q[i].side
                            /\ t[i].price = q[i].price /\ t[i].at = q[i].at
    BY <2>2, <2>3
  <2>5. Sorted(t) /\ Distinct(t)
    BY <2>3, <2>4 DEF Sorted, Distinct, Before
  <2>6. Range(t) = (Range(q) \ {b}) \cup {c}
    <3>1. ASSUME NEW x \in Range(t) PROVE x \in (Range(q) \ {b}) \cup {c}
      <4>1. PICK i \in DOMAIN q : x = t[i]
        BY <2>3 DEF Range
      <4>2. CASE i = 1
        BY <4>1, <4>2, <2>3
      <4>3. CASE i # 1
        BY <4>1, <4>3, <2>3, <1>1 DEF Range, Distinct
      <4> QED
        BY <4>2, <4>3
    <3>2. ASSUME NEW x \in Range(q) \ {b} PROVE x \in Range(t)
      BY <2>3 DEF Range
    <3>3. c \in Range(t)
      BY <2>3, <1>1 DEF Range
    <3> QED
      BY <3>1, <3>2, <3>3
  <2>7. b.qty > n
    BY <1>1, <1>4
  <2> QED
    BY <2>3, <2>5, <2>6, <2>7, <1>2 DEF c, t
<1> QED
  BY <1>3, <1>4

\* The head of a sorted queue of one side is a best order, and no taker that
\* refuses its price accepts another one's.
LEMMA HeadIsBest ==
  ASSUME NEW q \in Seq(Orders), q # <<>>, Sorted(q),
         NEW s \in Sides, \A x \in Range(q) : x.side = s,
         NEW x \in Range(q)
  PROVE  /\ ~Before(x, q[1])
         /\ \A o \in Orders : o.side = Opposite(s) /\ Crosses(o, x) => Crosses(o, q[1])
<1>1. PICK i \in DOMAIN q : x = q[i]
  BY DEF Range
<1>2. /\ DOMAIN q = 1..Len(q) /\ Len(q) \in Nat /\ 1 \in DOMAIN q
      /\ x \in Orders /\ q[1] \in Orders /\ q[1].side = s /\ x.side = s
  <2>1. DOMAIN q = 1..Len(q) /\ Len(q) \in Nat /\ 1 \in DOMAIN q
    BY EmptySeq, LenProperties
  <2>2. x \in Orders /\ q[1] \in Orders /\ q[1] \in Range(q)
    BY <2>1, <1>1, ElementOfSeq DEF Range
  <2> QED
    BY <2>1, <2>2
<1>3. ~Before(x, q[1])
  <2>1. CASE i = 1
    BY <2>1, <1>1, <1>2 DEF Before, Orders
  <2>2. CASE i # 1
    BY <2>2, <1>1, <1>2 DEF Sorted
  <2> QED
    BY <2>1, <2>2
<1> DEFINE h == q[1]
<1>4. /\ x.price \in Nat /\ h.price \in Nat /\ x.side = s /\ h.side = s
      /\ s = "BUY" \/ s = "SELL"
      /\ ~Before(x, h)
  BY <1>2, <1>3 DEF Orders, Sides
<1>5. SUFFICES ASSUME NEW o \in Orders, o.side = Opposite(s), Crosses(o, x) PROVE Crosses(o, h)
  BY <1>3
<1>6. o.price \in Nat
  BY DEF Orders
<1> HIDE DEF h
<1>7. CASE s = "BUY"
  BY <1>4, <1>5, <1>6, <1>7 DEF Before, Crosses, Opposite
<1>8. CASE s = "SELL"
  BY <1>4, <1>5, <1>6, <1>8 DEF Before, Crosses, Opposite
<1> QED
  BY <1>4, <1>7, <1>8

-----------------------------------------------------------------------------
(* Invariance                                                              *)

\* The sides, and what one is to the other.
LEMMA SideFacts ==
  \A s \in Sides : /\ Opposite(s) \in Sides /\ Opposite(s) # s /\ Opposite(Opposite(s)) = s
                   /\ s = "BUY" \/ s = "SELL"
                   /\ \A x \in Sides : x = s \/ x = Opposite(s)
BY DEF Sides, Opposite

\* The book has its two queues.
LEMMA RestingSides ==
  ASSUME book \in [Sides -> Seq(Orders)], NEW s \in Sides
  PROVE  /\ Resting = Range(book[s]) \cup Range(book[Opposite(s)])
         /\ book[s] \in Seq(Orders) /\ book[Opposite(s)] \in Seq(Orders)
         /\ \A x \in Sides : Range(book[x]) \subseteq Orders
<1>1. \A x \in Sides : book[x] \in Seq(Orders)
  OBVIOUS
<1>2. ASSUME NEW x \in Sides PROVE Range(book[x]) \subseteq Orders
  BY <1>1, ElementOfSeq, LenProperties DEF Range
<1> QED
  BY <1>1, <1>2, SideFacts DEF Resting, Opposite, Sides

\* The empty book.
LEMMA InitInv == Init => IInv
<1> SUFFICES ASSUME Init PROVE IInv
  OBVIOUS
<1>1. \A s \in Sides : book[s] = <<>> /\ Range(book[s]) = {} /\ DOMAIN book[s] = {}
  BY DEF Init, Range
<1>2. Live = {} /\ Resting = {} /\ "BUY" \in Sides /\ "SELL" \in Sides
  BY <1>1 DEF Init, Live, Resting, Sides
<1>3. TypeOK
  BY DEF Init, TypeOK
<1>4. Queues
  BY <1>1 DEF Queues, Sorted, Distinct
<1>5. OnePlace /\ WaitingAsSent /\ BookUncrossed /\ Conserved
  BY <1>1, <1>2 DEF Init, OnePlace, WaitingAsSent, BookUncrossed, Conserved
<1> QED
  BY <1>3, <1>4, <1>5 DEF IInv

\* An arriving order gets an id nobody has.
LEMMA HandleOrderInv ==
  ASSUME IInv, NEW side \in Sides, NEW price \in Prices, NEW qty \in Qtys,
         handleOrder(side, price, qty)
  PROVE  IInv'
<1> DEFINE n == Len(asked) + 1
           o == [id |-> n, side |-> side, price |-> price, qty |-> qty, at |-> clock']
<1>1. /\ taker' = taker /\ book' = book /\ fillPrice' = fillPrice /\ fillQty' = fillQty
      /\ responses' = responses /\ waiting' = waiting \cup {o}
      /\ asked' = Append(asked, qty) /\ traded' = Append(traded, 0) /\ clock' \in {clock, clock + 1}
  BY DEF handleOrder
<1>2. qty \in Nat /\ price \in Nat /\ n \in Nat /\ clock' \in Nat
  BY <1>1, PricesAssumption, QtysAssumption DEF IInv, TypeOK
<1>3. o \in Orders /\ o.id = n /\ o.qty = qty /\ o.price = price
  BY <1>2 DEF Orders
<1> HIDE DEF o
<1>4. /\ asked' \in Seq(Nat) /\ traded' \in Seq(Nat) /\ Len(traded) = Len(asked)
      /\ DOMAIN asked = 1..Len(asked) /\ DOMAIN asked' = 1..n /\ Len(asked) \in Nat
      /\ asked'[n] = qty /\ traded'[n] = 0 /\ Len(traded') = Len(asked')
      /\ \A i \in DOMAIN asked : asked'[i] = asked[i] /\ traded'[i] = traded[i] /\ i # n
  BY <1>1, <1>2 DEF IInv, TypeOK, OnePlace
<1>5. TypeOK'
  BY <1>1, <1>2, <1>3, <1>4 DEF IInv, TypeOK
<1>6. Resting' = Resting /\ Live' = Live \cup {o} /\ Queues' /\ BookUncrossed'
  BY <1>1 DEF Resting, Live, Queues, BookUncrossed, IInv
<1>7. WaitingAsSent'
  BY <1>1, <1>3 DEF WaitingAsSent, IInv
<1>8. \A x \in Live : x.id \in DOMAIN asked /\ x.id # n
  BY <1>4 DEF IInv, OnePlace
<1>9. waiting \subseteq Live /\ Resting \subseteq Live /\ (taker # NoOrder => taker \in Live)
  BY DEF Live
<1>10. OnePlace'
  <2>1. \A x \in Live' : x.id \in DOMAIN asked'
    BY <1>3, <1>4, <1>6, <1>8
  <2>2. \A x, y \in waiting' : x.id = y.id => x = y
    BY <1>1, <1>3, <1>8, <1>9 DEF IInv, OnePlace
  <2>3. \A x \in waiting', y \in Resting' : x.id # y.id
    BY <1>1, <1>3, <1>6, <1>8, <1>9 DEF IInv, OnePlace
  <2>4. taker' # NoOrder => \A x \in waiting' \cup Resting' : x.id # taker'.id
    BY <1>1, <1>3, <1>6, <1>8, <1>9 DEF IInv, OnePlace
  <2> QED
    BY <1>1, <1>4, <2>1, <2>2, <2>3, <2>4 DEF IInv, OnePlace
<1>11. Conserved'
  <2>1. ASSUME NEW x \in Live' PROVE x.qty + traded'[x.id] = asked'[x.id]
    <3>1. CASE x \in Live
      BY <3>1, <1>4, <1>8 DEF IInv, Conserved
    <3>2. CASE x = o
      BY <3>2, <1>2, <1>3, <1>4
    <3> QED
      BY <3>1, <3>2, <1>6
  <2>2. ASSUME NEW i \in DOMAIN asked', \A x \in Live' : x.id # i PROVE traded'[i] = asked'[i]
    <3>1. i \in DOMAIN asked /\ \A x \in Live : x.id # i
      BY <2>2, <1>3, <1>4, <1>6
    <3> QED
      BY <3>1, <1>4 DEF IInv, Conserved
  <2> QED
    BY <2>1, <2>2 DEF Conserved
<1> QED
  BY <1>5, <1>6, <1>7, <1>10, <1>11 DEF IInv

\* Taking the mutex moves an order from one place to another.
LEMMA LockInv ==
  ASSUME IInv, NEW o \in waiting, Lock(o)
  PROVE  IInv'
<1>1. /\ taker = NoOrder /\ taker' = o /\ waiting' = waiting \ {o} /\ book' = book
      /\ fillPrice' = 0 /\ fillQty' = 0 /\ clock' = clock /\ responses' = responses
      /\ asked' = asked /\ traded' = traded
  BY DEF Lock
<1>2. o \in Orders /\ o # NoOrder
  BY NoOrderAssumption DEF IInv, TypeOK
<1>3. TypeOK'
  BY <1>1, <1>2 DEF IInv, TypeOK
<1>4. Resting' = Resting /\ Queues' /\ BookUncrossed' /\ WaitingAsSent'
  BY <1>1 DEF IInv, Resting, Queues, BookUncrossed, WaitingAsSent
<1>5. Live' = Live
  BY <1>1, <1>2, <1>4 DEF Live
<1>6. OnePlace'
  BY <1>1, <1>2, <1>4, <1>5 DEF IInv, OnePlace
<1>7. Conserved'
  BY <1>1, <1>5 DEF IInv, Conserved
<1> QED
  BY <1>3, <1>4, <1>6, <1>7 DEF IInv

\* What an iteration of the loop works on.
LEMMA FillFacts ==
  ASSUME IInv, Fill
  PROVE  LET s   == taker.side
             opp == Opposite(s)
             b   == book[opp][1]
             n   == min64(taker.qty, b.qty)
         IN
         /\ s \in Sides /\ opp \in Sides /\ taker \in Orders /\ taker # NoOrder
         /\ b \in Range(book[opp]) /\ b \in Orders /\ b.side = opp
         /\ book[opp] # <<>> /\ Crosses(taker, b)
         /\ n \in Nat /\ n > 0 /\ n <= b.qty /\ n <= taker.qty
         /\ taker.qty \in Nat /\ b.qty \in Nat
         /\ taker' = [taker EXCEPT !.qty = @ - n]
         /\ book' = [book EXCEPT ![opp] = Consume(@, n)]
         /\ traded' = Credit(traded, {taker.id, b.id}, n)
         /\ fillPrice' = b.price /\ fillQty' = fillQty + n
         /\ waiting' = waiting /\ clock' = clock /\ responses' = responses /\ asked' = asked
<1> DEFINE s == taker.side
           opp == Opposite(s)
           q == book[opp]
           b == q[1]
           n == min64(taker.qty, b.qty)
<1>1. taker # NoOrder /\ taker \in Orders
  BY DEF Fill, IInv, TypeOK
<1>2. s \in Sides /\ taker.qty \in Nat
  BY <1>1 DEF Orders
<1>3. opp \in Sides /\ q \in Seq(Orders)
  BY <1>2, SideFacts DEF IInv, TypeOK
<1>4. q # <<>> /\ taker.qty > 0 /\ Crosses(taker, Head(q))
  BY DEF Fill, CanFill
<1>5. Head(q) = b /\ 1 \in DOMAIN q /\ b \in Orders
  BY <1>3, <1>4, EmptySeq, LenProperties
<1>6. b \in Range(q)
  BY <1>5 DEF Range
<1>7. b.side = opp /\ b.qty > 0 /\ b.qty \in Nat
  BY <1>3, <1>5, <1>6 DEF IInv, Queues, Orders
<1>8. n \in Nat /\ n > 0 /\ n <= b.qty /\ n <= taker.qty
  BY <1>2, <1>4, <1>7 DEF min64
<1>9. /\ taker' = [taker EXCEPT !.qty = @ - n]
      /\ book' = [book EXCEPT ![opp] = Consume(@, n)]
      /\ traded' = Credit(traded, {taker.id, b.id}, n)
      /\ fillPrice' = b.price /\ fillQty' = fillQty + n
      /\ waiting' = waiting /\ clock' = clock /\ responses' = responses /\ asked' = asked
  BY <1>5 DEF Fill
<1> QED
  BY <1>1, <1>2, <1>3, <1>4, <1>5, <1>6, <1>7, <1>8, <1>9

\* Both parties of a trade get the same quantity.
LEMMA TradeBoth ==
  ASSUME NEW t \in Seq(Nat), NEW ids, NEW n \in Nat
  PROVE  /\ Credit(t, ids, n) \in Seq(Nat) /\ Len(Credit(t, ids, n)) = Len(t)
         /\ \A i \in DOMAIN t : i \in ids => Credit(t, ids, n)[i] = t[i] + n
         /\ \A i \in DOMAIN t : i \notin ids => Credit(t, ids, n)[i] = t[i]
<1> DEFINE r == Credit(t, ids, n)
<1>1. DOMAIN t = 1..Len(t) /\ Len(t) \in Nat /\ \A i \in DOMAIN t : t[i] \in Nat
  BY LenProperties
<1>2. /\ DOMAIN r = DOMAIN t
      /\ \A i \in DOMAIN t : r[i] = IF i \in ids THEN t[i] + n ELSE t[i]
  BY DEF Credit
<1>3. \A i \in DOMAIN t : r[i] \in Nat
  BY <1>1, <1>2
<1>4. r = [i \in 1..Len(t) |-> r[i]]
  BY <1>1 DEF Credit
<1> HIDE DEF r
<1>5. r \in Seq(Nat) /\ Len(r) = Len(t)
  BY <1>1, <1>2, <1>3, <1>4
<1> QED
  BY <1>2, <1>5 DEF r

\* What an iteration leaves in the book.
LEMMA FillBook ==
  ASSUME IInv, Fill
  PROVE  LET opp == Opposite(taker.side)
             b   == book[opp][1]
             n   == min64(taker.qty, b.qty)
         IN
         /\ book' \in [Sides -> Seq(Orders)]
         /\ book'[taker.side] = book[taker.side]
         /\ Sorted(book'[opp]) /\ Distinct(book'[opp])
         /\ Range(book'[opp]) = (Range(book[opp]) \ {b}) \cup
                                (IF b.qty > n THEN {[b EXCEPT !.qty = @ - n]} ELSE {})
<1> DEFINE s == taker.side
           opp == Opposite(s)
           q == book[opp]
           b == q[1]
           n == min64(taker.qty, b.qty)
<1>1. /\ s \in Sides /\ opp \in Sides /\ opp # s /\ q \in Seq(Orders) /\ q # <<>>
      /\ n \in Nat /\ n <= b.qty
      /\ book' = [book EXCEPT ![opp] = Consume(@, n)]
      /\ book \in [Sides -> Seq(Orders)]
  BY FillFacts, SideFacts DEF IInv, TypeOK
<1>2. Sorted(q) /\ Distinct(q)
  BY <1>1 DEF IInv, Queues
<1> HIDE DEF n, q
<1>3. /\ Consume(q, n) \in Seq(Orders) /\ Sorted(Consume(q, n)) /\ Distinct(Consume(q, n))
      /\ Range(Consume(q, n)) =
           (Range(q) \ {b}) \cup (IF b.qty > n THEN {[b EXCEPT !.qty = @ - n]} ELSE {})
  BY <1>1, <1>2, ConsumeHead
<1>4. book'[opp] = Consume(q, n) /\ book'[s] = book[s] /\ book' \in [Sides -> Seq(Orders)]
  BY <1>1, <1>3 DEF q
<1> QED
  BY <1>3, <1>4 DEF n, q

\* A trade keeps the invariant.
LEMMA FillInv ==
  ASSUME IInv, Fill
  PROVE  IInv'
<1> DEFINE s == taker.side
           opp == Opposite(s)
           b == book[opp][1]
           n == min64(taker.qty, b.qty)
           c == [b EXCEPT !.qty = @ - n]
           Rest == IF b.qty > n THEN {c} ELSE {}
<1>1. /\ s \in Sides /\ opp \in Sides /\ taker \in Orders /\ taker # NoOrder
      /\ b \in Range(book[opp]) /\ b \in Orders /\ b.side = opp
      /\ n \in Nat /\ n > 0 /\ n <= b.qty /\ n <= taker.qty
      /\ taker.qty \in Nat /\ b.qty \in Nat
      /\ taker' = [taker EXCEPT !.qty = @ - n]
      /\ traded' = Credit(traded, {taker.id, b.id}, n)
      /\ fillPrice' = b.price /\ fillQty' = fillQty + n
      /\ waiting' = waiting /\ clock' = clock /\ responses' = responses /\ asked' = asked
  BY FillFacts
<1>2. /\ book' \in [Sides -> Seq(Orders)]
      /\ book'[s] = book[s] /\ Sorted(book'[opp]) /\ Distinct(book'[opp])
      /\ Range(book'[opp]) = (Range(book[opp]) \ {b}) \cup Rest
  BY FillBook
<1>3. /\ book \in [Sides -> Seq(Orders)]
      /\ Resting = Range(book[s]) \cup Range(book[opp])
      /\ Resting' = Range(book'[s]) \cup Range(book'[opp])
      /\ Range(book[s]) \subseteq Orders /\ Range(book[opp]) \subseteq Orders
      /\ \A x \in Sides : x = s \/ x = opp
      /\ "BUY" \in Sides /\ "SELL" \in Sides
  <2>1. book \in [Sides -> Seq(Orders)]
    BY DEF IInv, TypeOK
  <2>2. /\ Resting = Range(book[s]) \cup Range(book[opp])
        /\ \A x \in Sides : Range(book[x]) \subseteq Orders
    BY <2>1, <1>1, RestingSides
  <2>3. Resting' = Range(book'[s]) \cup Range(book'[opp])
    BY <1>1, SideFacts DEF Resting, Opposite, Sides
  <2> QED
    BY <2>1, <2>2, <2>3, <1>1, SideFacts DEF Sides
<1>4. /\ taker.id \in DOMAIN asked /\ b.id \in DOMAIN asked /\ taker.id # b.id
      /\ DOMAIN traded = DOMAIN asked /\ traded \in Seq(Nat) /\ asked \in Seq(Nat)
      /\ taker \in Live /\ b \in Live
  <2>1. taker \in Live /\ b \in Live /\ b \in Resting
    BY <1>1, <1>3 DEF Live
  <2>2. DOMAIN traded = DOMAIN asked /\ traded \in Seq(Nat) /\ asked \in Seq(Nat)
    BY LenProperties DEF IInv, TypeOK, OnePlace
  <2> QED
    BY <2>1, <2>2, <1>1 DEF IInv, OnePlace
<1>5. /\ traded' \in Seq(Nat) /\ Len(traded') = Len(traded)
      /\ traded'[taker.id] = traded[taker.id] + n
      /\ traded'[b.id] = traded[b.id] + n
      /\ \A i \in DOMAIN asked : i # taker.id /\ i # b.id => traded'[i] = traded[i]
  <2> DEFINE u == taker.id
             z == b.id
  <2>1. /\ traded \in Seq(Nat) /\ n \in Nat /\ u \in DOMAIN traded /\ z \in DOMAIN traded
        /\ DOMAIN traded = DOMAIN asked
        /\ traded' = Credit(traded, {u, z}, n)
    BY <1>1, <1>4
  <2> HIDE DEF n, u, z
  <2>2. /\ traded' \in Seq(Nat) /\ Len(traded') = Len(traded)
        /\ \A i \in DOMAIN traded : i \in {u, z} => traded'[i] = traded[i] + n
        /\ \A i \in DOMAIN traded : i \notin {u, z} => traded'[i] = traded[i]
    BY <2>1, TradeBoth
  <2>3. /\ traded'[u] = traded[u] + n /\ traded'[z] = traded[z] + n
        /\ \A i \in DOMAIN asked : i # u /\ i # z => traded'[i] = traded[i]
    BY <2>1, <2>2
  <2> QED
    BY <2>2, <2>3 DEF u, z
<1>6. /\ taker' \in Orders /\ taker'.id = taker.id /\ taker'.qty = taker.qty - n /\ taker' # NoOrder
      /\ Rest \subseteq Orders
      /\ \A x \in Rest : /\ x.id = b.id /\ x.side = b.side /\ x.price = b.price
                         /\ x.qty = b.qty - n /\ x.qty > 0
  <2>1. taker.qty - n \in Nat /\ (b.qty > n => b.qty - n \in Nat /\ b.qty - n > 0)
    BY <1>1
  <2> HIDE DEF n, b
  <2>2. taker' \in Orders /\ taker'.id = taker.id /\ taker'.qty = taker.qty - n
    BY <2>1, <1>1 DEF Orders
  <2>3. b.qty > n => c \in Orders /\ c.id = b.id /\ c.side = b.side /\ c.price = b.price
                     /\ c.qty = b.qty - n /\ c.qty > 0
    BY <2>1, <1>1 DEF Orders
  <2> QED
    BY <2>2, <2>3, NoOrderAssumption
<1> HIDE DEF n, b, opp, s, Rest
<1>7. TypeOK'
  <2>1. fillPrice' \in Nat
    BY <1>1 DEF Orders
  <2>2. fillQty' \in Nat
    BY <1>1 DEF IInv, TypeOK
  <2>3. waiting' \subseteq Orders /\ taker' \in Orders \cup {NoOrder} /\ clock' \in Nat
    BY <1>1, <1>6 DEF IInv, TypeOK
  <2>4. asked' \in Seq(Nat) /\ traded' \in Seq(Nat)
    BY <1>1, <1>4, <1>5
  <2> QED
    BY <2>1, <2>2, <2>3, <2>4, <1>1, <1>2 DEF IInv, TypeOK
<1>8. Queues'
  <2>1. Sorted(book'[s]) /\ Distinct(book'[s]) /\ \A o \in Range(book'[s]) : o.side = s /\ o.qty > 0
    BY <1>1, <1>2 DEF IInv, Queues
  <2>2. \A o \in Range(book'[opp]) : o.side = opp /\ o.qty > 0
    BY <1>1, <1>2, <1>6 DEF IInv, Queues
  <2> QED
    BY <2>1, <2>2, <1>2, <1>3 DEF Queues
<1>9. WaitingAsSent'
  BY <1>1 DEF IInv, WaitingAsSent
<1>10. \* every order of the new book is one of the old, perhaps smaller
       \A x \in Sides : \A o \in Range(book'[x]) :
          \E y \in Range(book[x]) : y.id = o.id /\ y.price = o.price
  <2>1. \A o \in Range(book'[opp]) : \E y \in Range(book[opp]) : y.id = o.id /\ y.price = o.price
    BY <1>1, <1>2, <1>6
  <2> QED
    BY <2>1, <1>2, <1>3
<1>11. BookUncrossed'
  BY <1>3, <1>10 DEF IInv, BookUncrossed
<1>12. \A o \in Resting' : \E y \in Resting : y.id = o.id
  BY <1>1, <1>3, <1>10
<1>13. waiting \subseteq Live /\ Resting \subseteq Live
       /\ Live' = waiting \cup Resting' \cup {taker'}
  BY <1>1, <1>6 DEF Live
<1>14. OnePlace'
  <2>1. \A o \in Live' : o.id \in DOMAIN asked
    BY <1>4, <1>6, <1>12, <1>13 DEF IInv, OnePlace
  <2>2. \A x \in waiting, y \in Resting' : x.id # y.id
    BY <1>12 DEF IInv, OnePlace
  <2>3. \A x \in Range(book'["BUY"]), y \in Range(book'["SELL"]) : x.id # y.id
    BY <1>3, <1>10 DEF IInv, OnePlace
  <2>4. \A x \in waiting \cup Resting' : x.id # taker'.id
    BY <1>1, <1>6, <1>12 DEF IInv, OnePlace
  <2>5. \A x, y \in waiting : x.id = y.id => x = y
    BY DEF IInv, OnePlace
  <2>6. Len(traded') = Len(asked')
    BY <1>1, <1>5 DEF IInv, OnePlace
  <2> QED
    BY <1>1, <2>1, <2>2, <2>3, <2>4, <2>5, <2>6 DEF OnePlace
<1>15. Conserved'
  <2>1. ASSUME NEW o \in Live' PROVE o.qty + traded'[o.id] = asked[o.id]
    <3>1. CASE o = taker'
      <4>1. taker.qty + traded[taker.id] = asked[taker.id] /\ traded[taker.id] \in Nat
        BY <1>4 DEF IInv, Conserved
      <4> QED
        BY <3>1, <4>1, <1>1, <1>5, <1>6
    <3>2. CASE o \in Rest
      <4>1. b.qty + traded[b.id] = asked[b.id] /\ traded[b.id] \in Nat
        BY <1>4 DEF IInv, Conserved
      <4>2. o.qty = b.qty - n /\ o.id = b.id
        BY <3>2, <1>6
      <4> QED
        BY <4>1, <4>2, <1>1, <1>5
    <3>3. CASE o \in waiting \cup Range(book[s]) \cup (Range(book[opp]) \ {b})
      <4>1. o \in Live /\ o \in waiting \cup Resting
        BY <3>3, <1>3, <1>13
      <4>2. o.id # taker.id /\ o.id \in DOMAIN asked
        BY <4>1, <1>1 DEF IInv, OnePlace
      <4>3. o.id # b.id
        <5>1. CASE o \in waiting
          BY <5>1, <1>1, <1>3 DEF IInv, OnePlace
        <5>2. CASE o \in Range(book[s])
          BY <5>2, <1>1, SideFacts DEF IInv, OnePlace, opp, Opposite
        <5>3. CASE o \in Range(book[opp]) \ {b}
          <6>1. PICK i \in DOMAIN book[opp], j \in DOMAIN book[opp] : o = book[opp][i] /\ b = book[opp][j]
            BY <5>3, <1>1 DEF Range
          <6> QED
            BY <6>1, <5>3, <1>1 DEF IInv, Queues, Distinct
        <5> QED
          BY <3>3, <5>1, <5>2, <5>3
      <4> QED
        BY <4>1, <4>2, <4>3, <1>5 DEF IInv, Conserved
    <3> QED
      BY <3>1, <3>2, <3>3, <1>2, <1>3, <1>13
  <2>2. ASSUME NEW i \in DOMAIN asked, \A o \in Live' : o.id # i PROVE traded'[i] = asked[i]
    <3>1. i # taker.id
      BY <2>2, <1>6, <1>13
    <3>2. CASE i = b.id
      <4>1. Rest = {}
        BY <2>2, <3>2, <1>2, <1>3, <1>6, <1>13
      <4>2. b.qty = n
        <5>1. ~(b.qty > n)
          <6> DEFINE d == c
          <6> HIDE DEF d
          <6>1. b.qty > n => d \in Rest
            BY DEF Rest, d
          <6> QED
            BY <6>1, <4>1
        <5> QED
          BY <5>1, <1>1
      <4>3. b.qty + traded[b.id] = asked[b.id] /\ traded[b.id] \in Nat
        BY <1>4 DEF IInv, Conserved
      <4> QED
        BY <3>2, <4>2, <4>3, <1>1, <1>5
    <3>3. CASE i # b.id
      <4>1. ASSUME NEW o \in Live PROVE o.id # i
        <5>1. o \in waiting \/ o = taker \/ o \in Range(book[s]) \/ o \in Range(book[opp])
          BY <1>3 DEF Live
        <5> QED
          BY <5>1, <2>2, <3>1, <3>3, <1>2, <1>3, <1>13
      <4> QED
        BY <4>1, <3>1, <3>3, <1>5 DEF IInv, Conserved
    <3> QED
      BY <3>2, <3>3
  <2> QED
    BY <1>1, <2>1, <2>2 DEF Conserved
<1> QED
  BY <1>7, <1>8, <1>9, <1>11, <1>14, <1>15 DEF IInv

\* When match gives up with a quantity left, nobody in the book would trade.
LEMMA NothingCrosses ==
  ASSUME IInv, taker # NoOrder, taker.qty > 0, ~CanFill
  PROVE  \A x \in Range(book[Opposite(taker.side)]) : ~Crosses(taker, x)
<1> DEFINE s == Opposite(taker.side)
           q == book[s]
<1>1. taker \in Orders /\ taker.side \in Sides
  BY DEF IInv, TypeOK, Orders
<1>2. s \in Sides /\ Opposite(s) = taker.side /\ q \in Seq(Orders)
  BY <1>1, SideFacts DEF IInv, TypeOK
<1>3. Sorted(q) /\ \A x \in Range(q) : x.side = s
  BY <1>2 DEF IInv, Queues
<1>4. CASE q = <<>>
  BY <1>4 DEF Range
<1>5. CASE q # <<>>
  <2>1. Head(q) = q[1] /\ ~Crosses(taker, Head(q))
    BY <1>2, <1>5 DEF CanFill
  <2> HIDE DEF q, s
  <2>2. ASSUME NEW x \in Range(q), Crosses(taker, x) PROVE FALSE
    BY <2>1, <2>2, <1>1, <1>2, <1>3, <1>5, HeadIsBest
  <2> QED
    BY <2>2 DEF q, s
<1> QED
  BY <1>4, <1>5

\* What the end of match leaves in the book.
LEMMA ReplyBook ==
  ASSUME IInv, Reply
  PROVE  LET s == taker.side
             Left == IF taker.qty > 0 THEN {taker} ELSE {}
         IN
         /\ taker # NoOrder /\ taker \in Orders /\ s \in Sides
         /\ book' \in [Sides -> Seq(Orders)]
         /\ book'[Opposite(s)] = book[Opposite(s)]
         /\ Sorted(book'[s]) /\ Distinct(book'[s])
         /\ Range(book'[s]) = Range(book[s]) \cup Left
<1> DEFINE s == taker.side
           q == book[s]
<1>1. /\ taker # NoOrder /\ taker \in Orders /\ s \in Sides /\ taker.qty \in Nat
      /\ book \in [Sides -> Seq(Orders)] /\ q \in Seq(Orders)
  BY DEF Reply, IInv, TypeOK, Orders
<1>2. Sorted(q) /\ Distinct(q) /\ Opposite(s) # s /\ Opposite(s) \in Sides
  BY <1>1, SideFacts DEF IInv, Queues
<1>3. CASE taker.qty > 0
  <2>1. PICK t \in sort(Append(q, taker)) : book' = [book EXCEPT ![s] = t]
    BY <1>3 DEF Reply
  <2>2. \A x \in Range(q) : x.id # taker.id
    BY <1>1, RestingSides DEF IInv, OnePlace
  <2> HIDE DEF q
  <2>3. /\ Append(q, taker) \in Seq(Orders) /\ Distinct(Append(q, taker))
        /\ Range(Append(q, taker)) = Range(q) \cup {taker}
    BY <2>2, <1>1, <1>2, AppendDistinct
  <2>4. t \in Seq(Orders) /\ Sorted(t) /\ Distinct(t) /\ Range(t) = Range(q) \cup {taker}
    BY <2>1, <2>3, SortPermutes
  <2>5. book'[s] = t /\ book'[Opposite(s)] = book[Opposite(s)] /\ book' \in [Sides -> Seq(Orders)]
    BY <2>1, <2>4, <1>1, <1>2
  <2> QED
    BY <2>4, <2>5, <1>1, <1>3 DEF q
<1>4. CASE ~(taker.qty > 0)
  <2>1. book' = book
    BY <1>4 DEF Reply
  <2> QED
    BY <2>1, <1>1, <1>2, <1>4
<1> QED
  BY <1>3, <1>4

\* The end of match keeps the invariant.
LEMMA ReplyInv ==
  ASSUME IInv, Reply
  PROVE  IInv'
<1> DEFINE s == taker.side
           opp == Opposite(s)
           Left == IF taker.qty > 0 THEN {taker} ELSE {}
<1>1. /\ taker # NoOrder /\ taker \in Orders /\ s \in Sides
      /\ book' \in [Sides -> Seq(Orders)] /\ book'[opp] = book[opp]
      /\ Sorted(book'[s]) /\ Distinct(book'[s])
      /\ Range(book'[s]) = Range(book[s]) \cup Left
  BY ReplyBook
<1>2. /\ taker' = NoOrder /\ waiting' = waiting /\ fillPrice' = fillPrice /\ fillQty' = fillQty
      /\ clock' = clock /\ asked' = asked /\ traded' = traded
      /\ responses' = responses \cup {[id |-> taker.id, asked |-> asked[taker.id],
                                       price |-> fillPrice, qty |-> fillQty,
                                       status |-> IF fillQty > 0 THEN "FILLED" ELSE "PENDING"]}
  BY DEF Reply
<1>3. /\ opp \in Sides /\ opp # s /\ \A x \in Sides : x = s \/ x = opp
      /\ "BUY" \in Sides /\ "SELL" \in Sides
      /\ Resting = Range(book[s]) \cup Range(book[opp])
      /\ Resting' = Range(book'[s]) \cup Range(book'[opp])
      /\ taker.qty \in Nat /\ taker \in Live
      /\ Range(book[opp]) \subseteq Orders
  <2>1. book \in [Sides -> Seq(Orders)]
    BY DEF IInv, TypeOK
  <2>2. /\ Resting = Range(book[s]) \cup Range(book[opp])
        /\ \A x \in Sides : Range(book[x]) \subseteq Orders
    BY <2>1, <1>1, RestingSides
  <2>3. Resting' = Range(book'[s]) \cup Range(book'[opp])
    BY <1>1, SideFacts DEF Resting, Opposite, Sides
  <2>4. taker.qty \in Nat
    BY <1>1 DEF Orders
  <2> QED
    BY <2>2, <2>3, <2>4, <1>1, SideFacts DEF Sides, Live
<1>4. TypeOK'
  <2>1. taker.id \in DOMAIN asked /\ asked \in Seq(Nat)
    BY <1>3 DEF IInv, OnePlace, TypeOK
  <2>2. asked[taker.id] \in Nat /\ taker.id \in Nat
    BY <2>1, LenProperties
  <2>3. [id |-> taker.id, asked |-> asked[taker.id], price |-> fillPrice, qty |-> fillQty,
         status |-> IF fillQty > 0 THEN "FILLED" ELSE "PENDING"]
          \in [id : Nat, asked : Nat, price : Nat, qty : Nat, status : {"FILLED", "PENDING"}]
    BY <2>2 DEF IInv, TypeOK
  <2>4. responses' \subseteq
          [id : Nat, asked : Nat, price : Nat, qty : Nat, status : {"FILLED", "PENDING"}]
    BY <2>3, <1>2 DEF IInv, TypeOK
  <2> QED
    BY <2>4, <1>1, <1>2 DEF IInv, TypeOK
<1>5. Queues'
  <2>1. \A o \in Range(book'[s]) : o.side = s /\ o.qty > 0
    BY <1>1 DEF IInv, Queues
  <2>2. /\ Sorted(book'[opp]) /\ Distinct(book'[opp])
        /\ \A o \in Range(book'[opp]) : o.side = opp /\ o.qty > 0
    BY <1>1, <1>3 DEF IInv, Queues
  <2> QED
    BY <2>1, <2>2, <1>1, <1>3 DEF Queues
<1>6. WaitingAsSent'
  BY <1>2 DEF IInv, WaitingAsSent
<1>7. BookUncrossed'
  <2>1. ASSUME NEW y \in Range(book[opp]), taker.qty > 0
        PROVE  IF s = "BUY" THEN taker.price < y.price ELSE y.price < taker.price
    <3>1. ~Crosses(taker, y)
      BY <2>1, <1>1, NothingCrosses DEF Reply
    <3>2. taker.price \in Nat /\ y.price \in Nat
      BY <1>1, <1>3 DEF Orders
    <3>3. s = "BUY" \/ s = "SELL"
      BY <1>1, SideFacts
    <3> QED
      BY <3>1, <3>2, <3>3 DEF Crosses
  <2>2. CASE s = "BUY"
    <3>1. opp = "SELL"
      BY <2>2 DEF Opposite
    <3>2. Range(book'["BUY"]) = Range(book["BUY"]) \cup Left /\ book'["SELL"] = book["SELL"]
      BY <1>1, <2>2, <3>1
    <3> QED
      BY <2>1, <2>2, <3>1, <3>2 DEF IInv, BookUncrossed
  <2>3. CASE s = "SELL"
    <3>1. opp = "BUY"
      BY <2>3 DEF Opposite
    <3>2. Range(book'["SELL"]) = Range(book["SELL"]) \cup Left /\ book'["BUY"] = book["BUY"]
      BY <1>1, <2>3, <3>1
    <3> QED
      BY <2>1, <2>3, <3>1, <3>2 DEF IInv, BookUncrossed
  <2> QED
    BY <2>2, <2>3, <1>1, SideFacts
<1>8. Resting' = Resting \cup Left /\ Live' = waiting \cup Resting'
  BY <1>1, <1>2, <1>3 DEF Live
<1>9. /\ \A x \in Left : x = taker
      /\ waiting \subseteq Live /\ Resting \subseteq Live
      /\ Live = waiting \cup Resting \cup {taker}
  BY <1>1 DEF Live
<1>10. OnePlace'
  <2>1. \A x \in Live' : x.id \in DOMAIN asked
    BY <1>8, <1>9 DEF IInv, OnePlace
  <2>2. \A x \in waiting, y \in Resting' : x.id # y.id
    BY <1>1, <1>8, <1>9 DEF IInv, OnePlace
  <2>3. \A x \in Range(book'["BUY"]), y \in Range(book'["SELL"]) : x.id # y.id
    <3>1. \A y \in Range(book[opp]) : taker.id # y.id
      BY <1>1, <1>3 DEF IInv, OnePlace
    <3>2. CASE s = "BUY"
      <4>1. opp = "SELL"
        BY <3>2 DEF Opposite
      <4> QED
        BY <3>1, <3>2, <4>1, <1>1, <1>9 DEF IInv, OnePlace
    <3>3. CASE s = "SELL"
      <4>1. opp = "BUY"
        BY <3>3 DEF Opposite
      <4> QED
        BY <3>1, <3>3, <4>1, <1>1, <1>9 DEF IInv, OnePlace
    <3> QED
      BY <3>2, <3>3, <1>1, SideFacts
  <2> QED
    BY <2>1, <2>2, <2>3, <1>2 DEF IInv, OnePlace
<1>11. Conserved'
  <2>1. \A x \in Live' : x.qty + traded[x.id] = asked[x.id]
    BY <1>8, <1>9 DEF IInv, Conserved
  <2>2. ASSUME NEW i \in DOMAIN asked, \A x \in Live' : x.id # i PROVE traded[i] = asked[i]
    <3>1. CASE taker.qty > 0
      <4>1. Live' = Live
        BY <3>1, <1>8, <1>9
      <4> QED
        BY <4>1, <2>2 DEF IInv, Conserved
    <3>2. CASE ~(taker.qty > 0)
      <4>1. taker.qty = 0 /\ taker.qty + traded[taker.id] = asked[taker.id]
        BY <3>2, <1>3 DEF IInv, Conserved
      <4>2. taker.id \in DOMAIN asked /\ DOMAIN traded = DOMAIN asked /\ traded \in Seq(Nat)
        BY <1>3, LenProperties DEF IInv, OnePlace, TypeOK
      <4>3. traded[taker.id] = asked[taker.id]
        BY <4>1, <4>2
      <4>4. CASE i = taker.id
        BY <4>3, <4>4
      <4>5. CASE i # taker.id
        BY <4>5, <2>2, <1>8, <1>9 DEF IInv, Conserved
      <4> QED
        BY <4>4, <4>5
    <3> QED
      BY <3>1, <3>2
  <2> QED
    BY <2>1, <2>2, <1>2 DEF Conserved
<1> QED
  BY <1>4, <1>5, <1>6, <1>7, <1>10, <1>11 DEF IInv

\* Nothing happens.
LEMMA StutterInv == ASSUME IInv, UNCHANGED vars PROVE IInv'
BY DEF vars, IInv, TypeOK, Queues, WaitingAsSent, OnePlace, BookUncrossed, Conserved, Live, Resting

\* Every step keeps the invariant.
LEMMA NextInv == ASSUME IInv, [Next]_vars PROVE IInv'
BY HandleOrderInv, LockInv, FillInv, ReplyInv, StutterInv DEF Next

-----------------------------------------------------------------------------
(* Theorems                                                                *)

\* The invariant holds in every reachable state of the engine.
THEOREM Invariance == Spec => []IInv
<1>1. Init => IInv
  BY InitInv
<1>2. IInv /\ [Next]_vars => IInv'
  BY NextInv
<1> QED
  BY <1>1, <1>2, PTL DEF Spec

\* Every variable keeps its type.
THEOREM TypeCorrect == Spec => []TypeOK
<1>1. IInv => TypeOK
  BY DEF IInv
<1> QED
  BY <1>1, Invariance, PTL

\* However orders interleave, match neither makes nor loses quantity.
THEOREM QuantityConserved == Spec => []Conserved
<1>1. IInv => Conserved
  BY DEF IInv
<1> QED
  BY <1>1, Invariance, PTL

\* No sequence of limit and market orders leaves the book crossed.
THEOREM NeverCrossed == Spec => []Uncrossed
<1>1. IInv => Uncrossed
  BY DEF IInv, BookUncrossed, Uncrossed, Range
<1> QED
  BY <1>1, Invariance, PTL

-----------------------------------------------------------------------------
(* The validator's verdicts.                                               *)

VOrders == [id : Nat, price : Nat, seq : Nat, filled : BOOLEAN]

\* A list is in the order of priority, strictly: no two orders have a number.
Ranked(side, q) == \A i, j \in DOMAIN q : i < j => V!Ahead(side, q[i], q[j])

ValidatorTypes ==
  v \in [BUY : Seq(VOrders), SELL : Seq(VOrders), seq : Nat, violations : Nat, total : Nat, correct : Nat]

\* The validator keeps both lists in the order of priority and numbers arrivals.
RankedLists ==
  \A side \in Sides : Ranked(side, v[side]) /\ \A i \in DOMAIN v[side] : v[side][i].seq <= v.seq

\* The inductive invariant of the validator.
CallsInv == ValidatorTypes /\ RankedLists

\* A set of natural numbers that is not empty has a least one.
LEMMA LeastNatural ==
  ASSUME NEW S, S \subseteq Nat, S # {}
  PROVE  \E x \in S : \A y \in S : x <= y
<1> DEFINE R == OpToRel(<, Nat)
<1>1. \A x, y \in Nat : y < x => <<y, x>> \in R
  BY DEF OpToRel
<1>2. PICK x \in S : \A y \in S : ~(<<y, x>> \in R)
  BY NatLessThanWellFounded, WFMin
<1> HIDE DEF R
<1>3. \A y \in S : ~(y < x)
  BY <1>1, <1>2
<1> QED BY <1>3

\* Min and Max choose the ends of a set of places.
LEMMA MinIsLeast ==
  ASSUME NEW S, S \subseteq Nat, S # {}
  PROVE  V!Min(S) \in S /\ \A y \in S : V!Min(S) <= y
BY LeastNatural DEF V!Min

\* The greatest place, likewise.
LEMMA MaxIsGreatest ==
  ASSUME NEW n \in Nat, NEW S, S \subseteq 0 .. n, S # {}
  PROVE  V!Max(S) \in S /\ \A y \in S : V!Max(S) >= y
<1> DEFINE T == {n - x : x \in S}
<1>1. T \subseteq Nat /\ T # {}
  <2>1. \A x \in S : n - x \in Nat
    OBVIOUS
  <2> QED BY <2>1
<1>2. PICK t \in T : \A y \in T : t <= y
  BY <1>1, LeastNatural
<1>3. PICK x \in S : t = n - x
  OBVIOUS
<1>4. \A y \in S : n - x <= n - y
  BY <1>2, <1>3
<1>5. \A y \in S : x >= y
  BY <1>4
<1> QED BY <1>5 DEF V!Max

\* Priority is a strict order of the orders of a side, total on distinct numbers.
LEMMA AheadOrders ==
  ASSUME NEW side \in Sides
  PROVE  /\ \A x, y \in VOrders : V!Ahead(side, x, y) => ~V!Ahead(side, y, x)
         /\ \A x, y, z \in VOrders : V!Ahead(side, x, y) /\ V!Ahead(side, y, z) => V!Ahead(side, x, z)
         /\ \A x, y \in VOrders : x.seq # y.seq => V!Ahead(side, x, y) \/ V!Ahead(side, y, x)
<1>1. \A x \in VOrders : x.price \in Nat /\ x.seq \in Nat
  BY DEF VOrders
<1> QED BY <1>1 DEF V!Ahead, Sides

\* A part of a sequence, which may be empty.
LEMMA PartOfSeq ==
  ASSUME NEW S, NEW q \in Seq(S), NEW m \in Nat, NEW n \in Nat, 1 <= m, n <= Len(q), m <= n + 1
  PROVE  /\ SubSeq(q, m, n) \in Seq(S) /\ Len(SubSeq(q, m, n)) = n + 1 - m
         /\ \A i \in 1 .. Len(SubSeq(q, m, n)) : SubSeq(q, m, n)[i] = q[m + i - 1]
<1>1. Len(q) \in Nat /\ \A i \in 1 .. Len(q) : q[i] \in S
  OBVIOUS
<1>2. m \in Int /\ n \in Int
  OBVIOUS
<1>3. \A i \in m .. n : q[i] \in S
  <2>1. SUFFICES ASSUME NEW i \in m .. n PROVE i \in 1 .. Len(q)
    BY <1>1
  <2> QED BY <1>1
<1>4. /\ SubSeq(q, m, n) \in Seq(S)
      /\ Len(SubSeq(q, m, n)) = IF m <= n THEN n - m + 1 ELSE 0
      /\ \A i \in 1 .. n - m + 1 : SubSeq(q, m, n)[i] = q[m + i - 1]
  BY <1>2, <1>3, SubSeqProperties
<1>5. (IF m <= n THEN n - m + 1 ELSE 0) = n + 1 - m /\ n - m + 1 = n + 1 - m
  OBVIOUS
<1> QED BY <1>4, <1>5

\* Two sequences one after the other.
LEMMA ConcatParts ==
  ASSUME NEW S, NEW c \in Seq(S), NEW b \in Seq(S)
  PROVE  /\ c \o b \in Seq(S) /\ Len(c \o b) = Len(c) + Len(b)
         /\ \A i \in 1 .. Len(c) : (c \o b)[i] = c[i]
         /\ \A i \in 1 .. Len(b) : (c \o b)[Len(c) + i] = b[i]
OBVIOUS

\* insertBid and insertAsk put the newest order behind all that go before it.
LEMMA InsertKeepsRank ==
  ASSUME NEW side \in Sides, NEW q \in Seq(VOrders), Ranked(side, q),
         NEW o \in VOrders, \A i \in DOMAIN q : q[i].seq < o.seq
  PROVE  \E k \in 0 .. Len(q) :
           LET t == V!insert(side, q, o)
           IN  /\ t \in Seq(VOrders) /\ Len(t) = Len(q) + 1 /\ Ranked(side, t)
               /\ t[k + 1] = o
               /\ \A i \in 1 .. k : t[i] = q[i]
               /\ \A i \in k + 1 .. Len(q) : t[i + 1] = q[i]
<1> DEFINE S == {0} \cup {i \in DOMAIN q : ~V!Ahead(side, o, q[i])}
           k == V!Max(S)
           t == V!insert(side, q, o)
<1>1. Len(q) \in Nat /\ DOMAIN q = 1 .. Len(q) /\ \A i \in DOMAIN q : q[i] \in VOrders
  OBVIOUS
<1>2. S \subseteq 0 .. Len(q) /\ S # {}
  BY <1>1
<1>3. k \in S /\ \A i \in S : k >= i
  BY <1>1, <1>2, MaxIsGreatest
<1>4. k \in 0 .. Len(q)
  BY <1>2, <1>3
<1>5. t = SubSeq(q, 1, k) \o <<o>> \o SubSeq(q, k + 1, Len(q))
  BY DEF V!insert
<1>6. \A i \in DOMAIN q : i > k => V!Ahead(side, o, q[i])
  BY <1>1, <1>3, <1>4
<1>7. \A i \in DOMAIN q : i <= k => V!Ahead(side, q[i], o)
  <2> SUFFICES ASSUME NEW i \in DOMAIN q, i <= k PROVE V!Ahead(side, q[i], o)
    OBVIOUS
  <2>1. k \in DOMAIN q /\ ~V!Ahead(side, o, q[k])
    BY <1>1, <1>3, <1>4
  <2>2. q[k].seq # o.seq
    <3>1. q[k].seq \in Nat /\ o.seq \in Nat /\ q[k].seq < o.seq
      BY <1>1, <2>1 DEF VOrders
    <3> QED BY <3>1
  <2>3. V!Ahead(side, q[k], o)
    BY <1>1, <2>1, <2>2, AheadOrders
  <2>4. CASE i = k
    BY <2>3, <2>4
  <2>5. CASE i < k
    <3>1. V!Ahead(side, q[i], q[k])
      BY <2>1, <2>5 DEF Ranked
    <3> QED BY <1>1, <2>1, <2>3, <3>1, AheadOrders
  <2> QED BY <1>1, <1>4, <2>4, <2>5
<1> HIDE DEF S, k, t
<1>8. /\ t \in Seq(VOrders) /\ Len(t) = Len(q) + 1
      /\ t[k + 1] = o
      /\ \A i \in 1 .. k : t[i] = q[i]
      /\ \A i \in k + 1 .. Len(q) : t[i + 1] = q[i]
  <2> DEFINE a == SubSeq(q, 1, k)
             b == SubSeq(q, k + 1, Len(q))
  <2>1. /\ a \in Seq(VOrders) /\ Len(a) = k /\ \A i \in 1 .. k : a[i] = q[i]
        /\ b \in Seq(VOrders) /\ Len(b) = Len(q) - k /\ \A i \in 1 .. Len(q) - k : b[i] = q[k + i]
    <3>1. k \in Nat /\ k + 1 \in Nat /\ 1 <= k + 1 /\ k <= Len(q) /\ 0 <= k /\ Len(q) \in Nat /\ Len(q) <= Len(q) /\ k + 1 <= Len(q) + 1
      BY <1>1, <1>4
    <3>2. a \in Seq(VOrders) /\ Len(a) = k /\ \A i \in 1 .. k : a[i] = q[i]
      BY <1>1, <3>1
    <3>3. b \in Seq(VOrders) /\ Len(b) = Len(q) + 1 - (k + 1) /\ \A i \in 1 .. Len(b) : b[i] = q[(k + 1) + i - 1]
      BY <3>1, PartOfSeq
    <3>4. Len(b) = Len(q) - k /\ \A i \in 1 .. Len(b) : (k + 1) + i - 1 = k + i
      BY <3>1, <3>3
    <3> QED BY <3>2, <3>3, <3>4
  <2>2. t = a \o <<o>> \o b
    BY <1>5
  <2> HIDE DEF a, b
  <2>3. a \o <<o>> \in Seq(VOrders) /\ Len(a \o <<o>>) = k + 1 /\ (a \o <<o>>)[k + 1] = o
        /\ \A i \in 1 .. k : (a \o <<o>>)[i] = q[i]
    BY <1>4, <2>1
  <2>4. /\ t \in Seq(VOrders) /\ Len(t) = Len(q) + 1
        /\ \A i \in 1 .. k + 1 : t[i] = (a \o <<o>>)[i]
        /\ \A i \in 1 .. Len(q) - k : t[k + 1 + i] = b[i]
    <3> DEFINE c == a \o <<o>>
    <3>1. c \in Seq(VOrders) /\ Len(c) = k + 1 /\ k \in Nat /\ t = c \o b
      BY <1>4, <2>2, <2>3
    <3> HIDE DEF c
    <3>2. /\ t \in Seq(VOrders) /\ Len(t) = Len(c) + Len(b)
          /\ \A i \in 1 .. Len(c) : t[i] = c[i]
          /\ \A i \in 1 .. Len(b) : t[Len(c) + i] = b[i]
      <4>1. b \in Seq(VOrders) /\ c \in Seq(VOrders)
        BY <2>1, <3>1
      <4>2. /\ c \o b \in Seq(VOrders) /\ Len(c \o b) = Len(c) + Len(b)
            /\ \A i \in 1 .. Len(c) : (c \o b)[i] = c[i]
            /\ \A i \in 1 .. Len(b) : (c \o b)[Len(c) + i] = b[i]
        BY ONLY <4>1, ConcatParts
      <4>3. t = c \o b
        BY <3>1
      <4> QED BY <4>2, <4>3
    <3>3. Len(c) + Len(b) = Len(q) + 1
      BY <1>1, <2>1, <3>1
    <3> QED BY <2>1, <3>1, <3>2, <3>3 DEF c
  <2>5. ASSUME NEW i \in k + 1 .. Len(q) PROVE t[i + 1] = q[i]
    <3>1. i - k \in 1 .. Len(q) - k /\ k + 1 + (i - k) = i + 1 /\ k + (i - k) = i
      <4>1. k \in Nat /\ i \in Nat /\ i >= k + 1 /\ i <= Len(q)
        BY <1>1, <1>4
      <4>2. k + 1 + (i - k) = i + 1 /\ k + (i - k) = i
        BY ONLY <4>1
      <4>3. Len(q) \in Nat
        BY <1>1
      <4>4. i - k \in 1 .. Len(q) - k
        BY ONLY <4>1, <4>3
      <4> QED BY <4>2, <4>4
    <3>2. t[k + 1 + (i - k)] = b[i - k] /\ b[i - k] = q[k + (i - k)]
      BY <2>1, <2>4, <3>1
    <3> QED BY <3>1, <3>2
  <2> QED BY <1>4, <2>3, <2>4, <2>5
<1>9. Ranked(side, t)
  <2> SUFFICES ASSUME NEW i \in DOMAIN t, NEW j \in DOMAIN t, i < j PROVE V!Ahead(side, t[i], t[j])
    BY DEF Ranked
  <2>1. i \in Nat /\ j \in Nat /\ 1 <= i /\ j <= Len(q) + 1
    BY <1>8
  <2>2. CASE j <= k
    <3>1. i \in DOMAIN q /\ j \in DOMAIN q /\ t[i] = q[i] /\ t[j] = q[j]
      BY <1>1, <1>4, <1>8, <2>1, <2>2
    <3> QED BY <3>1 DEF Ranked
  <2>3. CASE j = k + 1
    <3>1. i \in DOMAIN q /\ t[i] = q[i] /\ t[j] = o /\ i <= k
      BY <1>1, <1>4, <1>8, <2>1, <2>3
    <3> QED BY <1>7, <3>1
  <2>4. CASE j > k + 1
    <3>1. j - 1 \in DOMAIN q /\ j - 1 > k /\ t[j] = q[j - 1]
      <4>1. j - 1 \in k + 1 .. Len(q) /\ j - 1 + 1 = j
        BY <1>1, <1>4, <2>1, <2>4
      <4> QED BY <1>1, <1>4, <1>8, <4>1
    <3>2. CASE i <= k
      <4>1. i \in DOMAIN q /\ t[i] = q[i] /\ i < j - 1
        BY <1>1, <1>4, <1>8, <2>1, <3>1, <3>2
      <4> QED BY <3>1, <4>1 DEF Ranked
    <3>3. CASE i = k + 1
      BY <1>6, <1>8, <3>1, <3>3
    <3>4. CASE i > k + 1
      <4>1. i - 1 \in k + 1 .. Len(q) /\ i - 1 + 1 = i /\ i - 1 < j - 1
        BY <1>1, <1>4, <2>1, <3>4
      <4>2. i - 1 \in DOMAIN q /\ t[i] = q[i - 1]
        BY <1>1, <1>4, <1>8, <4>1
      <4> QED BY <3>1, <4>1, <4>2 DEF Ranked
    <3> QED BY <1>4, <2>1, <3>2, <3>3, <3>4
  <2> QED BY <1>4, <2>1, <2>2, <2>3, <2>4
<1> QED BY <1>4, <1>8, <1>9 DEF t

\* The lists of a validator, and its counters.
LEMMA ValidatorParts ==
  ASSUME ValidatorTypes
  PROVE  /\ \A side \in Sides : v[side] \in Seq(VOrders)
         /\ v.seq \in Nat /\ v.violations \in Nat /\ v.total \in Nat /\ v.correct \in Nat
         /\ v["BUY"] = v.BUY /\ v["SELL"] = v.SELL
BY DEF ValidatorTypes, Sides

\* A new order is numbered and put in its place; the rest stays as it was.
LEMMA RecordOrderStep ==
  ASSUME ValidatorTypes, RankedLists, NEW side \in Sides, NEW id \in Nat, NEW price \in Nat,
         v' = V!RecordOrder(v, id, price, side)
  PROVE  /\ ValidatorTypes' /\ RankedLists' /\ v'.total = v.total /\ v'.violations = v.violations
         /\ \A s \in Sides \ {side} : v'[s] = v[s]
         /\ \E k \in 0 .. Len(v[side]) :
              /\ Len(v'[side]) = Len(v[side]) + 1
              /\ v'[side][k + 1].id = id /\ v'[side][k + 1].price = price
              /\ \A i \in 1 .. k : v'[side][i] = v[side][i]
              /\ \A i \in k + 1 .. Len(v[side]) : v'[side][i + 1] = v[side][i]
<1> DEFINE o == [id |-> id, price |-> price, seq |-> v.seq + 1, filled |-> FALSE]
           t == V!insert(side, v[side], o)
<1>1. v[side] \in Seq(VOrders) /\ v.seq \in Nat /\ Len(v[side]) \in Nat
  BY ValidatorParts
<1>2. o \in VOrders /\ o.id = id /\ o.price = price /\ o.seq = v.seq + 1
  BY <1>1 DEF VOrders
<1>3. \A i \in DOMAIN v[side] : v[side][i] \in VOrders /\ v[side][i].seq \in Nat /\ v[side][i].seq < o.seq
  <2> SUFFICES ASSUME NEW i \in DOMAIN v[side]
               PROVE  v[side][i] \in VOrders /\ v[side][i].seq \in Nat /\ v[side][i].seq < o.seq
    OBVIOUS
  <2>1. v[side][i] \in VOrders
    BY <1>1
  <2>2. v[side][i].seq \in Nat /\ v[side][i].seq <= v.seq
    BY <2>1 DEF VOrders, RankedLists
  <2> QED BY <1>1, <1>2, <2>1, <2>2
<1>4. v' = [v EXCEPT !.seq = @ + 1, ![side] = t]
  BY DEF V!RecordOrder
<1> HIDE DEF o
<1>5. Ranked(side, v[side])
  BY DEF RankedLists
<1>6. PICK k \in 0 .. Len(v[side]) :
        /\ t \in Seq(VOrders) /\ Len(t) = Len(v[side]) + 1 /\ Ranked(side, t)
        /\ t[k + 1] = o
        /\ \A i \in 1 .. k : t[i] = v[side][i]
        /\ \A i \in k + 1 .. Len(v[side]) : t[i + 1] = v[side][i]
  BY <1>1, <1>2, <1>3, <1>5, InsertKeepsRank, ZenonT(60)
<1> HIDE DEF t
<1>7. /\ ValidatorTypes' /\ v'[side] = t /\ v'.seq = v.seq + 1
      /\ v'.total = v.total /\ v'.violations = v.violations
      /\ \A s \in Sides \ {side} : v'[s] = v[s]
  <2>1. CASE side = "BUY"
    <3>1. v' = [v EXCEPT !.seq = v.seq + 1, !.BUY = t]
      BY <1>4, <2>1
    <3>2. t \in Seq(VOrders) /\ v.seq + 1 \in Nat
      BY <1>1, <1>6
    <3>3. ValidatorTypes'
      BY <3>1, <3>2 DEF ValidatorTypes
    <3>4. /\ v'.BUY = t /\ v'.seq = v.seq + 1 /\ v'.SELL = v.SELL
          /\ v'.total = v.total /\ v'.violations = v.violations
      BY <3>1 DEF ValidatorTypes
    <3>5. v'["BUY"] = t /\ v'["SELL"] = v["SELL"]
      BY <3>4
    <3> QED BY <2>1, <3>3, <3>4, <3>5 DEF Sides
  <2>2. CASE side = "SELL"
    <3>1. v' = [v EXCEPT !.seq = v.seq + 1, !.SELL = t]
      BY <1>4, <2>2
    <3>2. t \in Seq(VOrders) /\ v.seq + 1 \in Nat
      BY <1>1, <1>6
    <3>3. ValidatorTypes'
      BY <3>1, <3>2 DEF ValidatorTypes
    <3>4. /\ v'.SELL = t /\ v'.seq = v.seq + 1 /\ v'.BUY = v.BUY
          /\ v'.total = v.total /\ v'.violations = v.violations
      BY <3>1 DEF ValidatorTypes
    <3>5. v'["SELL"] = t /\ v'["BUY"] = v["BUY"]
      BY <3>4
    <3> QED BY <2>2, <3>3, <3>4, <3>5 DEF Sides
  <2> QED BY <2>1, <2>2 DEF Sides
<1>8. RankedLists'
  <2> SUFFICES ASSUME NEW s \in Sides PROVE Ranked(s, v'[s]) /\ \A i \in DOMAIN v'[s] : v'[s][i].seq <= v'.seq
    BY DEF RankedLists
  <2>1. CASE s # side
    <3>1. v'[s] = v[s] /\ v[s] \in Seq(VOrders)
      BY <1>7, <2>1, ValidatorParts
    <3>2. \A i \in DOMAIN v[s] : v[s][i] \in VOrders
      BY <3>1
    <3>3. \A i \in DOMAIN v[s] : v[s][i].seq \in Nat
      BY <3>2 DEF VOrders
    <3> QED BY <1>1, <1>7, <3>1, <3>3 DEF RankedLists
  <2>2. CASE s = side
    <3>1. ASSUME NEW i \in DOMAIN t PROVE t[i].seq <= v.seq + 1
      <4>1. i \in 1 .. Len(v[side]) + 1 /\ k \in Nat /\ k <= Len(v[side])
        BY <1>1, <1>6
      <4>2. CASE i <= k
        <5>1. i \in DOMAIN v[side] /\ t[i] = v[side][i]
          BY <1>1, <1>6, <4>1, <4>2
        <5> QED BY <1>1, <1>2, <1>3, <5>1
      <4>3. CASE i = k + 1
        BY <1>1, <1>2, <1>6, <4>3
      <4>4. CASE i > k + 1
        <5>1. i - 1 \in k + 1 .. Len(v[side]) /\ i - 1 + 1 = i /\ i - 1 \in DOMAIN v[side]
          BY <1>1, <4>1, <4>4
        <5>2. t[i] = v[side][i - 1]
          BY <1>6, <5>1
        <5>3. v[side][i - 1].seq \in Nat /\ v[side][i - 1].seq < o.seq
          BY <1>3, <5>1
        <5>4. v.seq \in Nat /\ o.seq = v.seq + 1
          BY <1>1, <1>2
        <5> QED BY <5>2, <5>3, <5>4
      <4> QED BY <4>1, <4>2, <4>3, <4>4
    <3> QED BY <1>6, <1>7, <2>2, <3>1
  <2> QED BY <2>1, <2>2
<1> QED BY <1>2, <1>6, <1>7, <1>8

\* findOrder finds an order with the id, if there is one.
LEMMA FindsOrder ==
  ASSUME ValidatorTypes, NEW id, V!Known(v, id)
  PROVE  LET p == V!findOrder(v, id)
         IN  p.side \in Sides /\ p.at \in DOMAIN v[p.side] /\ v[p.side][p.at].id = id
<1> DEFINE side == IF V!Places(v, "BUY", id) # {} THEN "BUY" ELSE "SELL"
           P == V!Places(v, side, id)
<1>1. side \in Sides /\ P # {}
  BY DEF V!Known, Sides
<1>2. P \subseteq Nat /\ P = {i \in DOMAIN v[side] : v[side][i].id = id}
  BY <1>1, ValidatorParts DEF V!Places
<1>3. V!findOrder(v, id) = [side |-> side, at |-> V!Min(P)]
  BY DEF V!findOrder
<1> HIDE DEF side, P
<1>4. V!Min(P) \in P
  BY <1>1, <1>2, MinIsLeast
<1> QED BY <1>1, <1>2, <1>3, <1>4

\* In a ranked list, the loop over the orders in front of one meets all that
\* go before it.
LEMMA LoopFindsAll ==
  ASSUME ValidatorTypes, RankedLists, NEW side \in Sides, NEW at \in DOMAIN v[side], NEW x \in DOMAIN v[side]
  PROVE  V!Ahead(side, v[side][x], v[side][at]) <=> x \in 1 .. at - 1
<1>1. v[side] \in Seq(VOrders) /\ v[side][x] \in VOrders /\ v[side][at] \in VOrders /\ x \in Nat /\ x > 0 /\ at \in Nat
  BY ValidatorParts
<1>2. Ranked(side, v[side])
  BY DEF RankedLists
<1>3. CASE x < at
  BY <1>1, <1>2, <1>3 DEF Ranked
<1>4. CASE x = at
  BY <1>1, <1>4, AheadOrders
<1>5. CASE x > at
  <2>1. V!Ahead(side, v[side][at], v[side][x])
    BY <1>1, <1>2, <1>5 DEF Ranked
  <2> QED BY <1>1, <1>5, <2>1, AheadOrders
<1> QED BY <1>1, <1>3, <1>4, <1>5

\* RecordFill counts a fill once, marks its order, and faults it if it is
\* unknown or has an open order before it.
LEMMA RecordFillStep ==
  ASSUME ValidatorTypes, RankedLists, v' = V!RecordFill(v, last')
  PROVE  /\ ValidatorTypes' /\ RankedLists'
         /\ v'.violations > v.violations <=> ~V!Known(v, last') \/ Overtaken # {}
         /\ \A s \in Sides : /\ DOMAIN v'[s] = DOMAIN v[s]
                             /\ \A i \in DOMAIN v[s] : v'[s][i].id = v[s][i].id /\ v'[s][i].price = v[s][i].price
                             /\ \A i \in DOMAIN v[s] : v[s][i].filled => v'[s][i].filled
         /\ V!Known(v, last') => LET p == V!findOrder(v, last') IN v'[p.side][p.at].filled
<1> DEFINE p == V!findOrder(v, last')
           ok == V!Known(v, last') /\ ~V!Overtaken(v, p)
           n == IF ok THEN v.correct + 1 ELSE v.correct
           m == IF ok THEN v.violations ELSE v.violations + 1
           w == [v EXCEPT !.total = v.total + 1, !.correct = n, !.violations = m]
<1>1. v.total \in Nat /\ n \in Nat /\ m \in Nat /\ v.violations \in Nat /\ v.seq \in Nat
  BY ValidatorParts
<1>2. m > v.violations <=> ~ok
  BY <1>1
<1>3. v' = IF V!Known(v, last') THEN [w EXCEPT ![p.side][p.at].filled = TRUE] ELSE w
  BY DEF V!RecordFill
<1>4. ok <=> V!Known(v, last') /\ Overtaken = {}
  <2> SUFFICES ASSUME V!Known(v, last') PROVE V!Overtaken(v, p) <=> Overtaken # {}
    OBVIOUS
  <2> DEFINE q == v[p.side]
  <2>1. p.side \in Sides /\ p.at \in DOMAIN q
    BY FindsOrder
  <2> HIDE DEF p
  <2>2. \A x \in DOMAIN q : V!Ahead(p.side, q[x], q[p.at]) <=> x \in 1 .. p.at - 1
    BY <2>1, LoopFindsAll
  <2>3. \A j \in 1 .. p.at - 1 : j \in DOMAIN q
    BY <2>1, ValidatorParts
  <2>4. V!Overtaken(v, p) <=> \E j \in 1 .. p.at - 1 : ~q[j].filled /\ V!Ahead(p.side, q[j], q[p.at])
    BY DEF V!Overtaken
  <2>5. Overtaken = {x \in Range(q) : ~x.filled /\ V!Ahead(p.side, x, q[p.at])}
    BY DEF Overtaken, p
  <2>6. Overtaken # {} <=> \E j \in DOMAIN q : ~q[j].filled /\ V!Ahead(p.side, q[j], q[p.at])
    BY <2>5 DEF Range
  <2> QED BY <2>2, <2>3, <2>4, <2>6
<1> HIDE DEF ok, n, m
<1>5. w \in [BUY : Seq(VOrders), SELL : Seq(VOrders), seq : Nat, violations : Nat, total : Nat, correct : Nat]
  <2>1. v.total + 1 \in Nat
    BY <1>1
  <2> QED BY <1>1, <2>1 DEF ValidatorTypes
<1>6. w.BUY = v.BUY /\ w.SELL = v.SELL /\ w.seq = v.seq /\ w.violations = m
  BY DEF ValidatorTypes
<1>7. CASE ~V!Known(v, last')
  <2>1. v' = w
    BY <1>3, <1>7
  <2>2. ValidatorTypes'
    BY <1>5, <2>1 DEF ValidatorTypes
  <2>3. v'.seq = v.seq /\ v'.violations = m /\ \A s \in Sides : v'[s] = v[s]
    BY <1>6, <2>1 DEF Sides
  <2>4. RankedLists'
    BY <2>3 DEF RankedLists
  <2>5. \A s \in Sides : \A i \in DOMAIN v[s] : v[s][i].filled => v'[s][i].filled
    BY <2>3
  <2> QED BY <1>2, <1>4, <1>7, <2>2, <2>3, <2>4, <2>5
<1>8. CASE V!Known(v, last')
  <2>1. p.side \in Sides /\ p.at \in DOMAIN v[p.side]
    BY <1>8, FindsOrder
  <2> DEFINE o == [v[p.side][p.at] EXCEPT !.filled = TRUE]
             t == [v[p.side] EXCEPT ![p.at] = o]
  <2>2. /\ v[p.side] \in Seq(VOrders) /\ v[p.side][p.at] \in VOrders
    BY <2>1, ValidatorParts
  <2>3. o \in VOrders /\ o.id = v[p.side][p.at].id /\ o.price = v[p.side][p.at].price /\ o.seq = v[p.side][p.at].seq
    BY <2>2 DEF VOrders
  <2>17. o.filled
    BY <2>2 DEF VOrders
  <2>4. w[p.side] = v[p.side]
    BY <1>6, <2>1 DEF Sides
  <2>5. v' = [w EXCEPT ![p.side] = t]
    BY <1>3, <1>8, <2>4
  <2> HIDE DEF o, w, p
  <2>6. t \in Seq(VOrders) /\ DOMAIN t = DOMAIN v[p.side] /\ t[p.at] = o /\ \A i \in DOMAIN t : i # p.at => t[i] = v[p.side][i]
    BY <2>1, <2>2, <2>3
  <2>7. \A i \in DOMAIN t : t[i].id = v[p.side][i].id /\ t[i].price = v[p.side][i].price /\ t[i].seq = v[p.side][i].seq
    BY <2>3, <2>6
  <2>16. t[p.at].filled /\ \A i \in DOMAIN t : v[p.side][i].filled => t[i].filled
    BY <2>17, <2>6
  <2> HIDE DEF t
  <2>8. ValidatorTypes' /\ v'.seq = w.seq /\ v'.violations = w.violations /\ v'[p.side] = t
        /\ \A s \in Sides \ {p.side} : v'[s] = w[s]
    <3>1. CASE p.side = "BUY"
      <4>1. v' = [w EXCEPT !.BUY = t]
        BY <2>5, <3>1
      <4>2. ValidatorTypes'
        BY <1>5, <2>6, <4>1 DEF ValidatorTypes
      <4>3. v'.BUY = t /\ v'.SELL = w.SELL /\ v'.seq = w.seq /\ v'.violations = w.violations
        BY <1>5, <4>1
      <4> QED BY <3>1, <4>2, <4>3 DEF Sides
    <3>2. CASE p.side = "SELL"
      <4>1. v' = [w EXCEPT !.SELL = t]
        BY <2>5, <3>2
      <4>2. ValidatorTypes'
        BY <1>5, <2>6, <4>1 DEF ValidatorTypes
      <4>3. v'.SELL = t /\ v'.BUY = w.BUY /\ v'.seq = w.seq /\ v'.violations = w.violations
        BY <1>5, <4>1
      <4> QED BY <3>2, <4>2, <4>3 DEF Sides
    <3> QED BY <2>1, <3>1, <3>2 DEF Sides
  <2>9. \A s \in Sides : w[s] = v[s]
    BY <1>6 DEF Sides
  <2>10. \A s \in Sides : /\ DOMAIN v'[s] = DOMAIN v[s]
                          /\ \A i \in DOMAIN v[s] : v'[s][i].id = v[s][i].id /\ v'[s][i].price = v[s][i].price
                                                    /\ v'[s][i].seq = v[s][i].seq
    <3> SUFFICES ASSUME NEW s \in Sides
                 PROVE  /\ DOMAIN v'[s] = DOMAIN v[s]
                        /\ \A i \in DOMAIN v[s] : v'[s][i].id = v[s][i].id /\ v'[s][i].price = v[s][i].price
                                                  /\ v'[s][i].seq = v[s][i].seq
      OBVIOUS
    <3>1. CASE s = p.side
      BY <2>6, <2>7, <2>8, <3>1
    <3>2. CASE s # p.side
      BY <2>8, <2>9, <3>2
    <3> QED BY <3>1, <3>2
  <2>11. RankedLists'
    BY <1>6, <2>8, <2>10 DEF RankedLists, Ranked, V!Ahead
  <2>12. v'.violations = m
    BY <1>6, <2>8
  <2>13. \A s \in Sides : \A i \in DOMAIN v[s] : v[s][i].filled => v'[s][i].filled
    <3> SUFFICES ASSUME NEW s \in Sides, NEW i \in DOMAIN v[s], v[s][i].filled PROVE v'[s][i].filled
      OBVIOUS
    <3>1. CASE s = p.side
      BY <2>6, <2>16, <2>8, <3>1
    <3>2. CASE s # p.side
      BY <2>8, <2>9, <3>2
    <3> QED BY <3>1, <3>2
  <2>14. v'[p.side][p.at].filled
    BY <2>16, <2>8
  <2>15. V!Known(v, last') => LET f == V!findOrder(v, last') IN v'[f.side][f.at].filled
    BY <2>14 DEF p
  <2> QED BY <1>2, <1>4, <1>8, <2>8, <2>10, <2>11, <2>12, <2>13, <2>15
<1> QED BY <1>7, <1>8

\* At first the lists are empty.
LEMMA CallsInitInv == CallsInit => CallsInv
<1> SUFFICES ASSUME CallsInit PROVE CallsInv
  OBVIOUS
<1>1. v = [BUY |-> <<>>, SELL |-> <<>>, seq |-> 0, violations |-> 0, total |-> 0, correct |-> 0]
  BY DEF CallsInit, V!NewValidator
<1>2. <<>> \in Seq(VOrders)
  OBVIOUS
<1>3. ValidatorTypes
  BY <1>1, <1>2 DEF ValidatorTypes
<1>4. \A s \in Sides : v[s] = <<>>
  BY <1>1 DEF Sides
<1>5. RankedLists
  BY <1>4 DEF RankedLists, Ranked
<1> QED BY <1>3, <1>5 DEF CallsInv

\* Neither method breaks it; RecordOrder counts no fill.
LEMMA CallsStep ==
  ASSUME CallsInv, [CallsNext]_callVars
  PROVE  /\ CallsInv'
         /\ \/ v' = V!RecordFill(v, last')
            \/ v'.total = v.total
<1>1. ValidatorTypes /\ RankedLists
  BY DEF CallsInv
<1>2. CASE CallRecordOrder
  <2>1. PICK id \in Ids, price \in Quotes, side \in {"BUY", "SELL"} :
          v' = V!RecordOrder(v, id, price, side)
    BY <1>2 DEF CallRecordOrder
  <2>2. id \in Nat /\ price \in Nat /\ side \in Sides
    BY CallsAssumption DEF Sides
  <2>3. ValidatorTypes' /\ RankedLists' /\ v'.total = v.total
    BY <1>1, <2>1, <2>2, RecordOrderStep
  <2> QED BY <2>3 DEF CallsInv
<1>3. CASE CallRecordFill
  <2>1. v' = V!RecordFill(v, last')
    BY <1>3 DEF CallRecordFill
  <2>2. ValidatorTypes' /\ RankedLists'
    BY <1>1, <2>1, RecordFillStep
  <2> QED BY <2>1, <2>2 DEF CallsInv
<1>4. CASE UNCHANGED callVars
  BY <1>1, <1>4 DEF callVars, CallsInv, ValidatorTypes, RankedLists
<1> QED BY <1>2, <1>3, <1>4 DEF CallsNext

\* Whatever orders and fills come in, known or not and in any order, a fill is
\* faulted exactly if price-time priority faults it (validator.go:59-104, 127-152).
THEOREM VerdictsAreExact == CallsSpec => VerdictIsPriority
<1>1. ASSUME CallsInv, [CallsNext]_callVars
      PROVE  [v'.total > v.total => (v'.violations > v.violations <=> ~V!Known(v, last') \/ Overtaken # {})]_callVars
  <2>1. ValidatorTypes /\ RankedLists
    BY <1>1 DEF CallsInv
  <2>2. v.total \in Nat
    BY <2>1, ValidatorParts
  <2>3. CASE v'.total = v.total
    <3>1. ~(v'.total > v.total)
      BY <2>2, <2>3
    <3> QED BY <3>1
  <2>4. CASE v' = V!RecordFill(v, last')
    <3>1. v'.violations > v.violations <=> ~V!Known(v, last') \/ Overtaken # {}
      BY <2>1, <2>4, RecordFillStep
    <3> QED BY <3>1
  <2> QED BY <1>1, <2>3, <2>4, CallsStep
<1>2. CallsInv /\ [CallsNext]_callVars => CallsInv'
  BY CallsStep
<1> QED BY <1>1, <1>2, CallsInitInv, PTL DEF CallsSpec, VerdictIsPriority

-----------------------------------------------------------------------------
(* match implements price-time priority.                                   *)

USE DEF Abstract!Sides, Abstract!Orders, Abstract!Opposite, Abstract!Before, Abstract!Crosses,
        Abstract!Less

\* The empty book is the empty set of resting orders.
LEMMA RefineInit == Init => Abstract!Init
BY DEF Init, Abstract!Init, Resting, Range, Sides

\* Every step of match is one of the abstract book's, or none.
LEMMA RefineNext ==
  ASSUME IInv, [Next]_vars
  PROVE  [Abstract!Next]_<<Resting, taker>>
<1>1. ASSUME NEW side \in Sides, NEW price \in Prices, NEW qty \in Qtys, handleOrder(side, price, qty)
      PROVE  UNCHANGED <<Resting, taker>>
  BY <1>1 DEF handleOrder, Resting
<1>2. ASSUME NEW o \in waiting, Lock(o) PROVE Abstract!Accept
  <2>1. o \in Orders /\ o.price \in Prices /\ o.qty \in Qtys /\ \A r \in Resting : r.id # o.id
    BY DEF IInv, TypeOK, WaitingAsSent, OnePlace
  <2>2. taker = NoOrder /\ taker' = o /\ Resting' = Resting
    BY <1>2 DEF Lock, Resting
  <2> QED
    BY <2>1, <2>2 DEF Abstract!Accept, Orders, Sides
<1>3. ASSUME Fill PROVE \E r \in Resting : Abstract!Trade(r)
  <2> DEFINE s == taker.side
             opp == Opposite(s)
             q == book[opp]
             b == q[1]
             n == min64(taker.qty, b.qty)
  <2>1. /\ s \in Sides /\ opp \in Sides /\ taker \in Orders /\ taker # NoOrder
        /\ b \in Range(q) /\ b.side = opp /\ q # <<>> /\ Crosses(taker, b)
        /\ taker.qty > 0 /\ taker' = [taker EXCEPT !.qty = @ - n]
    BY <1>3, FillFacts DEF Fill, CanFill
  <2>2. /\ book'[s] = book[s]
        /\ Range(book'[opp]) = (Range(q) \ {b}) \cup
                               (IF b.qty > n THEN {[b EXCEPT !.qty = @ - n]} ELSE {})
    BY <1>3, FillBook
  <2>3. /\ Resting = Range(book[s]) \cup Range(q) /\ q \in Seq(Orders)
        /\ Sorted(q) /\ \A x \in Range(q) : x.side = opp
        /\ \A x \in Range(book[s]) : x.side = s
        /\ opp # s
    BY <2>1, RestingSides, SideFacts DEF IInv, TypeOK, Queues
  <2>4. Resting' = Range(book'[s]) \cup Range(book'[opp])
    BY <2>1, SideFacts DEF Resting, Opposite, Sides
  <2> HIDE DEF n, b, q
  <2>5. Resting' = (Resting \ {b}) \cup (IF b.qty > n THEN {[b EXCEPT !.qty = @ - n]} ELSE {})
    BY <2>1, <2>2, <2>3, <2>4
  <2>6. \A x \in Resting : x.side = opp => ~Before(x, b)
    BY <2>1, <2>3, HeadIsBest DEF b
  <2>7. b \in Abstract!Best(opp)
    BY <2>1, <2>3, <2>6 DEF Abstract!Best, Before
  <2>8. n = Abstract!Less(taker.qty, b.qty)
    BY DEF n, min64
  <2>9. Abstract!Trade(b)
    BY <2>1, <2>5, <2>7, <2>8 DEF Abstract!Trade, Crosses, Opposite
  <2> QED
    BY <2>1, <2>3, <2>9
<1>4. ASSUME Reply PROVE Abstract!Settle
  <2> DEFINE s == taker.side
             opp == Opposite(s)
  <2>1. /\ taker # NoOrder /\ taker \in Orders /\ s \in Sides /\ book'[opp] = book[opp]
        /\ Range(book'[s]) = Range(book[s]) \cup (IF taker.qty > 0 THEN {taker} ELSE {})
    BY <1>4, ReplyBook
  <2>2. taker' = NoOrder /\ ~CanFill /\ taker.qty \in Nat
    BY <1>4, <2>1 DEF Reply, Orders
  <2>3. /\ Resting = Range(book[s]) \cup Range(book[opp])
        /\ \A x \in Range(book[s]) : x.side = s
        /\ opp # s
    BY <2>1, RestingSides, SideFacts DEF IInv, TypeOK, Queues
  <2>4. Resting' = Range(book'[s]) \cup Range(book'[opp])
    BY <2>1, SideFacts DEF Resting, Opposite, Sides
  <2>5. Resting' = Resting \cup (IF taker.qty > 0 THEN {taker} ELSE {})
    BY <2>1, <2>3, <2>4
  <2>6. taker.qty = 0 \/ \A r \in Resting : r.side = opp => ~Crosses(taker, r)
    BY <2>1, <2>2, <2>3, NothingCrosses
  <2> QED
    BY <2>1, <2>2, <2>5, <2>6 DEF Abstract!Settle, Crosses, Opposite
<1>5. ASSUME UNCHANGED vars PROVE UNCHANGED <<Resting, taker>>
  BY <1>5 DEF vars, Resting
<1> QED
  BY <1>1, <1>2, <1>3, <1>4, <1>5 DEF Next, Abstract!Next

\* The engine's sorted slices implement price-time priority matching: every
\* trade is with the best resting order of the other side, and an order rests
\* only when it can trade with nobody.
THEOREM ImplementsPriority == Spec => PriceTimePriority
<1>1. Init => Abstract!Init
  BY RefineInit
<1>2. IInv /\ [Next]_vars => [Abstract!Next]_<<Resting, taker>>
  BY RefineNext
<1> QED
  BY <1>1, <1>2, Invariance, PTL DEF Spec, PriceTimePriority, Abstract!Spec
=============================================================================
