-------------------------- MODULE ValidatorCalls --------------------------
(***************************************************************************)
(* A session's validator under calls of RecordOrder and RecordFill in any  *)
(* order and with any arguments: an id may be recorded twice, on either    *)
(* side, or filled without having been recorded, or filled again.  The     *)
(* code makes a validator for each session and reserves it for metrics     *)
(* with a side and a price (composite.go:99-101, 302), but calls neither   *)
(* method yet: nothing is assumed of the caller.                           *)
(***************************************************************************)
EXTENDS Naturals, Sequences, Functions

CONSTANTS
  Ids,          \* ids of orders
  Quotes,       \* prices of orders
  MaxRecorded,  \* bound: orders recorded
  MaxFills      \* bound: fills reported

ASSUME CallsAssumption == Ids \subseteq Nat /\ Quotes \subseteq Nat

VARIABLES
  v,    \* the validator
  last  \* observed: the id of the last fill reported, 0 before it

callVars == <<v, last>>

V == INSTANCE Validator

CallRecordOrder ==
  /\ v.seq < MaxRecorded
  /\ \E id \in Ids, price \in Quotes, side \in {"BUY", "SELL"} :
       v' = V!RecordOrder(v, id, price, side)
  /\ UNCHANGED last

CallRecordFill ==
  /\ v.total < MaxFills
  /\ last' \in Ids
  /\ v' = V!RecordFill(v, last')

CallsInit == v = V!NewValidator /\ last = 0
CallsNext == CallRecordOrder \/ CallRecordFill
CallsSpec == CallsInit /\ [][CallsNext]_callVars

-----------------------------------------------------------------------------
(* Properties                                                              *)

\* The orders recorded and not filled yet that price-time priority puts before
\* the filled one, whatever list or place the validator keeps them in.
Overtaken ==
  LET p == V!findOrder(v, last')
      o == v[p.side][p.at]
  IN  {x \in Range(v[p.side]) : ~x.filled /\ V!Ahead(p.side, x, o)}

\* A fill is a violation exactly if its order is unknown or an open order goes
\* before it: sorted insertion, the early end of the loop and earlier fills
\* never hide one nor make one up (validator.go:59-104, 127-152).
VerdictIsPriority ==
  [][v'.total > v.total =>
       (v'.violations > v.violations <=> ~V!Known(v, last') \/ Overtaken # {})]_callVars
=============================================================================
