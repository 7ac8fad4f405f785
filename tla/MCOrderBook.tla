---------------------------- MODULE MCOrderBook ----------------------------
(* Small instances of the order book and of the validator for TLC.  They   *)
(* share no state, and one of the two is run at a time.                    *)
EXTENDS OrderBook, ValidatorCalls, FiniteSets

VARIABLES
  running  \* "book" or "validator"

RunInit ==
  /\ Init /\ CallsInit
  /\ running \in {"book", "validator"}

RunNext ==
  /\ \/ running = "book" /\ Next /\ UNCHANGED callVars
     \/ running = "validator" /\ CallsNext /\ UNCHANGED vars
  /\ UNCHANGED running

RunSpec == RunInit /\ [][RunNext]_<<vars, callVars, running>>

\* Bounds of this instance beside the constants: handlers at once, orders of
\* more than one unit, and moments at which orders are stamped.
Small ==
  /\ Cardinality(waiting) <= 2
  /\ Cardinality({i \in DOMAIN asked : asked[i] > 1}) <= 1
  /\ clock <= 1
=============================================================================
