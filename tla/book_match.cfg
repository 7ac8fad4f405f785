\* Four orders, limit and market, one of them of two units at most; and a
\* validator with three orders and three fills, of three ids.
SPECIFICATION RunSpec
CONSTANTS
  Prices = {0, 1, 2}
  Qtys = {1, 2}
  MaxOrders = 4
  NoOrder = NoOrder
  Ids = {1, 2, 3}
  Quotes = {0, 1, 2}
  MaxRecorded = 3
  MaxFills = 3
CONSTRAINT Small
INVARIANTS Conserved Uncrossed
PROPERTIES PriceTimePriority VerdictIsPriority
CHECK_DEADLOCK FALSE
