\* One fleet at a time, a channel of one metric, batches of two, failing writes.
SPECIFICATION FairSpec
CONSTANTS
  f1 = f1
  Fleets = {f1}
  Requests <- SmallRequests
  ChanCap = 1
  BatchCap = 4
  MaxOrders = 2
  WriteFails = TRUE
INVARIANTS EachMetricInOnePlace LogIsComplete
PROPERTIES FleetFinishes FleetImplementsLog
CHECK_DEADLOCK FALSE
