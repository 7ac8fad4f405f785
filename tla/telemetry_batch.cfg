\* Two sessions, batches of up to two metrics, one kernel sample, failing writes.
SPECIFICATION FairSpec
CONSTANTS
  a = a  b = b
  Sessions = {a, b}
  BatchSize = 2
  HistoryLen = 1
  MaxMetrics = 2
  MaxProbes = 1
  Kinds = {"right"}
  PublishFails = TRUE
INVARIANTS EachMetricCountedOnce ScoresCatchUp
PROPERTIES CountedIsScored
CHECK_DEADLOCK FALSE
