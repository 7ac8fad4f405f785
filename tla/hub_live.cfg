\* Two browsers, a score and an event of one session, a second partition.
SPECIFICATION HubFairSpec
CONSTANTS
  Sessions = {"s"}
  Clients = {"c", "d"}
  Partitions = {0, 1}
  MaxScores = 1
  MaxEvents = 1
  Kinds = {"chaos_start"}
INVARIANTS CurrentWasSent
PROPERTIES BrokenIsForgotten ScoreReachesBrowsers
CHECK_DEADLOCK FALSE
