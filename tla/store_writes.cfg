\* The code's pauses and deadline; two rows fit the channel.
SPECIFICATION StoreSpec
CONSTANTS
  Cap = 2
  FirstBackoff = 2
  MaxBackoff = 16
  Deadline = 90
  Attempts = {0, 10}
  MaxCalls = 2
INVARIANTS TablesFollowQueue ConnectIsBounded
CHECK_DEADLOCK FALSE
