\* Two runs of one session, a restart, a stray message.
SPECIFICATION FairSpec
CONSTANTS
  Latencies = {2, 4}
  StepMS = 2500
  MaxRuns = 2
  MaxEvents = 3
  MaxSamples = 2
  MaxRestarts = 1
INVARIANTS RecoveryIsMeasured ScoresAreNormal CompletedRunIsScored
PROPERTIES EventsAreHandled
CHECK_DEADLOCK FALSE
