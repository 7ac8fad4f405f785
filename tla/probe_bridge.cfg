\* Two flows, two CPUs, a ring of one record; a round trip of two ticks is stale.
SPECIFICATION Spec
CONSTANTS
  f1 = f1  f2 = f2  c1 = c1  c2 = c2
  Flows = {f1, f2}
  CPUs = {c1, c2}
  StaleAfter = 1
  MaxTime = 2
  Wrap = 8
  RingCap = 1
INVARIANTS EndedHoldsNothing RoundTripIsGenuine
CHECK_DEADLOCK FALSE
