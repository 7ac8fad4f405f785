\* Two uploads with the same or different slugs, two addresses; seconds are ticks.
SPECIFICATION FairSpec
CONSTANTS
  u1 = u1  u2 = u2  a1 = a1  a2 = a2  s = s  t = t
  Uploads = {u1, u2}
  Slugs = {s, t}
  Timeouts = {0, 1}
  Addresses = {a1, a2}
  FleetOn = TRUE
  UploadDefault = 3
  SandboxDefault = 3
  FleetDefault = 2
  Pause = 1
  PostTimeout = 1
INVARIANTS RunsUploadedBinary FleetStartsOnce
 
CHECK_DEADLOCK FALSE
