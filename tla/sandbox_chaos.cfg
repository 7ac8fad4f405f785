\* One sandbox with chaos, two DELETE clients, one poller; all but removal, unpause and publish may fail.
SPECIFICATION FairSpec
CONSTANTS
  s1 = s1  s2 = s2  c1 = c1  c2 = c2  p1 = p1  ip1 = ip1  ip2 = ip2  ip3 = ip3
  Sandboxes = {s1}
  Chaotic = {s1}
  Stoppers = {c1, c2}
  Pollers = {p1}
  IPs = {ip1, ip2}
  HostAlias = ip2
  NoIP = NoIP
  NoSandbox = NoSandbox
  HostNetwork = FALSE
  MayFail = {"create", "start", "inspect", "pause", "stop", "disconnect"}
  SelfExit = TRUE
  MayRestart = TRUE
INVARIANTS RegisteredIsEnforced TornDownIsGone PausedIsOwned EventsBracketOutage
PROPERTIES TimedOutIsFinal ListedIsReclaimed
CHECK_DEADLOCK FALSE
