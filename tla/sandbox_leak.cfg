\* An inspect that fails, or a client that leaves, during Run.
SPECIFICATION FairSpec
CONSTANTS
  s1 = s1  s2 = s2  c1 = c1  c2 = c2  p1 = p1  ip1 = ip1  ip2 = ip2  ip3 = ip3
  Sandboxes = {s1}
  Chaotic = {s1}
  Stoppers = {c1}
  Pollers = {}
  IPs = {ip1, ip2}
  HostAlias = ip2
  NoIP = NoIP
  NoSandbox = NoSandbox
  HostNetwork = FALSE
  MayFail = {"inspect", "disconnect"}
  SelfExit = FALSE
  MayRestart = FALSE
PROPERTIES StartedIsReclaimed
CHECK_DEADLOCK FALSE
