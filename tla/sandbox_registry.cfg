\* Two sandboxes, one with chaos, whose addresses are reused; everything but the
\* forced removal may fail, engines may exit by themselves.
SPECIFICATION Spec
CONSTANTS
  s1 = s1  s2 = s2  c1 = c1  c2 = c2  p1 = p1  ip1 = ip1  ip2 = ip2  ip3 = ip3
  Sandboxes = {s1, s2}
  Chaotic = {s1}
  Stoppers = {c1}
  Pollers = {}
  IPs = {ip1, ip2, ip3}
  HostAlias = ip3
  NoIP = NoIP
  NoSandbox = NoSandbox
  HostNetwork = FALSE
  MayFail = {"start", "inspect", "pause", "unpause", "stop", "publish"}
  SelfExit = TRUE
  MayRestart = FALSE
INVARIANTS RegistryNotDangling EntryLostOnlyToReuse
CHECK_DEADLOCK FALSE
