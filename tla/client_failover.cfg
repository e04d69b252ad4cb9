SPECIFICATION Spec
CONSTANTS
  Server = {s, a}
  s = s
  a = a
  S = s
  A = a
  Seed = s
  Configured <- TwoServers
  UpFirst = {s, a}
  Thread = {t}
  t = t
  Poller = p
  p = p
  Operation = {"login"}
  MaxRetries = 5
  MaxCalls = 1
  MaxFaults = 1
  None = None
INVARIANT FailoverReaches
CHECK_DEADLOCK FALSE
