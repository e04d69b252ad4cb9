SPECIFICATION FairSpec
CONSTANTS
  Server = {s, a}
  s = s
  a = a
  S = s
  A = a
  Seed = s
  Configured <- TwoServers
  UpFirst = {s}
  Thread = {t}
  t = t
  Poller = p
  p = p
  Operation = {"login", "createAccount", "sendMessage", "deleteAccount"}
  MaxRetries = 2
  MaxCalls = 2
  MaxFaults = 1
  None = None
INVARIANT TypeOK
INVARIANT ListIsOfCurrent
INVARIANT ReportsTruth
PROPERTY RequestEnds
CHECK_DEADLOCK FALSE
