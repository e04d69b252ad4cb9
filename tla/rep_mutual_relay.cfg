SPECIFICATION FairSpec
CONSTANTS
  Replica = {s, a}
  s = s
  a = a
  Seed = s
  Writer = {s, a}
  Durable = {s, a}
  Kinds = {"NEW_CHAT_MESSAGE"}
  Faults = {}
  MaxIssued = 1
  MaxFaults = 1
  None = None
PROPERTY RequestCompletes
CHECK_DEADLOCK FALSE
