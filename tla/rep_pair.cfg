SPECIFICATION FairSpec
CONSTANTS
  Replica = {s, a}
  s = s
  a = a
  Seed = s
  Writer = {s, a}
  Durable = {s, a}
  Kinds = {"NEW_CHAT_MESSAGE"}
  Faults = {"crash", "seedCrash", "applyCrash", "save", "drop"}
  MaxIssued = 2
  MaxFaults = 3
  None = None
INVARIANT NoDuplicates
PROPERTY HangsOnlyInDeadlock
CHECK_DEADLOCK FALSE
