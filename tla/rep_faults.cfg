SPECIFICATION FairSpec
CONSTANTS
  Replica = {s, a, b}
  s = s
  a = a
  b = b
  Seed = s
  Writer = {a}
  Durable = {s, a, b}
  Kinds = {"NEW_CHAT_MESSAGE", "MARK_AS_READ"}
  Faults = {"crash", "seedCrash", "applyCrash", "save", "drop", "late", "sameMs"}
  MaxIssued = 2
  MaxFaults = 2
  None = None
INVARIANT TypeOK
INVARIANT WriteAhead
PROPERTY ImplementsReplicatedLog
PROPERTY HangsOnlyInDeadlock
CHECK_DEADLOCK FALSE
