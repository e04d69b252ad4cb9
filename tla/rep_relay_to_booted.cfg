SPECIFICATION Spec
CONSTANTS
  Replica = {s, a, b}
  s = s
  a = a
  b = b
  Seed = s
  Writer = {a}
  Durable = {s, a, b}
  Kinds = {"NEW_CHAT_MESSAGE"}
  Faults = {"crash"}
  MaxIssued = 2
  MaxFaults = 1
  None = None
INVARIANT AckedEverywhere
SYMMETRY Symmetry
CHECK_DEADLOCK FALSE
