SPECIFICATION Spec
CONSTANTS
  Replica = {s, a, b}
  s = s
  a = a
  b = b
  Seed = s
  Writer = {s, a}
  Durable = {s, a, b}
  Kinds = {"NEW_CHAT_MESSAGE", "MARK_AS_READ"}
  Faults = {"crash"}
  MaxIssued = 2
  MaxFaults = 1
  None = None
 
INVARIANT AckedUnlessFault
INVARIANT Mesh
INVARIANT Converged
SYMMETRY Symmetry
CHECK_DEADLOCK FALSE
