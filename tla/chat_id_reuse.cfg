SPECIFICATION Spec
CONSTANTS
  Self = "1"
  Worker = {v, w}
  w = w
  Ann = ann
  Bob = bob
  Username = {ann, bob}
  ann = ann
  bob = bob
  Operation = {"sendMessage"}
  PageSize = 2
  MaxCalls = 4
  MaxCrashes = 0
  MaxFailed = 0
  None = None
  v = v
  Members <- TwoMembers
INVARIANT IdsUnique
SYMMETRY Symmetry
CHECK_DEADLOCK FALSE
