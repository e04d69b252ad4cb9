SPECIFICATION Spec
CONSTANTS
  Self = "1"
  Worker = {v, w}
  w = w
  Ann = ann
  Bob = bob
  Username = {ann, bob, cal}
  ann = ann
  bob = bob
  cal = cal
  Operation = {"createAccount", "sendMessage", "requestMessages"}
  PageSize = 2
  MaxCalls = 4
  MaxCrashes = 1
  MaxFailed = 0
  None = None
  v = v
  Members <- TwoMembers
INVARIANT RestartInvisible
SYMMETRY Symmetry
CHECK_DEADLOCK FALSE
