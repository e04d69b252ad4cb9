SPECIFICATION Spec
CONSTANTS
  Self = "1"
  Worker = {w}
  w = w
  Ann = ann
  Bob = bob
  Username = {ann, bob, cal}
  ann = ann
  bob = bob
  cal = cal
  Operation = {"createAccount", "sendMessage", "requestMessages", "deleteMessages", "deleteAccount"}
  PageSize = 2
  MaxCalls = 5
  MaxCrashes = 1
  MaxFailed = 1
  None = None
  Members <- TwoMembers
INVARIANT TypeOK
INVARIANT UsernamesUnique
INVARIANT DeliveredOnce
INVARIANT IdsUnique
INVARIANT UnreadIndexAgrees
INVARIANT ReadIsDelivered
INVARIANT Restartable
SYMMETRY Symmetry
CHECK_DEADLOCK FALSE
