SPECIFICATION Spec
CONSTANTS
  Users = {alice, bob}
  Principals = {octocat}
  Connects = {c1, c2}
  NoUser = NoUser
  NoSecret = NoSecret
  MaxRotations = 1
  Disconnects = {x1}
  Calendar <- OneDay
  SyncDays = {1}
  Items = {}
  Values = {}
  Syncs = {s1, s2}
  MaxFailures = 1
  FirstBill <- NothingBilled
  MaxMoves = 0
INVARIANTS TypeOK OneSyncPerAccount RotatedPairKept
PROPERTIES LogsOutOnlyDeadTokens BoundForLife
SYMMETRY Calls
CHECK_DEADLOCK FALSE
