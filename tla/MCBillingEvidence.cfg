SPECIFICATION Spec
CONSTANTS
  Users = {alice}
  Principals = {octocat}
  Connects = {c1}
  NoUser = NoUser
  NoSecret = NoSecret
  MaxRotations = 0
  Disconnects = {}
  Calendar <- MonthEnd
  SyncDays = {2}
  Items = {i1, i2}
  Values = {low, high}
  Syncs = {s1}
  MaxFailures = 1
  FirstBill <- OneBilled
  MaxMoves = 2
INVARIANTS EvidenceTraceable PeriodBroughtUpToDate
CHECK_DEADLOCK FALSE
