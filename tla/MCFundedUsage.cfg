SPECIFICATION Spec
CONSTANTS
  Calls = {c1, c2}
  Movements <- Paid
  Grant = 2
  VirtualGrant = 3
  Ids <- EventIds
  PageSize = 2
  Costs = {0, 2}
  FreeCap = 1
  PaidCap = 3
  RequestLimit = 1
  MaxDay = 1
  NotRead = NotRead
INVARIANTS TypeOK CreditedOnce SpendNeverUnderstated OverdraftBounded DailyRailsHold
SYMMETRY Slots
CHECK_DEADLOCK FALSE
