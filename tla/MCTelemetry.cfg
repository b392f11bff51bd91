SPECIFICATION Spec
CONSTANTS
  alice = alice
  bob = bob
  a1 = a1
  a2 = a2
  b1 = b1
  k1 = k1
  k2 = k2
  Users = {alice, bob}
  Records = {a1, b1}
  Keys = {k1, k2}
  NoKey = NoKey
  NoEvent = NoEvent
  NoScore = {none}
  Owner <- Owners
  KeyOf <- EventKeys
  OccurredOn <- AllOnDayOne
  Earning = {a1, b1}
  LastDay = 2
  BetaFrom = 1
  Ingesters = {i1}
  InsertChunk = 2
  Settlers = {s1}
  CalibrationDays = {}
  Approved <- Approvals
  AllowIncompleteDay = FALSE
  Uploads = {p1}
  Reported = {a1, b1}
  Disagreeing = {a1}
  MaxCrashes = 1
  Undecided = Undecided
PROPERTY SettledHistoryImmutable
SYMMETRY Processes
