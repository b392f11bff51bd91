SPECIFICATION Spec
CONSTANTS
  alice = alice
  bob = bob
  a1 = a1
  a2 = a2
  b1 = b1
  k1 = k1
  k2 = k2
  Users = {alice, bob}
  Records = {a1, b1}
  Keys = {k1, k2}
  NoKey = NoKey
  NoEvent = NoEvent
  NoScore = {none}
  Owner <- Owners
  KeyOf <- EventKeys
  OccurredOn <- AllOnDayOne
  Earning = {a1, b1}
  LastDay = 2
  BetaFrom = 3
  Ingesters = {i1, i2}
  InsertChunk = 2
  Settlers = {s1}
  CalibrationDays = {2}
  Approved <- Approvals
  AllowIncompleteDay = TRUE
  Uploads = {}
  Reported = {}
  Disagreeing = {}
  MaxCrashes = 0
  Undecided = Undecided
INVARIANTS TypeOK CalibratedNeverCredited OneCreditPerKey 
SYMMETRY Processes
