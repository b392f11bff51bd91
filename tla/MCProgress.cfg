SPECIFICATION FairSpec
CONSTANTS
  alice = alice
  bob = bob
  a1 = a1
  a2 = a2
  b1 = b1
  k1 = k1
  k2 = k2
  Users = {alice, bob}
  Records = {a1, a2}
  Keys = {k1, k2}
  NoKey = NoKey
  NoEvent = NoEvent
  NoScore = {none}
  Owner <- Owners
  KeyOf <- EventKeys
  OccurredOn <- AllOnDayTwo
  Earning = {a1, a2}
  LastDay = 3
  BetaFrom = 2
  Ingesters = {i1}
  InsertChunk = 2
  Settlers = {s1}
  CalibrationDays = {}
  Approved <- Approvals
  AllowIncompleteDay = FALSE
  Uploads = {}
  Reported = {}
  Disagreeing = {}
  MaxCrashes = 1
  Undecided = Undecided
PROPERTIES  BatchCountsItsDays
