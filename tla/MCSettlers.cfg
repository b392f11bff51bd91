SPECIFICATION Spec
CONSTANTS
  alice = alice
  bob = bob
  a1 = a1
  a2 = a2
  b1 = b1
  k1 = k1
  k2 = k2
  Users = {alice, bob}
  Records = {a1, a2}
  Keys = {k1, k2}
  NoKey = NoKey
  NoEvent = NoEvent
  NoScore = {none}
  Owner <- Owners
  KeyOf <- EventKeys
  OccurredOn <- SecondOnDayTwo
  Earning = {a1, a2}
  LastDay = 3
  BetaFrom = 2
  Ingesters = {i1}
  InsertChunk = 1
  Settlers = {s1, s2}
  CalibrationDays = {}
  Approved <- Approvals
  AllowIncompleteDay = TRUE
  Uploads = {}
  Reported = {}
  Disagreeing = {}
  MaxCrashes = 0
  Undecided = Undecided
INVARIANTS LedgerFollowsDecision BetaEpochSettlesWhole
PROPERTY ImplementsRewardLedger
SYMMETRY Processes
