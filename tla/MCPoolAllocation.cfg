SPECIFICATION Spec
CONSTANTS
  Users = {1, 2, 3}
  MaxScore = 5
  MaxCap = 6
  MaxBaseline = 6
  FloorPoints = 0
  Scale = 10
INVARIANTS SumsToPool WithinScheduled MoreScoreNeverLess WithinOnePoint NeverRefused
CHECK_DEADLOCK FALSE
