SPECIFICATION Spec
CONSTANTS
  Observations = {o1, o2, o3}
  Sessions = {s1}
  MaxBuffer = 3
  BatchLimit = 2
  MaxFaults = 2
INVARIANT NothingLostSilently
PROPERTY DeliveredOnceOrDropped
CHECK_DEADLOCK FALSE
