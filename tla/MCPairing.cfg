SPECIFICATION Spec
CONSTANTS
  laptop = laptop
  Users = {alice, bob}
  Machines = {laptop}
  Requests = {q1, q2}
  MachineOf <- OneMachine
  Identified = {q1, q2}
  Devices = {d1, d2}
  Tokens = {t1, t2, t3}
  NoUser = NoUser
  NoDevice = NoDevice
  NoToken = NoToken
  Approvals = {x1, x2}
  Polls = {p1, p2}
  Rotations = {}
  Revocations = {}
  MaxFailures = 0
INVARIANTS HandedOutOnce DeliveredToApprover
SYMMETRY Interchangeable
CHECK_DEADLOCK FALSE
