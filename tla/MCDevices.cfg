SPECIFICATION Spec
CONSTANTS
  laptop = laptop
  Users = {alice}
  Machines = {laptop}
  Requests = {q1, q2}
  MachineOf <- OneMachine
  Identified = {q1, q2}
  Devices = {d1, d2}
  Tokens = {t1, t2, t3}
  NoUser = NoUser
  NoDevice = NoDevice
  NoToken = NoToken
  Approvals = {x1}
  Polls = {p1}
  Rotations = {r1}
  Revocations = {v1}
  MaxFailures = 1
INVARIANTS TypeOK NoStrayCredential
 
SYMMETRY Interchangeable
CHECK_DEADLOCK FALSE
