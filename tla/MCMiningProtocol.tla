--------------------------- MODULE MCMiningProtocol ----------------------------
(***************************************************************************)
(* Small instances of MiningProtocol for TLC.  A configuration picks the   *)
(* records of its instance; what each record is does not change.           *)
(***************************************************************************)
EXTENDS MiningProtocol, TLC

CONSTANTS alice, bob, a1, a2, b1, k1, k2

(* a1 and b1 are two accounts' views of one request (k1).                  *)
Owners == [r \in Records |-> IF r = b1 THEN bob ELSE alice]
EventKeys == [r \in Records |-> IF r = a2 THEN k2 ELSE k1]

(* When they occurred. *)
AllOnDayOne == [r \in Records |-> 1]
AllOnDayTwo == [r \in Records |-> 2]
SecondOnDayTwo == [r \in Records |-> IF r = a2 THEN 2 ELSE 1]

(* The unit a calibration day may be closed with. *)
Approvals == [d \in CalibrationDays |-> a1]

(* Concurrent invocations are interchangeable. *)
Processes ==
  Permutations(Ingesters) \cup Permutations(Settlers) \cup Permutations(Uploads)
=============================================================================
