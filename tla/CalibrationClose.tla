---------------------------- MODULE CalibrationClose ---------------------------
(***************************************************************************)
(* close_development_calibration_epoch: the operator's close of an epoch   *)
(* the owner approved by name, with the one unit it holds, for a reward of *)
(* zero.  One transaction under row locks; whatever differs from the       *)
(* approved facts raises, which is no step here, and so is a ledger that   *)
(* another settlement adds to before the postconditions are read.          *)
(***************************************************************************)
EXTENDS SettleDaily

CONSTANT Approved    \* the one unit each calibration epoch may be closed with

ASSUME ApprovedAssumption == Approved \in [CalibrationDays -> Records]

(* The approved epoch is days older than the beta's first (schedule.ts).   *)
ASSUME CalibrationAssumption ==
  \A d \in CalibrationDays : Protocol(d) = "mining-dev-v1"

(* The approved unit is what the epoch's owner was shown: unique, waiting, *)
(* recorded under the development prices, and proved.                      *)
ApprovedAsShown(d) ==
  LET r == Approved[d] IN
  /\ Stored(r)
  /\ events[r].epoch = d
  /\ events[r].dedupe = "unique"
  /\ events[r].reward = "eligible"
  /\ events[r].econ = "eligible"
  /\ Protocol(OccurredOn[r]) = "mining-dev-v1"
  /\ r \in proofs

(* What the epoch is settled from: the stored score, which must be that of *)
(* the approved unit alone.                                                *)
ApprovedNetwork(d) ==
  [u \in Users |-> IF u = Owner[Approved[d]] THEN {Approved[d]} ELSE {}]

(* The allocation the close writes is of zero points and no ledger row     *)
(* goes with it: no unit is rewarded.  Whether the day is over, and what   *)
(* else the epoch holds, is not asked.                                     *)
CloseCalibration(d) ==
  LET r == Approved[d] IN
  /\ ~Settled(d)
  /\ ApprovedAsShown(d)
  /\ scores[Owner[r]][d] = {r}
  /\ Participants(allocations[d]) = {}
  /\ epochs' = [epochs EXCEPT ![d] =
                  [state |-> "settled", network |-> ApprovedNetwork(d)]]
  /\ events' = [events EXCEPT ![r].econ = "settled"]
  /\ UNCHANGED <<allocations, ledger>>
=============================================================================
