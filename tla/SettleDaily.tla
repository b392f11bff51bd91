------------------------------ MODULE SettleDaily ------------------------------
(***************************************************************************)
(* settleDailyEpoch: the entry the nightly cron and the operator script    *)
(* share.  It refuses an unfinished day, skips a settled epoch, and hands  *)
(* the epoch to the path of the protocol that governs it.  A run is one    *)
(* process settling one day; the cron takes its days one at a time, so a   *)
(* run that throws also abandons the rest of its night, and nothing keeps  *)
(* a second run (a retry, an operator) from working on the same day.       *)
(***************************************************************************)
EXTENDS UsageTables

CONSTANTS
  Settlers,            \* processes that may be settling
  CalibrationDays,     \* owner-approved calibration epochs
  AllowIncompleteDay   \* an operator may name a day still in progress

ASSUME SettleAssumption ==
  /\ CalibrationDays \subseteq Days
  /\ AllowIncompleteDay \in BOOLEAN

VARIABLE run    \* the local state of each run

FixedPoolPc == {"f_state", "f_scores", "f_epoch", "s_state", "s_scores",
                "s_epoch", "s_allocate", "s_ledger", "s_events"}
BetaPc == {"b_units", "b_count", "b_scores", "b_commit"}
SettlePc == {"idle", "check", "b_lock"} \cup FixedPoolPc \cup BetaPc

(* network: the scores the run read last; before: the ledger a beta run    *)
(* read before writing.                                                    *)
Run == [ pc      : SettlePc,
         day     : Days,
         network : UnitsByUser,
         before  : [Days -> UnitsByUser] ]

NoLedger == [d \in Days |-> Nobody]

IdleRun == [pc |-> "idle", day |-> 1, network |-> Nobody, before |-> NoLedger]

SettleTypeOK == run \in [Settlers -> Run]
SettleInit == run = [s \in Settlers |-> IdleRun]

-----------------------------------------------------------------------------
RunAt(s, pc) == run[s].pc = pc
Goto(s, pc) == run' = [run EXCEPT ![s].pc = pc]
Finish(s) == run' = [run EXCEPT ![s] = IdleRun]

DayComplete(d) == d < today

(* The ledger rows of the participants whose share rounds to a point.      *)
Payable(n, paid) == [u \in Users |-> IF u \in paid THEN n[u] ELSE {}]

(* A run is started for a day; a day still in progress is refused.         *)
BeginSettle(s, d) ==
  /\ RunAt(s, "idle")
  /\ DayComplete(d) \/ AllowIncompleteDay
  /\ run' = [run EXCEPT ![s] = [IdleRun EXCEPT !.pc = "check", !.day = d]]
  /\ UNCHANGED <<events, rewardTables>>

(* The stored state is read once, before either path; the calibration      *)
(* epochs are left to their own script.                                    *)
(* (Mutants: any existing epoch row is taken for settled; every day is     *)
(* settled alike.)                                                         *)
CheckAnyRow(s) ==
  LET d == run[s].day IN
  /\ RunAt(s, "check")
  /\ IF Closed(d) \/ d \in CalibrationDays THEN Finish(s)
     ELSE Goto(s, IF Protocol(d) = "mining-beta-v2" THEN "b_lock" ELSE "f_state")
  /\ UNCHANGED <<events, rewardTables>>

CheckEveryDay(s) ==
  LET d == run[s].day IN
  /\ RunAt(s, "check")
  /\ IF Settled(d) THEN Finish(s)
     ELSE Goto(s, IF Protocol(d) = "mining-beta-v2" THEN "b_lock" ELSE "f_state")
  /\ UNCHANGED <<events, rewardTables>>

CheckExisting(s) ==
  LET d == run[s].day IN
  /\ RunAt(s, "check")
  /\ IF Settled(d) THEN Finish(s)
     ELSE IF Protocol(d) = "mining-beta-v2" THEN Goto(s, "b_lock")
     ELSE IF d \in CalibrationDays THEN Finish(s)
     ELSE Goto(s, "f_state")
  /\ UNCHANGED <<events, rewardTables>>

(* The process dies, or a request fails, between two requests; an open     *)
(* transaction rolls back with it.                                         *)
CrashSettle(s) ==
  /\ ~RunAt(s, "idle")
  /\ Finish(s)
  /\ UNCHANGED <<events, rewardTables>>

DispatchStep(s) == (\E d \in Days : BeginSettle(s, d)) \/ CheckExisting(s)
=============================================================================
