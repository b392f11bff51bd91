-------------------------- MODULE FixedPoolSettlement --------------------------
(***************************************************************************)
(* finalizeEpoch then settleEpoch: the mining-dev-v1 path, one request     *)
(* after another with nothing holding them together.  The epoch is marked  *)
(* settled BEFORE anything is credited, from a score read one request      *)
(* earlier; allocations, ledger and event marks follow, each in its own    *)
(* transaction.  An EpochLifecycleError and a refused write both end the   *)
(* run.                                                                    *)
(***************************************************************************)
EXTENDS SettleDaily

(* finalizeEpoch: read the state, read the scores, stop collection.        *)
FinalizeLoadState(s) ==
  /\ RunAt(s, "f_state")
  /\ IF Settled(run[s].day) THEN Finish(s) ELSE Goto(s, "f_scores")
  /\ UNCHANGED <<events, rewardTables>>

LoadEpochScores(s, from, to) ==
  /\ RunAt(s, from)
  /\ run' = [run EXCEPT ![s].pc = to,
                        ![s].network = StoredNetwork(run[s].day)]
  /\ UNCHANGED <<events, rewardTables>>

FinalizeLoadScores(s) == LoadEpochScores(s, "f_scores", "f_epoch")

(* upsertEpoch, refused by the trigger when the row is already settled.    *)
UpsertEpoch(s, from, state, to) ==
  LET d == run[s].day IN
  /\ RunAt(s, from)
  /\ IF EpochWritable(d)
     THEN /\ epochs' = [epochs EXCEPT ![d] =
               [state |-> state, network |-> run[s].network]]
          /\ Goto(s, to)
     ELSE Finish(s) /\ UNCHANGED epochs
  /\ UNCHANGED <<events, allocations, ledger>>

UpsertFinalizing(s) == UpsertEpoch(s, "f_epoch", "finalizing", "s_state")

(* settleEpoch: assertSettleable, read the scores again, settle, credit.   *)
SettleLoadState(s) ==
  /\ RunAt(s, "s_state")
  /\ IF epochs[run[s].day].state = "finalizing"
     THEN Goto(s, "s_scores")
     ELSE Finish(s)
  /\ UNCHANGED <<events, rewardTables>>

SettleLoadScores(s) == LoadEpochScores(s, "s_scores", "s_epoch")

UpsertSettled(s) == UpsertEpoch(s, "s_epoch", "settled", "s_allocate")

(* creditAllocations, first request: rows already there are ignored.  An   *)
(* epoch without participants has nothing to credit or to mark.            *)
(* (Mutant: allocations from the scores as they are now.)                  *)
CreditCurrentScores(s) ==
  LET d == run[s].day IN
  /\ RunAt(s, "s_allocate")
  /\ allocations' = [allocations EXCEPT ![d] = InsertIgnore(@, StoredNetwork(d))]
  /\ Goto(s, "s_ledger")
  /\ UNCHANGED <<events, epochs, ledger>>

CreditAllocations(s) ==
  LET d == run[s].day IN
  /\ RunAt(s, "s_allocate")
  /\ IF Participants(run[s].network) = {}
     THEN Finish(s) /\ UNCHANGED allocations
     ELSE /\ allocations' = [allocations EXCEPT ![d] =
               InsertIgnore(@, run[s].network)]
          /\ Goto(s, "s_ledger")
  /\ UNCHANGED <<events, epochs, ledger>>

(* Second request: ledger rows for the allocations that round to at least  *)
(* one point.  A pool is never all rounded away (PoolAllocation).          *)
CreditLedger(s) ==
  LET d == run[s].day IN
  /\ RunAt(s, "s_ledger")
  /\ \E paid \in SUBSET Participants(run[s].network) :
       /\ paid # {}
       /\ ledger' = [ledger EXCEPT ![d] =
            InsertIgnore(@, Payable(run[s].network, paid))]
  /\ Goto(s, "s_events")
  /\ UNCHANGED <<events, epochs, allocations>>

(* markSettled: by epoch and participant, whatever their reward status.    *)
MarkSettled(s) ==
  LET d == run[s].day
      Counted(r) == /\ Stored(r)
                    /\ events[r].epoch = d
                    /\ events[r].econ = "eligible"
                    /\ Owner[r] \in Participants(run[s].network)
  IN
  /\ RunAt(s, "s_events")
  /\ events' = [r \in Records |->
       IF Counted(r) THEN [events[r] EXCEPT !.econ = "settled"] ELSE events[r]]
  /\ Finish(s)
  /\ UNCHANGED rewardTables

FixedPoolStep(s) ==
  \/ FinalizeLoadState(s)
  \/ FinalizeLoadScores(s)
  \/ UpsertFinalizing(s)
  \/ SettleLoadState(s)
  \/ SettleLoadScores(s)
  \/ UpsertSettled(s)
  \/ CreditAllocations(s)
  \/ CreditLedger(s)
  \/ MarkSettled(s)
=============================================================================
