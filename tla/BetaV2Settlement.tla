--------------------------- MODULE BetaV2Settlement ----------------------------
(***************************************************************************)
(* settle_beta_v2_epoch: the mining-beta-v2 path, one database function in *)
(* one READ COMMITTED transaction.  Its writes appear together, at the     *)
(* commit; its reads do not: each statement sees what was committed when   *)
(* that statement started, so rows of other transactions come and go       *)
(* between two of its checks.  Every refusal rolls the whole of it back.   *)
(***************************************************************************)
EXTENDS SettleDaily

(* The eligible units of an epoch that must stop it from settling: not     *)
(* exactly priced under its version, not unique, or not waiting.           *)
UnsettleableUnits(d) ==
  {r \in StoredRecords :
     /\ events[r].epoch = d
     /\ events[r].reward = "eligible"
     /\ \/ Protocol(OccurredOn[r]) # Protocol(d)
        \/ events[r].dedupe # "unique"
        \/ events[r].econ # "eligible"}

DuplicateKeysIn(d) ==
  \E r, q \in StoredRecords :
    /\ r # q
    /\ KeyOf[r] # NoKey /\ KeyOf[r] = KeyOf[q]
    /\ \A x \in {r, q} : events[x].epoch = d /\ events[x].reward = "eligible"

(* v2_participants: what each user is due, summed from the events.         *)
RecomputedNetwork(d) ==
  [u \in Users |->
     {r \in StoredRecords :
        /\ Owner[r] = u
        /\ events[r].epoch = d
        /\ events[r].reward = "eligible"
        /\ events[r].econ = "eligible"}]

(* The per-epoch advisory lock, held to the end of the transaction, and    *)
(* the state under the row lock.                                           *)
TakeLock(s) ==
  LET d == run[s].day IN
  /\ RunAt(s, "b_lock")
  /\ \A t \in Settlers : ~(run[t].pc \in BetaPc /\ run[t].day = d)
  /\ IF Settled(d) \/ ~DayComplete(d) THEN Finish(s) ELSE Goto(s, "b_units")
  /\ UNCHANGED <<events, rewardTables>>

CheckUnits(s) ==
  LET d == run[s].day IN
  /\ RunAt(s, "b_units")
  /\ IF \/ UnsettleableUnits(d) # {}
        \/ DuplicateKeysIn(d)
        \/ Participants(ledger[d]) # {}
     THEN Finish(s)
     ELSE Goto(s, "b_count")
  /\ UNCHANGED <<events, rewardTables>>

CountParticipants(s) ==
  /\ RunAt(s, "b_count")
  /\ run' = [run EXCEPT ![s].pc = "b_scores",
                        ![s].network = RecomputedNetwork(run[s].day)]
  /\ UNCHANGED <<events, rewardTables>>

(* Every participant's stored score must be the recomputed one.  The       *)
(* ledger total is noted for the postcondition.                            *)
CompareScores(s) ==
  LET d == run[s].day
      n == run[s].network
  IN
  /\ RunAt(s, "b_scores")
  /\ IF \A u \in Participants(n) : scores[u][d] = n[u]
     THEN run' = [run EXCEPT ![s].pc = "b_commit", ![s].before = ledger]
     ELSE Finish(s)
  /\ UNCHANGED <<events, rewardTables>>

(* The writes and the postconditions, visible together: the epoch, the     *)
(* allocations, the ledger rows of the participants whose share is at      *)
(* least one point, and the event marks as of this statement.  A ledger    *)
(* another transaction added to meanwhile fails the postcondition.         *)
(* (Mutants: the events stay unmarked; the allocations are summed again.)  *)
Commitable(s) ==
  LET d == run[s].day IN
  /\ ledger = run[s].before
  /\ EpochWritable(d)
  /\ Participants(allocations[d]) = {}

CommitUnmarked(s) ==
  LET d == run[s].day
      n == run[s].network
  IN
  /\ RunAt(s, "b_commit") /\ Commitable(s)
  /\ epochs' = [epochs EXCEPT ![d] = [state |-> "settled", network |-> n]]
  /\ allocations' = [allocations EXCEPT ![d] = n]
  /\ ledger' = [ledger EXCEPT ![d] = n]
  /\ Finish(s)
  /\ UNCHANGED events

CommitSummedAgain(s) ==
  LET d == run[s].day
      n == RecomputedNetwork(d)
  IN
  /\ RunAt(s, "b_commit") /\ Commitable(s)
  /\ epochs' = [epochs EXCEPT ![d] =
                  [state |-> "settled", network |-> run[s].network]]
  /\ allocations' = [allocations EXCEPT ![d] = n]
  /\ ledger' = [ledger EXCEPT ![d] = n]
  /\ Finish(s)
  /\ UNCHANGED events

CommitSettlement(s) ==
  LET d == run[s].day
      n == run[s].network
  IN
  /\ RunAt(s, "b_commit")
  /\ IF Commitable(s)
     THEN /\ epochs' = [epochs EXCEPT ![d] =
                          [state |-> "settled", network |-> n]]
          /\ allocations' = [allocations EXCEPT ![d] = n]
          /\ \E paid \in SUBSET Participants(n) :
               ledger' = [ledger EXCEPT ![d] = Payable(n, paid)]
          /\ events' = [r \in Records |->
               IF r \in RecomputedNetwork(d)[Owner[r]]
               THEN [events[r] EXCEPT !.econ = "settled"]
               ELSE events[r]]
     ELSE UNCHANGED <<events, rewardTables>>
  /\ Finish(s)

BetaStep(s) ==
  \/ TakeLock(s)
  \/ CheckUnits(s)
  \/ CountParticipants(s)
  \/ CompareScores(s)
  \/ CommitSettlement(s)
=============================================================================
