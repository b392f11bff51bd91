---------------------------- MODULE MiningProtocol -----------------------------
(***************************************************************************)
(* The mining core as it runs: ingestions, device uploads and settlement   *)
(* runs of both protocols over one database, with crashes and a clock.     *)
(***************************************************************************)
EXTENDS Ingestion, FixedPoolSettlement, BetaV2Settlement, CalibrationClose,
        TelemetryIngest

CONSTANTS
  MaxCrashes,   \* bound: processes that die in one behaviour
  Undecided     \* an epoch that is not settled, seen as a decision

ASSUME ProtocolAssumption == MaxCrashes \in Nat /\ Undecided \notin UnitsByUser

VARIABLE crashes

telemetryVars == <<observations, upload>>
vars == <<ingestTables, rewardTables, today, ing, run, telemetryVars, crashes>>

Init ==
  /\ TablesInit
  /\ IngestInit
  /\ SettleInit
  /\ TelemetryInit
  /\ crashes = 0

Ingest(i) ==
  IngestStep(i) /\ UNCHANGED <<rewardTables, today, run, telemetryVars, crashes>>

Settle(s) ==
  /\ DispatchStep(s) \/ FixedPoolStep(s) \/ BetaStep(s)
  /\ UNCHANGED <<proofs, aggregates, scores, today, ing, telemetryVars, crashes>>

Upload(p) ==
  /\ UploadStep(p)
  /\ UNCHANGED <<proofs, aggregates, scores, rewardTables, today, ing, run, crashes>>

CloseByOwner ==
  /\ \E d \in CalibrationDays : CloseCalibration(d)
  /\ UNCHANGED <<proofs, aggregates, scores, today, ing, run, telemetryVars, crashes>>

Midnight == NextDay /\ UNCHANGED <<ing, run, telemetryVars, crashes>>

Crash ==
  /\ crashes < MaxCrashes
  /\ crashes' = crashes + 1
  /\ \/ \E i \in Ingesters :
          CrashIngest(i) /\ UNCHANGED <<rewardTables, run, telemetryVars>>
     \/ \E s \in Settlers :
          /\ CrashSettle(s)
          /\ UNCHANGED <<proofs, aggregates, scores, ing, telemetryVars>>
     \/ \E p \in Uploads :
          /\ CrashUpload(p)
          /\ UNCHANGED <<proofs, aggregates, scores, rewardTables, ing, run>>
  /\ UNCHANGED today

Next ==
  \/ \E i \in Ingesters : Ingest(i)
  \/ \E s \in Settlers : Settle(s)
  \/ \E p \in Uploads : Upload(p)
  \/ CloseByOwner
  \/ Midnight
  \/ Crash

Spec == Init /\ [][Next]_vars

TypeOK ==
  /\ TablesTypeOK
  /\ IngestTypeOK
  /\ SettleTypeOK
  /\ TelemetryTypeOK
  /\ crashes \in 0 .. MaxCrashes

-----------------------------------------------------------------------------
(* Safety of what is paid.                                                 *)

CreditedUnits == UNION {ledger[d][u] : d \in Days, u \in Users}

(* Whatever runs race over an epoch, its permanent rows come from one      *)
(* score: an allocation is the share of the score the epoch row was        *)
(* settled from, and a ledger credit is that allocation.  It is what the   *)
(* settle-before-credit order and the settled-row trigger buy the          *)
(* multi-request path.                                                     *)
LedgerFollowsDecision ==
  \A d \in Days, u \in Users :
    /\ allocations[d][u] # {} =>
         Settled(d) /\ allocations[d][u] = epochs[d].network[u]
    /\ ledger[d][u] # {} => ledger[d][u] = allocations[d][u]

(* A unit is rewarded in one epoch, to one user: a carried-forward or      *)
(* replayed record never earns in two.                                     *)
UnitRewardedOnce ==
  \A d, e \in Days, u, v \in Users :
    <<d, u>> # <<e, v>> => ledger[d][u] \cap ledger[e][v] = {}

(* One authoritative compute, at most one credit, whatever sources and     *)
(* accounts present it and however their ingestions interleave.            *)
OneCreditPerKey ==
  \A r, q \in CreditedUnits :
    r # q /\ KeyOf[r] # NoKey => KeyOf[r] # KeyOf[q]

(* The compute of an epoch closed for calibration earned its zero there:   *)
(* neither its unit nor another account's view of the same request is ever *)
(* credited, in that epoch or in any other, by a run before the close or   *)
(* after it.                                                               *)
CalibratedNeverCredited ==
  \A d \in CalibrationDays : Settled(d) =>
    /\ CreditedUnits \cap UNION {epochs[d].network[u] : u \in Users} = {}
    /\ \A r \in CreditedUnits : \A u \in Users : \A q \in epochs[d].network[u] :
         KeyOf[q] # NoKey => KeyOf[r] # KeyOf[q]

(* Settled history does not move: the epoch row, its allocations and       *)
(* ledger rows, the economic columns of its settled events, and the scores *)
(* already stored for it.                                                  *)
SettledRowsKept ==
  \A d \in Days, u \in Users :
    /\ Settled(d) => epochs'[d] = epochs[d]
    /\ allocations[d][u] # {} => allocations'[d][u] = allocations[d][u]
    /\ ledger[d][u] # {} => ledger'[d][u] = ledger[d][u]

SettledScoresKept ==
  \A d \in Days, u \in Users :
    Settled(d) /\ scores[u][d] # NoScore => scores'[u][d] = scores[u][d]

SettledEventsKept ==
  \A r \in Records :
    Stored(r) /\ events[r].econ = "settled" => events'[r] = events[r]

SettledHistoryImmutable ==
  [][SettledRowsKept /\ SettledScoresKept /\ SettledEventsKept]_vars

(* A mining-beta-v2 epoch settles whole: every participant has its         *)
(* allocation, and every unit paid for is marked so it cannot be counted   *)
(* again.                                                                  *)
BetaEpochSettlesWhole ==
  \A d \in Days :
    Settled(d) /\ Protocol(d) = "mining-beta-v2" =>
      /\ allocations[d] = epochs[d].network
      /\ \A u \in Users : \A r \in epochs[d].network[u] :
           events[r].econ = "settled"

(* The invocations of one user come one after the other. *)
SerialUploads ==
  \A i, j \in Ingesters :
    i # j /\ ~At(i, "idle") /\ ~At(j, "idle") => BatchUser(i) # BatchUser(j)

(* An invocation that has written its aggregates.                          *)
CountedWhole ==
  \A i \in Ingesters : ing[i].pc \in {"epochs", "score"} =>
    \A d \in BatchDays(i) :
      aggregates[BatchUser(i)][d] =
        {r \in StoredRecords : Owner[r] = BatchUser(i) /\ OccurredOn[r] = d}

(* While a user's batches come one after the other, a batch that gets past *)
(* its aggregates has each of its days count exactly the events of that    *)
(* day, whatever replayed or overlapping batches came before it and        *)
(* wherever they died, between the delete and the rewrite or before the    *)
(* proofs.  Batches of one user that overlap in time lose counts.          *)
BatchCountsItsDays == []SerialUploads => []CountedWhole

(* Settlement is what RewardLedger promises. *)
Ledger == INSTANCE RewardLedger WITH
  Units <- Records, Epochs <- Days, Undecided <- Undecided,
  decided <- [d \in Days |->
                IF Settled(d) THEN epochs[d].network ELSE Undecided],
  granted <- allocations, credited <- ledger

ImplementsRewardLedger == Ledger!Spec

-----------------------------------------------------------------------------
(* What the comments of the code say, and interleavings or crashes break.  *)

(* finalizeEpoch: after finalizing, late proofs carry forward instead of   *)
(* disappearing into a settled epoch.  So an earning event of a settled    *)
(* epoch is one its settlement counted.                                    *)
LateProofsCarryForward ==
  \A r \in StoredRecords :
    Settled(events[r].epoch) /\ Earns(events[r])
    => r \in epochs[events[r].epoch].network[Owner[r]]

(* The epoch lifecycle: SETTLED means the ledger has been credited.  Once  *)
(* no run is working on a settled epoch, every participant has its row.    *)
SettledMeansCredited ==
  \A d \in Days :
    Settled(d) /\ (\A s \in Settlers : run[s].pc = "idle" \/ run[s].day # d)
    => \A u \in Participants(epochs[d].network) : allocations[d][u] # {}

-----------------------------------------------------------------------------
(* Progress.  A run that started goes on to its end (the platform runs an  *)
(* invocation once started), midnight comes, and every night of the        *)
(* look-back starts a run for every finished day.                          *)
Fairness ==
  /\ WF_vars(Midnight)
  /\ \A i \in Ingesters : WF_vars(Ingest(i) /\ ~At(i, "idle"))
  /\ \A p \in Uploads : WF_vars(Upload(p) /\ ~IsIdle(p))
  /\ \A s \in Settlers :
       /\ WF_vars(Settle(s) /\ ~RunAt(s, "idle"))
       /\ \A d \in Days : SF_vars(Settle(s) /\ d < today /\ BeginSettle(s, d))

FairSpec == Spec /\ Fairness

(* Nothing the beta function would refuse the epoch for: every unit is     *)
(* priced, unique and waiting, no ledger row is there, and the stored      *)
(* scores are the sums of the events.  The fixed path refuses nothing.     *)
Settleable(d) ==
  Protocol(d) = "mining-beta-v2" =>
    /\ UnsettleableUnits(d) = {} /\ ~DuplicateKeysIn(d)
    /\ Participants(ledger[d]) = {}
    /\ \A u \in Participants(RecomputedNetwork(d)) :
         scores[u][d] = RecomputedNetwork(d)[u]

(* A refused or missed night is picked up later: no finished day stays     *)
(* unsettled while there is nothing its settlement would refuse it for,    *)
(* whatever nights were refused, missed or died before.                    *)
FinishedDaySettles ==
  \A d \in Days \ CalibrationDays :
    []<>(Settled(d) \/ ~(d < today /\ Settleable(d)))

(* What route.ts says of it without that condition.  A score overwritten   *)
(* by a slower invocation or lost with a killed one refuses the epoch on   *)
(* every later night, until its user happens to upload again.              *)
EveryDaySettles ==
  \A d \in Days : d < today /\ d \notin CalibrationDays ~> Settled(d)
=============================================================================
