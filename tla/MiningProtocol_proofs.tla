------------------------- MODULE MiningProtocol_proofs -------------------------
(***************************************************************************)
(* Theorems about MiningProtocol for every number of users, records, days  *)
(* and processes: types, what settlement writes, and what is rewarded.     *)
(***************************************************************************)
EXTENDS MiningProtocol, NaturalsInduction, WellFoundedInduction, TLAPS

(***************************************************************************)
(* Types                                                                   *)
(***************************************************************************)

LEMMA NetworkType ==
  ASSUME TypeOK, NEW d \in Days
  PROVE  StoredNetwork(d) \in UnitsByUser /\ RecomputedNetwork(d) \in UnitsByUser
BY DEF TypeOK, TablesTypeOK, StoredNetwork, RecomputedNetwork, StoredRecords,
       UnitsByUser

LEMMA RowType ==
  ASSUME NEW r \in Records, NEW d \in Days, NEW F
  PROVE  RowToInsert(r, d, F) \in EventRow
BY Zenon DEF RowToInsert, EventRow, DedupeStatus, CarriedAcrossPricing, IsDuplicate

(* assignEpoch answers with a day of the calendar: the first open one.     *)
LEMMA AssignEpochType ==
  ASSUME TypeOK, NEW r \in Records, Assignable(r)
  PROVE  AssignEpoch(r) \in Days
<1>1. CASE ~Closed(OccurredOn[r])
  BY <1>1, TablesAssumption DEF AssignEpoch
<1>2. CASE Closed(OccurredOn[r])
  <2>. DEFINE O == OpenFrom(today)
  <2>1. O \subseteq Nat /\ O # {} /\ O \subseteq Days
    BY <1>2, TablesAssumption DEF Assignable, OpenFrom, Days
  <2>. DEFINE Less == {p \in Nat \X Nat : p[1] < p[2]}
  <2>2. IsWellFoundedOn(Less, Nat)
    BY NatLessThanWellFounded, Zenon DEF OpToRel
  <2>. HIDE DEF Less, O
  <2>3. PICK d \in O : \A e \in O : ~(<<e, d>> \in Less)
    BY <2>1, <2>2, WFMin, Zenon
  <2>5. \A e \in O : d <= e
    <3>. SUFFICES ASSUME NEW e \in O PROVE ~(e < d)
      BY <2>1
    <3>1. <<e, d>> \in Nat \X Nat /\ <<e, d>>[1] = e /\ <<e, d>>[2] = d
      BY <2>1
    <3>. QED  BY <2>3, <3>1, Zenon DEF Less
  <2>4. AssignEpoch(r) \in O
    BY <1>2, <2>5, Zenon DEF AssignEpoch, O
  <2>. QED  BY <2>1, <2>4
<1>. QED  BY <1>1, <1>2

LEMMA IngestType ==
  ASSUME TypeOK, NEW i \in Ingesters, Ingest(i)
  PROVE  TypeOK'
<1>. USE DEF TypeOK
<1>1. SUFFICES TablesTypeOK' /\ IngestTypeOK'
  BY <1>1 DEF Ingest, SettleTypeOK, TelemetryTypeOK, telemetryVars
<1>2. /\ rewardTables' = rewardTables
      /\ today' = today
      /\ IngestStep(i)
  BY DEF Ingest
<1>3. ing[i] \in Job /\ IdleJob \in Job /\ NoRows \in [Records -> EventRow \cup {NoEvent}]
  BY TablesAssumption DEF IngestTypeOK, IdleJob, Job, NoRows, IngestPc
<1>4. CASE StartIngest(i)
  <2>1. PICK u \in Users, B \in SUBSET Records :
          /\ \A r \in B : Assignable(r)
          /\ ing' = [ing EXCEPT ![i] =
               [IdleJob EXCEPT !.pc = "dedupe", !.batch = B,
                  !.target = [r \in Records |->
                    IF r \in B THEN AssignEpoch(r) ELSE OccurredOn[r]]]]
    BY <1>4, Zenon DEF StartIngest
  <2>. DEFINE t == [r \in Records |->
                     IF r \in B THEN AssignEpoch(r) ELSE OccurredOn[r]]
  <2>2. t \in [Records -> Days]
    BY <2>1, AssignEpochType, TablesAssumption
  <2>. HIDE DEF t
  <2>3. [IdleJob EXCEPT !.pc = "dedupe", !.batch = B, !.target = t] \in Job
    BY <2>2, <1>3 DEF Job, IngestPc
  <2>4. IngestTypeOK'
    BY <2>1, <2>3 DEF IngestTypeOK, t
  <2>. QED  BY <2>4, <1>2, <1>4 DEF StartIngest, TablesTypeOK, ingestTables, rewardTables
<1>5. CASE LoadKeys(i)
  <2>1. PICK F : ing' = [ing EXCEPT
           ![i].pc = "insert",
           ![i].todo = ing[i].batch,
           ![i].rows = [r \in Records |->
              IF r \in ing[i].batch
              THEN RowToInsert(r, ing[i].target[r], F)
              ELSE NoEvent]]
    BY <1>5 DEF LoadKeys
  <2>. DEFINE rows == [r \in Records |-> IF r \in ing[i].batch
              THEN RowToInsert(r, ing[i].target[r], F) ELSE NoEvent]
  <2>2. rows \in [Records -> EventRow \cup {NoEvent}]
    BY <1>3, RowType DEF Job
  <2>. HIDE DEF rows
  <2>3. ing' = [ing EXCEPT ![i].pc = "insert", ![i].todo = ing[i].batch, ![i].rows = rows]
    BY <2>1 DEF rows
  <2>4. IngestTypeOK'
    BY <2>2, <2>3, <1>3 DEF IngestTypeOK, Job, IngestPc
  <2>. QED  BY <2>4, <1>2, <1>5 DEF LoadKeys, TablesTypeOK, ingestTables, rewardTables
<1>6. CASE InsertEvents(i)
  <2>1. PICK chunk \in SUBSET ing[i].todo :
          \/ /\ events' = WithInserted(i, chunk)
             /\ ing' = [ing EXCEPT
                    ![i].fresh = @ \cup {r \in chunk : ~Stored(r)},
                    ![i].todo = @ \ chunk,
                    ![i].pc = IF ing[i].todo = chunk THEN "proofs" ELSE @]
          \/ Return(i) /\ UNCHANGED events
    BY <1>6 DEF InsertEvents
  <2>2. WithInserted(i, chunk) \in [Records -> EventRow \cup {NoEvent}]
    BY <1>3 DEF WithInserted, Job, TablesTypeOK
  <2>3. events' \in [Records -> EventRow \cup {NoEvent}]
    BY <2>1, <2>2 DEF TablesTypeOK
  <2>. DEFINE new == {r \in chunk : ~Stored(r)}
               next == IF ing[i].todo = chunk THEN "proofs" ELSE ing[i].pc
  <2>5. new \in SUBSET Records /\ next \in IngestPc
    BY <1>3 DEF Job, IngestPc
  <2>6. \/ ing' = [ing EXCEPT ![i].fresh = @ \cup new,
                             ![i].todo = @ \ chunk, ![i].pc = next]
        \/ Return(i)
    BY <2>1
  <2>. HIDE DEF new, next
  <2>4. IngestTypeOK'
    <3>. DEFINE job == [ing[i] EXCEPT !.fresh = @ \cup new,
                                      !.todo = @ \ chunk, !.pc = next]
    <3>1. job \in Job
      BY <2>5, <1>3 DEF Job
    <3>2. ing' = [ing EXCEPT ![i] = job] \/ ing' = [ing EXCEPT ![i] = IdleJob]
      BY <2>6, <1>3 DEF Return, Job
    <3>. QED  BY <3>1, <3>2, <1>3 DEF IngestTypeOK
  <2>. QED  BY <2>3, <2>4, <1>2, <1>6 DEF InsertEvents, TablesTypeOK, rewardTables
<1>7. CASE InsertProofs(i)
  <2>1. IngestTypeOK'
    BY <1>7, <1>3 DEF InsertProofs, IngestTypeOK, Job, IngestPc
  <2>. QED  BY <2>1, <1>2, <1>3, <1>7 DEF InsertProofs, TablesTypeOK, rewardTables, Job
<1>8. CASE LoadEventsForDays(i)
  <2>1. IngestTypeOK'
    BY <1>8, <1>3 DEF LoadEventsForDays, IngestTypeOK, Job, IngestPc, StoredRecords
  <2>. QED  BY <2>1, <1>2, <1>8 DEF LoadEventsForDays, TablesTypeOK, ingestTables, rewardTables
<1>9. CASE ReplaceDailyAggregates(i)
  <2>1. IngestTypeOK'
    BY <1>9, <1>3 DEF ReplaceDailyAggregates, IngestTypeOK, Job, IngestPc
  <2>2. aggregates' \in [Users -> [Days -> SUBSET Records]]
    BY <1>9 DEF ReplaceDailyAggregates, TablesTypeOK
  <2>. QED  BY <2>1, <2>2, <1>2, <1>9 DEF ReplaceDailyAggregates, TablesTypeOK, rewardTables
<1>10. CASE UpsertDailyAggregates(i)
  <2>1. IngestTypeOK'
    BY <1>10, <1>3 DEF UpsertDailyAggregates, IngestTypeOK, Job, IngestPc
  <2>2. aggregates' \in [Users -> [Days -> SUBSET Records]]
    BY ZenonT(60), <1>10, <1>3 DEF UpsertDailyAggregates, TablesTypeOK, Job
  <2>. QED  BY <2>1, <2>2, <1>2, <1>10 DEF UpsertDailyAggregates, TablesTypeOK, rewardTables
<1>11. CASE LoadEventsForEpochs(i)
  <2>1. IngestTypeOK'
    BY <1>11, <1>3 DEF LoadEventsForEpochs, IngestTypeOK, Job, IngestPc, StoredRecords
  <2>. QED  BY <2>1, <1>2, <1>11 DEF LoadEventsForEpochs, TablesTypeOK, ingestTables, rewardTables
<1>12. CASE UpsertScores(i)
  <2>1. IngestTypeOK'
    BY <1>12, <1>3 DEF UpsertScores, Return, IngestTypeOK
  <2>2. scores' \in [Users -> [Days -> (SUBSET Records) \cup {NoScore}]]
    <3>. DEFINE u == BatchUser(i)
                row == [d \in Days |->
                  IF d \in BatchEpochs(i)
                  THEN {r \in ing[i].view : events[r].epoch = d}
                  ELSE scores[u][d]]
    <3>1. scores' = scores \/ scores' = [scores EXCEPT ![u] = row]
      BY <1>12 DEF UpsertScores
    <3>2. u \in Users => row \in [Days -> (SUBSET Records) \cup {NoScore}]
      BY <1>3 DEF TablesTypeOK, Job
    <3>. HIDE DEF u, row
    <3>. QED  BY <3>1, <3>2 DEF TablesTypeOK
  <2>. QED  BY <2>1, <2>2, <1>2, <1>12 DEF UpsertScores, TablesTypeOK, rewardTables
<1>. QED
  BY <1>2, <1>4, <1>5, <1>6, <1>7, <1>8, <1>9, <1>10, <1>11, <1>12 DEF IngestStep

LEMMA PayableType ==
  ASSUME NEW n \in UnitsByUser, NEW paid, NEW rows \in UnitsByUser
  PROVE  /\ Payable(n, paid) \in UnitsByUser
         /\ InsertIgnore(rows, n) \in UnitsByUser
BY DEF Payable, InsertIgnore, UnitsByUser

(* Every settlement step moves at most its own run.                        *)
LEMMA RunType ==
  ASSUME SettleTypeOK, NEW s \in Settlers, NEW job \in Run,
         run' = [run EXCEPT ![s] = job]
  PROVE  SettleTypeOK'
BY DEF SettleTypeOK

LEMMA RunMoves ==
  ASSUME SettleTypeOK, NEW s \in Settlers
  PROVE  /\ IdleRun \in Run
         /\ Finish(s) => SettleTypeOK'
         /\ \A pc \in SettlePc : Goto(s, pc) => SettleTypeOK'
         /\ \A pc \in SettlePc, n \in UnitsByUser :
              run' = [run EXCEPT ![s].pc = pc, ![s].network = n] => SettleTypeOK'
         /\ \A pc \in SettlePc, l \in [Days -> UnitsByUser] :
              run' = [run EXCEPT ![s].pc = pc, ![s].before = l] => SettleTypeOK'
<1>1. IdleRun \in Run
  BY TablesAssumption DEF IdleRun, Run, SettlePc, Days, NoLedger, Nobody, UnitsByUser
<1>2. run[s] \in Run
  BY DEF SettleTypeOK
<1>3. Finish(s) => SettleTypeOK'
  BY <1>1 DEF SettleTypeOK, Finish
<1>4. \A pc \in SettlePc : Goto(s, pc) => SettleTypeOK'
  BY <1>2 DEF SettleTypeOK, Goto, Run
<1>7. ASSUME NEW pc \in SettlePc, NEW n \in UnitsByUser,
             run' = [run EXCEPT ![s].pc = pc, ![s].network = n]
      PROVE  SettleTypeOK'
  <2>1. [run[s] EXCEPT !.pc = pc, !.network = n] \in Run
    BY <1>2 DEF Run
  <2>2. run' = [run EXCEPT ![s] = [run[s] EXCEPT !.pc = pc, !.network = n]]
    BY <1>7 DEF SettleTypeOK
  <2>. QED  BY <2>1, <2>2, RunType
<1>8. ASSUME NEW pc \in SettlePc, NEW l \in [Days -> UnitsByUser],
             run' = [run EXCEPT ![s].pc = pc, ![s].before = l]
      PROVE  SettleTypeOK'
  <2>1. [run[s] EXCEPT !.pc = pc, !.before = l] \in Run
    BY <1>2 DEF Run
  <2>2. run' = [run EXCEPT ![s] = [run[s] EXCEPT !.pc = pc, !.before = l]]
    BY <1>8 DEF SettleTypeOK
  <2>. QED  BY <2>1, <2>2, RunType
<1>. QED
  BY <1>1, <1>3, <1>4, <1>7, <1>8

LEMMA DispatchType ==
  ASSUME TypeOK, NEW s \in Settlers, DispatchStep(s)
  PROVE  SettleTypeOK' /\ events' = events /\ rewardTables' = rewardTables
<1>. USE DEF TypeOK
<1>1. ASSUME NEW d \in Days, BeginSettle(s, d)
      PROVE  SettleTypeOK' /\ events' = events /\ rewardTables' = rewardTables
  <2>1. [IdleRun EXCEPT !.pc = "check", !.day = d] \in Run
    BY RunMoves DEF Run, SettlePc
  <2>. QED  BY <1>1, <2>1, RunType DEF BeginSettle
<1>2. CASE CheckExisting(s)
  BY <1>2, RunMoves DEF CheckExisting, SettlePc, FixedPoolPc
<1>. QED  BY <1>1, <1>2 DEF DispatchStep

LEMMA FixedPoolType ==
  ASSUME TypeOK, NEW s \in Settlers, FixedPoolStep(s)
  PROVE  SettleTypeOK' /\ events' \in [Records -> EventRow \cup {NoEvent}]
         /\ epochs' \in [Days -> EpochRow]
         /\ allocations' \in [Days -> UnitsByUser]
         /\ ledger' \in [Days -> UnitsByUser]
<1>. USE DEF TypeOK, TablesTypeOK, rewardTables, SettlePc, FixedPoolPc
<1>1. run[s] \in Run
  BY DEF SettleTypeOK
<1>2. run[s].day \in Days /\ run[s].network \in UnitsByUser
  BY <1>1 DEF Run
<1>3. CASE FinalizeLoadState(s)
  BY <1>3, RunMoves DEF FinalizeLoadState
<1>. DEFINE Rest == /\ SettleTypeOK'
                    /\ epochs' \in [Days -> EpochRow]
                    /\ UNCHANGED <<events, allocations, ledger>>
<1>12. ASSUME NEW from, NEW state \in EpochState, NEW to \in SettlePc,
              UpsertEpoch(s, from, state, to)
       PROVE  Rest
  <2>1. SettleTypeOK'
    BY <1>12, RunMoves DEF UpsertEpoch
  <2>2. epochs' \in [Days -> EpochRow]
    BY <1>12, <1>2 DEF UpsertEpoch, EpochRow
  <2>. QED  BY <2>1, <2>2, <1>12 DEF UpsertEpoch
<1>13. ASSUME NEW from, NEW to \in SettlePc, LoadEpochScores(s, from, to)
       PROVE  Rest
  BY <1>13, <1>2, RunMoves, NetworkType DEF LoadEpochScores
<1>5. CASE UpsertFinalizing(s)
  BY <1>5, <1>12 DEF UpsertFinalizing, EpochState
<1>6. CASE SettleLoadState(s)
  BY <1>6, RunMoves DEF SettleLoadState
<1>4. CASE FinalizeLoadScores(s)
  BY <1>4, <1>13 DEF FinalizeLoadScores
<1>7. CASE SettleLoadScores(s)
  BY <1>7, <1>13 DEF SettleLoadScores
<1>8. CASE UpsertSettled(s)
  BY <1>8, <1>12 DEF UpsertSettled, EpochState
<1>9. CASE CreditAllocations(s)
  <2>1. SettleTypeOK'
    BY <1>9, RunMoves DEF CreditAllocations
  <2>2. InsertIgnore(allocations[run[s].day], run[s].network) \in UnitsByUser
    BY <1>2, PayableType
  <2>3. allocations' \in [Days -> UnitsByUser]
    BY <1>9, <2>2 DEF CreditAllocations
  <2>. QED  BY <2>1, <2>3, <1>9 DEF CreditAllocations
<1>10. CASE CreditLedger(s)
  <2>1. SettleTypeOK'
    BY <1>10, RunMoves DEF CreditLedger
  <2>2. PICK paid : ledger' = [ledger EXCEPT ![run[s].day] =
                      InsertIgnore(@, Payable(run[s].network, paid))]
    BY <1>10 DEF CreditLedger
  <2>3. ledger' \in [Days -> UnitsByUser]
    BY <2>2, <1>2, PayableType
  <2>. QED  BY <2>1, <2>3, <1>10 DEF CreditLedger
<1>11. CASE MarkSettled(s)
  <2>1. \A r \in Records : events'[r] \in EventRow \cup {NoEvent}
    BY <1>11 DEF MarkSettled, EventRow, Stored
  <2>2. events' \in [Records -> EventRow \cup {NoEvent}]
    BY <1>11, <2>1 DEF MarkSettled
  <2>. QED  BY <2>2, <1>11, RunMoves DEF MarkSettled
<1>. QED
  BY <1>3, <1>4, <1>5, <1>6, <1>7, <1>8, <1>9, <1>10, <1>11 DEF FixedPoolStep

LEMMA BetaType ==
  ASSUME TypeOK, NEW s \in Settlers, BetaStep(s)
  PROVE  SettleTypeOK' /\ events' \in [Records -> EventRow \cup {NoEvent}]
         /\ epochs' \in [Days -> EpochRow]
         /\ allocations' \in [Days -> UnitsByUser]
         /\ ledger' \in [Days -> UnitsByUser]
<1>. USE DEF TypeOK, TablesTypeOK, rewardTables, SettlePc, BetaPc
<1>1. run[s] \in Run
  BY DEF SettleTypeOK
<1>2. run[s].day \in Days /\ run[s].network \in UnitsByUser
  BY <1>1 DEF Run
<1>3. CASE TakeLock(s)
  BY <1>3, RunMoves DEF TakeLock
<1>4. CASE CheckUnits(s)
  BY <1>4, RunMoves DEF CheckUnits
<1>5. CASE CountParticipants(s)
  BY <1>5, <1>2, RunMoves, NetworkType DEF CountParticipants
<1>6. CASE CompareScores(s)
  BY <1>6, RunMoves DEF CompareScores
<1>7. CASE CommitSettlement(s)
  <2>1. SettleTypeOK'
    BY <1>7, RunMoves DEF CommitSettlement
  <2>2. CASE UNCHANGED <<events, rewardTables>>
    BY <2>1, <2>2
  <2>3. CASE Commitable(s)
    <3>. DEFINE marked == {r \in Records : r \in RecomputedNetwork(run[s].day)[Owner[r]]}
    <3>1. \A r \in marked : [events[r] EXCEPT !.econ = "settled"] \in EventRow
      <4>1. \A r \in marked : Stored(r) /\ r \in Records
        BY TablesAssumption DEF RecomputedNetwork, StoredRecords
      <4>. QED  BY <4>1 DEF Stored, EventRow
    <3>5. events' = [r \in Records |-> IF r \in marked
                      THEN [events[r] EXCEPT !.econ = "settled"] ELSE events[r]]
      BY <1>7, <2>3 DEF CommitSettlement
    <3>. HIDE DEF marked
    <3>2. events' \in [Records -> EventRow \cup {NoEvent}]
      BY <3>1, <3>5
    <3>6. [state |-> "settled", network |-> run[s].network] \in EpochRow
      BY <1>2 DEF EpochRow, EpochState
    <3>7. epochs' \in [Days -> EpochRow] /\ allocations' \in [Days -> UnitsByUser]
      BY ZenonT(60), <1>7, <2>3, <3>6, <1>2 DEF CommitSettlement
    <3>3. PICK paid : ledger' = [ledger EXCEPT ![run[s].day] =
                                   Payable(run[s].network, paid)]
      BY <1>7, <2>3 DEF CommitSettlement
    <3>4. ledger' \in [Days -> UnitsByUser]
      BY <3>3, <1>2, PayableType
    <3>. QED
      BY <2>1, <3>2, <3>4, <3>7
  <2>. QED  BY <2>2, <2>3, <1>7 DEF CommitSettlement
<1>. QED  BY <1>3, <1>4, <1>5, <1>6, <1>7 DEF BetaStep

LEMMA SettleType ==
  ASSUME TypeOK, NEW s \in Settlers, Settle(s)
  PROVE  TypeOK'
BY DispatchType, FixedPoolType, BetaType
DEF Settle, TypeOK, TablesTypeOK, IngestTypeOK, TelemetryTypeOK, telemetryVars,
    rewardTables

LEMMA CloseType ==
  ASSUME TypeOK, CloseByOwner
  PROVE  TypeOK'
<1>. USE DEF TypeOK, TablesTypeOK
<1>1. PICK d \in CalibrationDays : CloseCalibration(d)
  BY DEF CloseByOwner
<1>2. d \in Days /\ Approved[d] \in Records
  BY SettleAssumption, ApprovedAssumption
<1>3. epochs' \in [Days -> EpochRow]
  <2>1. [state |-> "settled", network |-> ApprovedNetwork(d)] \in EpochRow
    BY <1>2 DEF ApprovedNetwork, EpochRow, EpochState, UnitsByUser
  <2>. QED  BY <1>1, <1>2, <2>1 DEF CloseCalibration
<1>4. events' \in [Records -> EventRow \cup {NoEvent}]
  <2>1. events[Approved[d]] \in EventRow
    BY <1>1, <1>2 DEF CloseCalibration, ApprovedAsShown, Stored
  <2>2. [events[Approved[d]] EXCEPT !.econ = "settled"] \in EventRow
    BY <2>1 DEF EventRow
  <2>. QED  BY <1>1, <2>2 DEF CloseCalibration
<1>. QED
  BY <1>1, <1>3, <1>4
  DEF CloseByOwner, CloseCalibration, IngestTypeOK, SettleTypeOK, TelemetryTypeOK,
      telemetryVars

LEMMA UploadType ==
  ASSUME TypeOK, NEW p \in Uploads, Upload(p)
  PROVE  TypeOK'
<1>. USE DEF TypeOK
<1>1. upload[p] \in UploadState
  BY DEF TelemetryTypeOK
<1>2. Done(p) => upload' \in [Uploads -> UploadState]
  <2>1. [upload[p] EXCEPT !.pc = "idle", !.conflict = FALSE] \in UploadState
    BY <1>1 DEF UploadState
  <2>. QED  BY <2>1 DEF Done, TelemetryTypeOK
<1>3. CASE Correlate(p)
  <2>1. upload' \in [Uploads -> UploadState]
    BY <1>3, TelemetryAssumption DEF Correlate, TelemetryTypeOK, UploadState
  <2>. QED
    BY <2>1, <1>3 DEF Correlate, Upload, TablesTypeOK, rewardTables, IngestTypeOK,
      SettleTypeOK, TelemetryTypeOK
<1>4. CASE StoreObservation(p)
  <2>1. upload' \in [Uploads -> UploadState]
    BY <1>4, <1>1, <1>2 DEF StoreObservation, TelemetryTypeOK, UploadState
  <2>2. observations' \subseteq Records
    BY <1>4, <1>1 DEF StoreObservation, TelemetryTypeOK, UploadState
  <2>. QED
    BY <2>1, <2>2, <1>4 DEF StoreObservation, Upload, TablesTypeOK, rewardTables,
      IngestTypeOK, SettleTypeOK, TelemetryTypeOK
<1>5. CASE HoldReward(p)
  <2>1. \A r \in Records :
          Stored(r) => [events[r] EXCEPT !.dedupe = "conflict", !.hold = TRUE] \in EventRow
    BY DEF TablesTypeOK, EventRow, Stored, DedupeStatus
  <2>2. events' \in [Records -> EventRow \cup {NoEvent}]
    BY <2>1, <1>5, <1>1 DEF HoldReward, TablesTypeOK, EventWritable, UploadState
  <2>. QED
    BY <2>2, <1>2, <1>5 DEF HoldReward, Upload, TablesTypeOK, rewardTables,
      IngestTypeOK, SettleTypeOK, TelemetryTypeOK
<1>. QED  BY <1>3, <1>4, <1>5 DEF Upload, UploadStep

LEMMA CrashType ==
  ASSUME TypeOK, Crash
  PROVE  TypeOK'
<1>. USE DEF TypeOK
<1>1. crashes' \in 0 .. MaxCrashes
  BY ProtocolAssumption DEF Crash
<1>2. TablesTypeOK'
  BY DEF Crash, CrashIngest, CrashSettle, CrashUpload, TablesTypeOK, ingestTables,
    rewardTables
<1>3. IngestTypeOK'
  <2>1. IdleJob \in Job
    BY TablesAssumption DEF IdleJob, Job, NoRows, IngestPc
  <2>. QED  BY <2>1 DEF Crash, CrashIngest, Return, IngestTypeOK
<1>4. SettleTypeOK'
  BY RunMoves DEF Crash, CrashSettle, SettleTypeOK
<1>5. TelemetryTypeOK'
  <2>1. ASSUME NEW p \in Uploads, Done(p) PROVE upload' \in [Uploads -> UploadState]
    <3>1. [upload[p] EXCEPT !.pc = "idle", !.conflict = FALSE] \in UploadState
      BY DEF UploadState, TelemetryTypeOK
    <3>. QED  BY <2>1, <3>1 DEF Done, TelemetryTypeOK
  <2>. QED  BY <2>1 DEF Crash, CrashUpload, TelemetryTypeOK, telemetryVars
<1>. QED  BY <1>1, <1>2, <1>3, <1>4, <1>5

LEMMA InitType == Init => TypeOK
<1>. SUFFICES ASSUME Init PROVE TypeOK
  OBVIOUS
<1>1. 1 \in Days
  BY TablesAssumption DEF Days
<1>2. TablesTypeOK
  BY <1>1, TablesAssumption
  DEF Init, TablesInit, TablesTypeOK, EpochRow, EpochState, Nobody, UnitsByUser
<1>3. IngestTypeOK
  BY TablesAssumption DEF Init, IngestInit, IngestTypeOK, IdleJob, Job, NoRows, IngestPc
<1>4. SettleTypeOK
  BY <1>1 DEF Init, SettleInit, SettleTypeOK, IdleRun, Run, SettlePc, NoLedger, Nobody,
    UnitsByUser
<1>5. TelemetryTypeOK
  BY TelemetryAssumption DEF Init, TelemetryInit, TelemetryTypeOK, UploadState
<1>. QED
  BY <1>2, <1>3, <1>4, <1>5, ProtocolAssumption DEF Init, TypeOK

LEMMA StutterType == TypeOK /\ UNCHANGED vars => TypeOK'
BY DEF TypeOK, vars, ingestTables, rewardTables, telemetryVars, TablesTypeOK,
   IngestTypeOK, SettleTypeOK, TelemetryTypeOK

LEMMA MidnightType == TypeOK /\ Midnight => TypeOK'
BY TablesAssumption
DEF TypeOK, Midnight, NextDay, Days, ingestTables, rewardTables, telemetryVars,
    TablesTypeOK, IngestTypeOK, SettleTypeOK, TelemetryTypeOK

LEMMA NextType == TypeOK /\ [Next]_vars => TypeOK'
BY IngestType, SettleType, CloseType, UploadType, MidnightType, CrashType, StutterType
DEF Next

(* Every table and every process keeps its type: an epoch assigned to a    *)
(* record is a day of the calendar, a refused request leaves a well-formed *)
(* process behind, and no row ever holds anything but what its columns may.*)
THEOREM TypeCorrect == Spec => []TypeOK
BY InitType, NextType, PTL DEF Spec

(***************************************************************************)
(* What settlement writes follows from one decision, and settled history   *)
(* does not move.                                                          *)
(*                                                                         *)
(* LedgerFollowsDecision is not inductive: it says nothing of a run that   *)
(* has marked its epoch settled and still holds, in its memory, the scores *)
(* it will credit.  The strengthening says what such a run knows: its      *)
(* epoch is settled and was settled from those very scores, so no other    *)
(* run's scores can be credited under it.                                  *)
(***************************************************************************)

Crediting(s) == run[s].pc \in {"s_allocate", "s_ledger", "s_events"}

RunsFollowDecision ==
  \A s \in Settlers : Crediting(s) =>
    /\ Settled(run[s].day)
    /\ epochs[run[s].day].network = run[s].network

(* Past the first request, every participant has an allocation.            *)
AllocatedFirst ==
  \A s \in Settlers : run[s].pc \in {"s_ledger", "s_events"} =>
    \A u \in Participants(run[s].network) : allocations[run[s].day][u] # {}

DecisionInv ==
  TypeOK /\ LedgerFollowsDecision /\ RunsFollowDecision /\ AllocatedFirst

LEMMA InitDecision == Init => DecisionInv
BY InitType, TablesAssumption
DEF Init, TablesInit, SettleInit, IdleRun, Nobody, DecisionInv, LedgerFollowsDecision,
    RunsFollowDecision, AllocatedFirst, Crediting

(* A step that writes no reward table, and after which every run is as it  *)
(* was or is not crediting, disturbs nothing.                              *)
LEMMA QuietStep ==
  ASSUME DecisionInv, TypeOK', rewardTables' = rewardTables,
         \A t \in Settlers : run'[t] = run[t] \/ ~Crediting(t)'
  PROVE  DecisionInv'
BY DEF DecisionInv, rewardTables, LedgerFollowsDecision, RunsFollowDecision,
       AllocatedFirst, Crediting, Settled, Participants

(* A run that ends, or moves on to a step before crediting.                *)
LEMMA RunAway ==
  ASSUME TypeOK, NEW s \in Settlers,
         \/ Finish(s)
         \/ \E pc \in SettlePc \ {"s_allocate", "s_ledger", "s_events"} :
              \/ Goto(s, pc)
              \/ \E n \in UnitsByUser :
                   run' = [run EXCEPT ![s].pc = pc, ![s].network = n]
              \/ \E l \in [Days -> UnitsByUser] :
                   run' = [run EXCEPT ![s].pc = pc, ![s].before = l]
  PROVE  \A t \in Settlers : run'[t] = run[t] \/ ~Crediting(t)'
<1>. DEFINE away == SettlePc \ {"s_allocate", "s_ledger", "s_events"}
<1>. USE DEF TypeOK, SettleTypeOK
<1>1. run[s] \in Run
  OBVIOUS
<1>2. \A t \in Settlers \ {s} : run'[t] = run[t]
  BY DEF Finish, Goto
<1>3. run'[s].pc \in away \cup {"idle"}
  <2>1. CASE Finish(s)
    BY <2>1 DEF Finish, IdleRun
  <2>2. ASSUME NEW pc \in away,
               \/ Goto(s, pc)
               \/ \E n \in UnitsByUser :
                    run' = [run EXCEPT ![s].pc = pc, ![s].network = n]
               \/ \E l \in [Days -> UnitsByUser] :
                    run' = [run EXCEPT ![s].pc = pc, ![s].before = l]
        PROVE  run'[s].pc = pc
    BY <2>2, <1>1, Z3 DEF Goto, Run
  <2>. QED  BY <2>1, <2>2
<1>. QED  BY <1>2, <1>3 DEF Crediting

(***************************************************************************)
(* The steps of settlement                                                 *)
(***************************************************************************)

LEMMA UpsertDecision ==
  ASSUME DecisionInv, TypeOK', NEW s \in Settlers,
         UpsertFinalizing(s) \/ UpsertSettled(s)
  PROVE  DecisionInv'
<1>. DEFINE d == run[s].day
<1>. USE DEF DecisionInv
<1>1. d \in Days /\ run[s] \in Run
  BY DEF TypeOK, SettleTypeOK, Run
<1>2. PICK state \in EpochState, to \in {"s_state", "s_allocate"} :
        /\ \E from : UpsertEpoch(s, from, state, to)
        /\ to = "s_allocate" => state = "settled"
  BY DEF UpsertFinalizing, UpsertSettled, EpochState
<1>3. CASE ~EpochWritable(d)
  <2>1. Finish(s) /\ rewardTables' = rewardTables
    BY <1>2, <1>3 DEF UpsertEpoch, rewardTables
  <2>. QED  BY <2>1, RunAway, QuietStep
<1>4. CASE EpochWritable(d)
  <2>1. /\ epochs' = [epochs EXCEPT ![d] = [state |-> state, network |-> run[s].network]]
        /\ run' = [run EXCEPT ![s].pc = to]
        /\ UNCHANGED <<allocations, ledger>>
    BY <1>2, <1>4 DEF UpsertEpoch, Goto
  <2>2. ~Settled(d)
    BY <1>4 DEF EpochWritable
  <2>3. \A e \in Days : Settled(e) => epochs'[e] = epochs[e] /\ e # d
    BY <2>1, <2>2, <1>1 DEF TypeOK, TablesTypeOK
  <2>4. LedgerFollowsDecision'
    BY <2>1, <2>3 DEF LedgerFollowsDecision, Settled
  <2>5. RunsFollowDecision'
    <3>1. ASSUME NEW t \in Settlers, t # s, Crediting(t)'
          PROVE  /\ epochs'[run'[t].day].state = "settled"
                 /\ epochs'[run'[t].day].network = run'[t].network
      <4>1. run'[t] = run[t] /\ run[t].day \in Days
        BY <2>1, <3>1 DEF TypeOK, SettleTypeOK, Run
      <4>2. Crediting(t)
        BY <4>1, <3>1 DEF Crediting
      <4>. QED  BY <4>1, <4>2, <2>3 DEF RunsFollowDecision, Settled
    <3>2. ASSUME Crediting(s)'
          PROVE  /\ epochs'[run'[s].day].state = "settled"
                 /\ epochs'[run'[s].day].network = run'[s].network
      <4>1. to = "s_allocate" /\ run'[s].day = d /\ run'[s].network = run[s].network
        BY <2>1, <3>2, <1>1 DEF Crediting, TypeOK, SettleTypeOK, Run
      <4>. QED  BY <4>1, <1>2, <2>1, <1>1 DEF Settled, TypeOK, TablesTypeOK
    <3>. QED  BY <3>1, <3>2 DEF RunsFollowDecision, Settled
  <2>6. AllocatedFirst'
    BY <2>1, <1>1 DEF AllocatedFirst, Participants, TypeOK, SettleTypeOK, Run
  <2>. QED  BY <2>4, <2>5, <2>6
<1>. QED  BY <1>3, <1>4

LEMMA AllocateDecision ==
  ASSUME DecisionInv, TypeOK', NEW s \in Settlers, CreditAllocations(s)
  PROVE  DecisionInv'
<1>. DEFINE d == run[s].day
            n == run[s].network
<1>. USE DEF DecisionInv
<1>1. d \in Days /\ n \in UnitsByUser /\ run[s] \in Run
  BY DEF TypeOK, SettleTypeOK, Run
<1>2. CASE Participants(n) = {}
  <2>1. Finish(s) /\ rewardTables' = rewardTables
    BY <1>2 DEF CreditAllocations, rewardTables
  <2>. QED  BY <2>1, RunAway, QuietStep
<1>3. CASE Participants(n) # {}
  <2>1. /\ allocations' = [allocations EXCEPT ![d] = InsertIgnore(@, n)]
        /\ run' = [run EXCEPT ![s].pc = "s_ledger"]
        /\ UNCHANGED <<epochs, ledger>>
    BY <1>3 DEF CreditAllocations, Goto
  <2>2. Settled(d) /\ epochs[d].network = n
    BY DEF CreditAllocations, RunAt, RunsFollowDecision, Crediting
  <2>3. \A e \in Days, u \in Users :
          /\ allocations[e][u] # {} => allocations'[e][u] = allocations[e][u]
          /\ allocations'[e][u] # allocations[e][u] =>
               e = d /\ allocations'[e][u] = n[u]
    BY <2>1, <1>1 DEF InsertIgnore, TypeOK, TablesTypeOK, UnitsByUser
  <2>4. LedgerFollowsDecision'
    BY <2>1, <2>2, <2>3 DEF LedgerFollowsDecision, Settled
  <2>5. RunsFollowDecision'
    BY <2>1, <2>2, <1>1 DEF RunsFollowDecision, Crediting, Settled, TypeOK, SettleTypeOK, Run
  <2>6. AllocatedFirst'
    <3>1. ASSUME NEW t \in Settlers, t # s
          PROVE  run'[t] = run[t] /\ run[t].day \in Days
      BY <2>1, <3>1 DEF TypeOK, SettleTypeOK, Run
    <3>2. run'[s].day = d /\ run'[s].network = n
      BY <2>1, <1>1 DEF TypeOK, SettleTypeOK, Run
    <3>3. \A u \in Participants(n) : allocations'[d][u] # {}
      BY <2>1, <1>1 DEF Participants, InsertIgnore, TypeOK, TablesTypeOK
    <3>. QED  BY <3>1, <3>2, <3>3, <2>3 DEF AllocatedFirst, Participants
  <2>. QED  BY <2>4, <2>5, <2>6
<1>. QED  BY <1>2, <1>3

LEMMA CreditDecision ==
  ASSUME DecisionInv, TypeOK', NEW s \in Settlers, CreditLedger(s)
  PROVE  DecisionInv'
<1>. DEFINE d == run[s].day
            n == run[s].network
<1>. USE DEF DecisionInv
<1>1. d \in Days /\ n \in UnitsByUser /\ run[s] \in Run
  BY DEF TypeOK, SettleTypeOK, Run
<1>2. PICK paid \in SUBSET Participants(n) :
        ledger' = [ledger EXCEPT ![d] = InsertIgnore(@, Payable(n, paid))]
  BY DEF CreditLedger
<1>3. run' = [run EXCEPT ![s].pc = "s_events"] /\ UNCHANGED <<epochs, allocations>>
  BY DEF CreditLedger, Goto
<1>4. /\ Settled(d) /\ epochs[d].network = n
      /\ \A u \in Participants(n) : allocations[d][u] = n[u]
  BY <1>1 DEF CreditLedger, RunAt, RunsFollowDecision, Crediting, AllocatedFirst,
              LedgerFollowsDecision, Participants
<1>5. \A e \in Days, u \in Users :
        ledger'[e][u] # ledger[e][u] =>
          e = d /\ u \in Participants(n) /\ ledger'[e][u] = n[u]
  BY <1>2, <1>1 DEF InsertIgnore, Payable, TypeOK, TablesTypeOK, UnitsByUser
<1>6. LedgerFollowsDecision'
  BY <1>3, <1>4, <1>5 DEF LedgerFollowsDecision, Settled
<1>7. \A t \in Settlers :
        /\ t # s => run'[t] = run[t]
        /\ run'[s].day = d /\ run'[s].network = n
  BY <1>1, <1>3 DEF TypeOK, SettleTypeOK, Run
<1>8. Crediting(s) /\ run[s].pc = "s_ledger"
  BY DEF CreditLedger, RunAt, Crediting
<1>9. RunsFollowDecision'
  BY <1>3, <1>4, <1>7 DEF RunsFollowDecision, Crediting, Settled
<1>10. AllocatedFirst'
  BY <1>3, <1>7, <1>8 DEF AllocatedFirst, Participants
<1>. QED  BY <1>6, <1>9, <1>10

LEMMA CommitDecision ==
  ASSUME DecisionInv, TypeOK', NEW s \in Settlers, CommitSettlement(s)
  PROVE  DecisionInv'
<1>. DEFINE d == run[s].day
            n == run[s].network
<1>. USE DEF DecisionInv
<1>1. d \in Days /\ n \in UnitsByUser /\ run[s] \in Run
  BY DEF TypeOK, SettleTypeOK, Run
<1>2. Finish(s)
  BY DEF CommitSettlement
<1>3. CASE ~Commitable(s)
  BY <1>2, <1>3, RunAway, QuietStep DEF CommitSettlement
<1>4. CASE Commitable(s)
  <2>1. /\ epochs' = [epochs EXCEPT ![d] = [state |-> "settled", network |-> n]]
        /\ allocations' = [allocations EXCEPT ![d] = n]
        /\ \E paid \in SUBSET Participants(n) :
             ledger' = [ledger EXCEPT ![d] = Payable(n, paid)]
    BY <1>4 DEF CommitSettlement
  <2>2. ~Settled(d)
    BY <1>4 DEF Commitable, EpochWritable
  <2>3. \A e \in Days : e # d => /\ epochs'[e] = epochs[e]
                                /\ allocations'[e] = allocations[e]
                                /\ ledger'[e] = ledger[e]
    BY <2>1 DEF TypeOK, TablesTypeOK
  <2>4. /\ epochs'[d] = [state |-> "settled", network |-> n]
        /\ allocations'[d] = n
        /\ \A u \in Users : ledger'[d][u] \in {{}, n[u]}
    BY <2>1, <1>1 DEF TypeOK, TablesTypeOK, Payable
  <2>5. LedgerFollowsDecision'
    BY <2>3, <2>4 DEF LedgerFollowsDecision, Settled
  <2>6. \A t \in Settlers : Crediting(t)' => run'[t] = run[t] /\ run[t].day \in Days
    BY <1>2, RunAway DEF TypeOK, SettleTypeOK, Run
  <2>7. \A t \in Settlers : Crediting(t)' => Crediting(t) /\ run[t].day # d
    BY <2>2, <2>6 DEF RunsFollowDecision, Crediting
  <2>8. RunsFollowDecision'
    BY <2>3, <2>6, <2>7 DEF RunsFollowDecision, Settled
  <2>9. AllocatedFirst'
    BY <2>3, <2>6, <2>7 DEF AllocatedFirst, Crediting, Participants
  <2>. QED  BY <2>5, <2>8, <2>9
<1>. QED  BY <1>3, <1>4

LEMMA SettleDecision ==
  ASSUME DecisionInv, TypeOK', NEW s \in Settlers, Settle(s)
  PROVE  DecisionInv'
<1>. DEFINE Quiet == /\ rewardTables' = rewardTables
                     /\ \A t \in Settlers : run'[t] = run[t] \/ ~Crediting(t)'
<1>. USE DEF SettlePc, FixedPoolPc, BetaPc
<1>1. TypeOK /\ run[s] \in Run /\ run[s].day \in Days
  BY DEF DecisionInv, TypeOK, SettleTypeOK, Run
<1>2. CASE DispatchStep(s)
  <2>1. ASSUME NEW d \in Days, BeginSettle(s, d) PROVE Quiet
    BY <2>1, <1>1 DEF BeginSettle, IdleRun, Crediting, TypeOK, SettleTypeOK, rewardTables
  <2>2. CheckExisting(s) => Quiet
    BY <1>1, RunAway DEF CheckExisting
  <2>. QED  BY <1>2, <2>1, <2>2, QuietStep DEF DispatchStep
<1>3. CASE FixedPoolStep(s)
  <2>1. FinalizeLoadState(s) \/ SettleLoadState(s) => Quiet
    BY <1>1, RunAway DEF FinalizeLoadState, SettleLoadState
  <2>2. FinalizeLoadScores(s) \/ SettleLoadScores(s) => Quiet
    BY <1>1, RunAway, NetworkType DEF FinalizeLoadScores, SettleLoadScores, LoadEpochScores
  <2>3. MarkSettled(s) => Quiet
    BY <1>1, RunAway DEF MarkSettled
  <2>. QED
    BY <1>3, <2>1, <2>2, <2>3, QuietStep, UpsertDecision, AllocateDecision, CreditDecision
    DEF FixedPoolStep
<1>4. CASE BetaStep(s)
  <2>1. TakeLock(s) \/ CheckUnits(s) => Quiet
    BY <1>1, RunAway DEF TakeLock, CheckUnits
  <2>2. CountParticipants(s) => Quiet
    BY <1>1, RunAway, NetworkType DEF CountParticipants
  <2>3. CompareScores(s) => Quiet
    <3>1. ledger \in [Days -> UnitsByUser]
      BY <1>1 DEF TypeOK, TablesTypeOK
    <3>. QED  BY <1>1, <3>1, RunAway DEF CompareScores
  <2>. QED  BY <1>4, <2>1, <2>2, <2>3, QuietStep, CommitDecision DEF BetaStep
<1>. QED  BY <1>2, <1>3, <1>4 DEF Settle

LEMMA CloseDecision ==
  ASSUME DecisionInv, TypeOK', CloseByOwner
  PROVE  DecisionInv'
<1>. USE DEF DecisionInv
<1>1. PICK d \in CalibrationDays : CloseCalibration(d)
  BY DEF CloseByOwner
<1>2. UNCHANGED <<allocations, ledger, run>>
  BY <1>1 DEF CloseByOwner, CloseCalibration
<1>3. ~Settled(d) /\ d \in Days
  BY <1>1, SettleAssumption DEF CloseCalibration
<1>4. \A e \in Days \ {d} : epochs'[e] = epochs[e]
  BY <1>1 DEF CloseCalibration, TypeOK, TablesTypeOK
<1>5. LedgerFollowsDecision'
  BY <1>2, <1>3, <1>4 DEF LedgerFollowsDecision, Settled
<1>6. \A s \in Settlers : Crediting(s) => run[s].day \in Days \ {d}
  BY <1>3 DEF RunsFollowDecision, TypeOK, SettleTypeOK, Run
<1>7. RunsFollowDecision'
  BY <1>2, <1>4, <1>6 DEF RunsFollowDecision, Crediting, Settled
<1>8. AllocatedFirst'
  BY <1>2 DEF AllocatedFirst, Participants
<1>. QED  BY <1>5, <1>7, <1>8

LEMMA OtherDecision ==
  ASSUME DecisionInv, TypeOK',
         \/ \E i \in Ingesters : Ingest(i)
         \/ \E p \in Uploads : Upload(p)
         \/ Midnight
         \/ Crash
         \/ UNCHANGED vars
  PROVE  DecisionInv'
<1>1. rewardTables' = rewardTables
  BY DEF Ingest, Upload, Midnight, NextDay, Crash, CrashSettle, rewardTables, vars
<1>2. CASE run' = run
  BY <1>1, <1>2, QuietStep
<1>3. ASSUME NEW s \in Settlers, CrashSettle(s) PROVE DecisionInv'
  BY <1>1, <1>3, RunAway, QuietStep DEF CrashSettle, DecisionInv
<1>. QED
  BY <1>2, <1>3 DEF Ingest, Upload, Midnight, Crash, vars

LEMMA NextDecision == DecisionInv /\ [Next]_vars => DecisionInv'
<1>. SUFFICES ASSUME DecisionInv, [Next]_vars PROVE DecisionInv'
  OBVIOUS
<1>1. TypeOK'
  BY IngestType, SettleType, CloseType, UploadType, MidnightType, CrashType, StutterType
  DEF Next, DecisionInv
<1>. QED  BY <1>1, SettleDecision, CloseDecision, OtherDecision DEF Next

(* However many settlement runs race over an epoch, are retried or die:    *)
(* its allocations are shares of the one score the epoch row was settled   *)
(* from, and its ledger credits are those allocations.                     *)
THEOREM LedgerFollows == Spec => []LedgerFollowsDecision
<1>1. DecisionInv => LedgerFollowsDecision
  BY DEF DecisionInv
<1>. QED  BY <1>1, InitDecision, NextDecision, PTL DEF Spec

(***************************************************************************)
(* Settled history                                                         *)
(***************************************************************************)

Kept == SettledRowsKept /\ SettledScoresKept /\ SettledEventsKept

LEMMA IngestKeeps ==
  ASSUME TypeOK, NEW i \in Ingesters, Ingest(i)
  PROVE  Kept
<1>. USE DEF Kept
<1>1. rewardTables' = rewardTables /\ IngestStep(i)
  BY DEF Ingest
<1>2. SettledRowsKept
  BY <1>1 DEF SettledRowsKept, rewardTables
<1>3. SettledScoresKept
  <2>1. CASE UpsertScores(i)
    <3>1. ASSUME NEW u \in Users, NEW d \in Days, Settled(d), scores[u][d] # NoScore
          PROVE  scores'[u][d] = scores[u][d]
      <4>1. CASE u = BatchUser(i) /\ d \in BatchEpochs(i)
        BY <2>1, <3>1, <4>1 DEF UpsertScores, ScoreWritable
      <4>2. CASE ~(u = BatchUser(i) /\ d \in BatchEpochs(i))
        BY <2>1, <3>1, <4>2 DEF UpsertScores, TypeOK, TablesTypeOK
      <4>. QED  BY <4>1, <4>2
    <3>. QED  BY <3>1 DEF SettledScoresKept
  <2>2. CASE scores' = scores
    BY <2>2 DEF SettledScoresKept
  <2>. QED
    BY <1>1, <2>1, <2>2
    DEF IngestStep, StartIngest, LoadKeys, InsertEvents, InsertProofs, LoadEventsForDays,
        ReplaceDailyAggregates, UpsertDailyAggregates, LoadEventsForEpochs, ingestTables
<1>4. SettledEventsKept
  <2>1. CASE InsertEvents(i)
    <3>1. events' = events \/ \E chunk : events' = WithInserted(i, chunk)
      BY <2>1 DEF InsertEvents
    <3>. QED  BY <3>1 DEF SettledEventsKept, WithInserted
  <2>2. CASE events' = events
    BY <2>2 DEF SettledEventsKept
  <2>. QED
    BY <1>1, <2>1, <2>2
    DEF IngestStep, StartIngest, LoadKeys, InsertProofs, LoadEventsForDays, UpsertScores,
        ReplaceDailyAggregates, UpsertDailyAggregates, LoadEventsForEpochs, ingestTables
<1>. QED  BY <1>2, <1>3, <1>4

LEMMA SettleKeeps ==
  ASSUME DecisionInv, NEW s \in Settlers, Settle(s)
  PROVE  Kept
<1>. DEFINE d == run[s].day
            n == run[s].network
<1>1. d \in Days /\ n \in UnitsByUser /\ TypeOK
  BY DEF DecisionInv, TypeOK, SettleTypeOK, Run
<1>2. SettledScoresKept
  BY DEF Settle, SettledScoresKept
<1>3. SettledEventsKept
  <2>1. CASE MarkSettled(s)
    BY <2>1 DEF MarkSettled, SettledEventsKept
  <2>2. CASE CommitSettlement(s)
    <3>1. events' = events \/ events' = [r \in Records |->
             IF r \in RecomputedNetwork(d)[Owner[r]]
             THEN [events[r] EXCEPT !.econ = "settled"] ELSE events[r]]
      BY <2>2 DEF CommitSettlement
    <3>2. \A r \in Records :
            r \in RecomputedNetwork(d)[Owner[r]] => events[r].econ = "eligible"
      BY TablesAssumption DEF RecomputedNetwork
    <3>. QED  BY <3>1, <3>2 DEF SettledEventsKept
  <2>3. CASE events' = events
    BY <2>3 DEF SettledEventsKept
  <2>. QED
    BY <2>1, <2>2, <2>3
    DEF Settle, DispatchStep, BeginSettle, CheckExisting, FixedPoolStep,
        FinalizeLoadState, FinalizeLoadScores, LoadEpochScores, UpsertFinalizing,
        UpsertEpoch, SettleLoadState, SettleLoadScores, UpsertSettled,
        CreditAllocations, CreditLedger, BetaStep, TakeLock, CheckUnits,
        CountParticipants, CompareScores
<1>4. SettledRowsKept
  <2>1. CASE UpsertFinalizing(s) \/ UpsertSettled(s)
    <3>1. /\ UNCHANGED <<allocations, ledger>>
          /\ epochs' # epochs => ~Settled(d)
          /\ \A e \in Days \ {d} : epochs'[e] = epochs[e]
      BY <2>1, <1>1 DEF UpsertFinalizing, UpsertSettled, UpsertEpoch, EpochWritable,
                        TypeOK, TablesTypeOK
    <3>. QED  BY <3>1 DEF SettledRowsKept
  <2>2. CASE CreditAllocations(s)
    BY <2>2, <1>1 DEF CreditAllocations, InsertIgnore, SettledRowsKept, TypeOK,
                      TablesTypeOK
  <2>3. CASE CreditLedger(s)
    <3>1. PICK paid : ledger' = [ledger EXCEPT ![d] = InsertIgnore(@, Payable(n, paid))]
      BY <2>3 DEF CreditLedger
    <3>2. \A e \in Days, u \in Users :
            ledger[e][u] # {} => ledger'[e][u] = ledger[e][u]
      BY <3>1 DEF InsertIgnore, TypeOK, TablesTypeOK
    <3>. QED  BY <2>3, <3>2 DEF CreditLedger, SettledRowsKept
  <2>4. CASE CommitSettlement(s)
    <3>1. CASE UNCHANGED rewardTables
      BY <3>1 DEF SettledRowsKept, rewardTables
    <3>2. CASE Commitable(s)
      <4>1. /\ ~Settled(d)
            /\ \A u \in Users : allocations[d][u] = {} /\ ledger[d][u] = {}
        BY <3>2, <1>1 DEF Commitable, EpochWritable, Participants, DecisionInv,
                          LedgerFollowsDecision
      <4>2. \A e \in Days \ {d} : /\ epochs'[e] = epochs[e]
                                  /\ allocations'[e] = allocations[e]
                                  /\ ledger'[e] = ledger[e]
        BY <2>4, <3>2, <1>1 DEF CommitSettlement, TypeOK, TablesTypeOK
      <4>. QED  BY <4>1, <4>2 DEF SettledRowsKept
    <3>. QED  BY <2>4, <3>1, <3>2 DEF CommitSettlement
  <2>5. CASE rewardTables' = rewardTables
    BY <2>5 DEF SettledRowsKept, rewardTables
  <2>. QED
    BY <2>1, <2>2, <2>3, <2>4, <2>5
    DEF Settle, DispatchStep, BeginSettle, CheckExisting, FixedPoolStep,
        FinalizeLoadState, FinalizeLoadScores, LoadEpochScores, SettleLoadState,
        SettleLoadScores, MarkSettled, BetaStep, TakeLock, CheckUnits,
        CountParticipants, CompareScores
<1>. QED  BY <1>2, <1>3, <1>4 DEF Kept

LEMMA CloseKeeps ==
  ASSUME TypeOK, CloseByOwner
  PROVE  Kept
<1>1. PICK d \in CalibrationDays : CloseCalibration(d)
  BY DEF CloseByOwner
<1>2. ~Settled(d) /\ UNCHANGED <<scores, allocations, ledger>>
  BY <1>1 DEF CloseByOwner, CloseCalibration
<1>3. \A e \in Days \ {d} : epochs'[e] = epochs[e]
  BY <1>1 DEF CloseCalibration, TypeOK, TablesTypeOK
<1>4. \A r \in Records \ {Approved[d]} : events'[r] = events[r]
  BY <1>1 DEF CloseCalibration, TypeOK, TablesTypeOK
<1>5. events[Approved[d]].econ = "eligible"
  BY <1>1 DEF CloseCalibration, ApprovedAsShown
<1>. QED
  BY <1>2, <1>3, <1>4, <1>5
  DEF Kept, SettledRowsKept, SettledScoresKept, SettledEventsKept

LEMMA OtherKeeps ==
  ASSUME TypeOK, (\E p \in Uploads : Upload(p)) \/ Midnight \/ Crash
  PROVE  Kept
<1>1. UNCHANGED <<scores, epochs, allocations, ledger>>
  BY DEF Upload, Midnight, NextDay, Crash, CrashIngest, CrashSettle, CrashUpload,
         ingestTables, rewardTables
<1>2. SettledEventsKept
  <2>1. ASSUME NEW p \in Uploads, HoldReward(p) PROVE SettledEventsKept
    BY <2>1 DEF HoldReward, EventWritable, SettledEventsKept, TypeOK, TablesTypeOK
  <2>2. CASE events' = events
    BY <2>2 DEF SettledEventsKept
  <2>. QED
    BY <2>1, <2>2
    DEF Upload, UploadStep, Correlate, StoreObservation, Midnight, NextDay, Crash,
        CrashIngest, CrashSettle, CrashUpload, ingestTables
<1>. QED  BY <1>1, <1>2 DEF Kept, SettledRowsKept, SettledScoresKept

(* No step of any process moves settled history: not the row of a settled  *)
(* epoch, not an allocation or a ledger row, not the score the epoch was   *)
(* distributed from, not a settled event.                                  *)
THEOREM SettledHistory == Spec => SettledHistoryImmutable
<1>1. DecisionInv /\ [Next]_vars => [Kept]_vars
  BY IngestKeeps, SettleKeeps, CloseKeeps, OtherKeeps DEF Next, DecisionInv
<1>2. Spec => []DecisionInv
  BY InitDecision, NextDecision, PTL DEF Spec
<1>. QED  BY <1>1, <1>2, PTL DEF Spec, SettledHistoryImmutable, Kept

(***************************************************************************)
(* What is rewarded, and what a batch leaves.                              *)
(*                                                                         *)
(* No unit is rewarded twice, and settlement implements RewardLedger.      *)
(* Both rest on one fact about identity: wherever a unit is counted -- in  *)
(* a score, in the memory of a run, in the score an epoch was settled from *)
(* -- it is counted for its own user and for the epoch its event was       *)
(* assigned to, once and for all, when it was inserted, eligible for       *)
(* reward.  Two sets of units counted for different users or epochs can    *)
(* then not meet.  On the same fact rest that a beta epoch settles whole,  *)
(* that one compute has at most one credit, that a held unit has none, and *)
(* that a calibration day's has none.  Last: a batch that goes through     *)
(* leaves nothing behind.                                                  *)
(***************************************************************************)

Recorded(u, d) ==
  {r \in Records : /\ Stored(r)
                   /\ Owner[r] = u
                   /\ events[r].epoch = d
                   /\ events[r].reward = "eligible"}

CountsRecorded ==
  \A u \in Users, d \in Days :
    /\ scores[u][d] # NoScore => scores[u][d] \subseteq Recorded(u, d)
    /\ epochs[d].network[u] \subseteq Recorded(u, d)

ViewsRecorded ==
  \A i \in Ingesters : At(i, "score") =>
    \A r \in ing[i].view :
      Stored(r) /\ Owner[r] = BatchUser(i) /\ events[r].reward = "eligible"

RunsRecorded ==
  \A s \in Settlers, u \in Users :
    run[s].network[u] \subseteq Recorded(u, run[s].day)

RewardInv == DecisionInv /\ CountsRecorded /\ ViewsRecorded /\ RunsRecorded

(* An event is inserted with its epoch and its reward status, for good.    *)
ColumnsKept ==
  \A r \in Records : Stored(r) =>
    /\ Stored(r)'
    /\ events'[r].epoch = events[r].epoch
    /\ events'[r].reward = events[r].reward

LEMMA InitReward == Init => RewardInv
BY InitDecision, TablesAssumption
DEF Init, TablesInit, IngestInit, SettleInit, IdleRun, IdleJob, Nobody, RewardInv,
    CountsRecorded, ViewsRecorded, RunsRecorded, At

LEMMA NextColumnsKept ==
  ASSUME TypeOK, [Next]_vars
  PROVE  ColumnsKept
<1>. USE DEF ColumnsKept, Stored, TypeOK, TablesTypeOK
<1>1. CASE events' = events
  BY <1>1
<1>2. ASSUME NEW i \in Ingesters, Ingest(i) PROVE ColumnsKept
  <2>1. CASE InsertEvents(i)
    <3>1. events' = events \/ \E chunk : events' = WithInserted(i, chunk)
      BY <2>1 DEF InsertEvents
    <3>. QED  BY <3>1 DEF WithInserted
  <2>. QED
    BY <1>1, <1>2, <2>1
    DEF Ingest, IngestStep, StartIngest, LoadKeys, InsertProofs, LoadEventsForDays,
        ReplaceDailyAggregates, UpsertDailyAggregates, LoadEventsForEpochs, UpsertScores,
        ingestTables
<1>3. ASSUME NEW r \in Records, Stored(r)
      PROVE  \A x \in {[events[r] EXCEPT !.econ = "settled"],
                       [events[r] EXCEPT !.dedupe = "conflict", !.hold = TRUE]} :
               /\ x \in EventRow
               /\ x.epoch = events[r].epoch
               /\ x.reward = events[r].reward
  BY <1>3 DEF EventRow, DedupeStatus
<1>4. ASSUME NEW s \in Settlers, Settle(s) PROVE ColumnsKept
  <2>1. CASE MarkSettled(s)
    BY ZenonT(60), <2>1, <1>3, TablesAssumption DEF MarkSettled
  <2>2. CASE CommitSettlement(s)
    <3>1. events' = events \/ events' = [r \in Records |->
             IF r \in RecomputedNetwork(run[s].day)[Owner[r]]
             THEN [events[r] EXCEPT !.econ = "settled"] ELSE events[r]]
      BY <2>2 DEF CommitSettlement
    <3>2. \A r \in Records : r \in RecomputedNetwork(run[s].day)[Owner[r]] => Stored(r)
      BY TablesAssumption DEF RecomputedNetwork, StoredRecords
    <3>3. CASE events' # events
      <4>. SUFFICES ASSUME NEW r \in Records, Stored(r)
                    PROVE  /\ events'[r] # NoEvent
                           /\ events'[r].epoch = events[r].epoch
                           /\ events'[r].reward = events[r].reward
        OBVIOUS
      <4>1. events'[r] \in {events[r], [events[r] EXCEPT !.econ = "settled"]}
        BY <3>1, <3>3
      <4>. QED  BY <4>1, <1>3, TablesAssumption
    <3>. QED  BY <1>1, <3>3
  <2>. QED
    BY <1>1, <1>4, <2>1, <2>2
    DEF Settle, DispatchStep, BeginSettle, CheckExisting, FixedPoolStep,
        FinalizeLoadState, FinalizeLoadScores, LoadEpochScores, UpsertFinalizing,
        UpsertEpoch, SettleLoadState, SettleLoadScores, UpsertSettled,
        CreditAllocations, CreditLedger, BetaStep, TakeLock, CheckUnits,
        CountParticipants, CompareScores
<1>5. ASSUME NEW p \in Uploads, HoldReward(p) PROVE ColumnsKept
  <2>. SUFFICES ASSUME NEW r \in Records, Stored(r)
                PROVE  /\ events'[r] # NoEvent
                       /\ events'[r].epoch = events[r].epoch
                       /\ events'[r].reward = events[r].reward
    OBVIOUS
  <2>1. events'[r] \in {events[r], [events[r] EXCEPT !.dedupe = "conflict", !.hold = TRUE]}
    <3>1. \/ events' = events
          \/ \E q : events' = [events EXCEPT ![q].dedupe = "conflict", ![q].hold = TRUE]
      BY <1>5 DEF HoldReward
    <3>. QED  BY <3>1
  <2>. QED  BY <2>1, <1>3, TablesAssumption
<1>6. ASSUME NEW p \in Uploads, Upload(p) PROVE ColumnsKept
  BY <1>1, <1>5, <1>6 DEF Upload, UploadStep, Correlate, StoreObservation
<1>8. CASE CloseByOwner
  <2>1. PICK d \in CalibrationDays : CloseCalibration(d)
    BY <1>8 DEF CloseByOwner
  <2>2. events' = [events EXCEPT ![Approved[d]].econ = "settled"]
    BY <2>1 DEF CloseCalibration
  <2>. SUFFICES ASSUME NEW r \in Records, Stored(r)
                PROVE  /\ events'[r] # NoEvent
                       /\ events'[r].epoch = events[r].epoch
                       /\ events'[r].reward = events[r].reward
    OBVIOUS
  <2>3. events'[r] \in {events[r], [events[r] EXCEPT !.econ = "settled"]}
    BY <2>2
  <2>. QED  BY <2>3, <1>3, TablesAssumption
<1>7. CASE Midnight \/ Crash \/ UNCHANGED vars
  <2>1. events' = events
    BY <1>7 DEF Midnight, NextDay, Crash, CrashIngest, CrashSettle, CrashUpload,
                ingestTables, vars
  <2>. QED  BY <1>1, <2>1
<1>. QED
  BY <1>2, <1>4, <1>6, <1>7, <1>8 DEF Next

LEMMA RecordedGrows ==
  ASSUME ColumnsKept, NEW u \in Users, NEW d \in Days
  PROVE  Recorded(u, d) \subseteq Recorded(u, d)'
BY DEF ColumnsKept, Recorded

(* Reading the scores, or summing the events, counts recorded units.       *)
LEMMA NetworkRecorded ==
  ASSUME TypeOK, CountsRecorded, NEW u \in Users, NEW d \in Days
  PROVE  /\ StoredNetwork(d)[u] \subseteq Recorded(u, d)
         /\ RecomputedNetwork(d)[u] \subseteq Recorded(u, d)
BY DEF CountsRecorded, StoredNetwork, RecomputedNetwork, Recorded, StoredRecords, Stored

LEMMA IngestReward ==
  ASSUME RewardInv, ColumnsKept, TypeOK', NEW i \in Ingesters, Ingest(i)
  PROVE  CountsRecorded' /\ ViewsRecorded' /\ RunsRecorded'
<1>. USE DEF RewardInv
<1>1. TypeOK /\ IngestStep(i) /\ UNCHANGED <<rewardTables, run>>
  BY DEF Ingest, DecisionInv
<1>2. RunsRecorded'
  BY <1>1, RecordedGrows DEF RunsRecorded, TypeOK, SettleTypeOK, Run
<1>3. CountsRecorded'
  <2>1. CASE scores' = scores
    BY <1>1, <2>1, RecordedGrows DEF CountsRecorded, rewardTables
  <2>2. CASE UpsertScores(i) /\ scores' # scores
    <3>1. ASSUME NEW u \in Users, NEW d \in Days
          PROVE  \/ scores'[u][d] = scores[u][d]
                 \/ /\ u = BatchUser(i)
                    /\ scores'[u][d] = {r \in ing[i].view : events[r].epoch = d}
      BY <2>2 DEF UpsertScores, TypeOK, TablesTypeOK
    <3>2. ASSUME NEW d \in Days
          PROVE  {r \in ing[i].view : events[r].epoch = d}
                   \subseteq Recorded(BatchUser(i), d)
      BY <1>1, <2>2 DEF UpsertScores, At, ViewsRecorded, Recorded, TypeOK,
                        IngestTypeOK, Job
    <3>3. UNCHANGED <<events, epochs>>
      BY <1>1, <2>2 DEF UpsertScores, rewardTables
    <3>. QED  BY <3>1, <3>2, <3>3, RecordedGrows DEF CountsRecorded
  <2>. QED
    BY <1>1, <2>1, <2>2
    DEF IngestStep, StartIngest, LoadKeys, InsertEvents, InsertProofs, LoadEventsForDays,
        ReplaceDailyAggregates, UpsertDailyAggregates, LoadEventsForEpochs, ingestTables
<1>4. ViewsRecorded'
  <2>1. ASSUME NEW j \in Ingesters, j # i PROVE ing'[j] = ing[j]
    BY <1>1, <2>1
    DEF IngestStep, StartIngest, LoadKeys, InsertEvents, InsertProofs, LoadEventsForDays,
        ReplaceDailyAggregates, UpsertDailyAggregates, LoadEventsForEpochs, UpsertScores,
        Return, TypeOK, IngestTypeOK
  <2>2. ASSUME At(i, "score")'
        PROVE  /\ events' = events
               /\ ing'[i].batch = ing[i].batch
               /\ ing'[i].view \subseteq
                    {r \in StoredRecords :
                       Owner[r] = BatchUser(i) /\ events[r].reward = "eligible"}
    <3>1. LoadEventsForEpochs(i)
      <4>. USE DEF Return, IdleJob, At, TypeOK, IngestTypeOK, Job
      <4>1. ~StartIngest(i) /\ ~LoadKeys(i)
        BY ZenonT(60), <2>2 DEF StartIngest, LoadKeys
      <4>2. ~InsertEvents(i)
        <5>1. ASSUME InsertEvents(i) PROVE ing'[i].pc \in {"proofs", "insert", "idle"}
          <6>1. PICK chunk : \/ /\ ing[i].pc = "insert"
                                /\ ing' = [ing EXCEPT
                                     ![i].fresh = @ \cup {r \in chunk : ~Stored(r)},
                                     ![i].todo = @ \ chunk,
                                     ![i].pc = IF ing[i].todo = chunk THEN "proofs" ELSE @]
                             \/ Return(i)
            BY <5>1 DEF InsertEvents
          <6>2. CASE Return(i)
            BY <6>2
          <6>3. CASE ~Return(i)
            <7>. DEFINE new == {r \in chunk : ~Stored(r)}
                         next == IF ing[i].todo = chunk THEN "proofs" ELSE ing[i].pc
            <7>1. next \in {"proofs", "insert"}
              BY <6>1, <6>3
            <7>2. ing' = [ing EXCEPT ![i].fresh = @ \cup new,
                                     ![i].todo = @ \ chunk, ![i].pc = next]
              BY <6>1, <6>3
            <7>. HIDE DEF new, next
            <7>. QED  BY <7>1, <7>2
          <6>. QED  BY <6>2, <6>3
        <5>. QED  BY <5>1, <2>2
      <4>3. ~InsertProofs(i) /\ ~LoadEventsForDays(i)
        BY <2>2 DEF InsertProofs, LoadEventsForDays
      <4>4. ~ReplaceDailyAggregates(i) /\ ~UpsertDailyAggregates(i) /\ ~UpsertScores(i)
        BY <2>2 DEF ReplaceDailyAggregates, UpsertDailyAggregates, UpsertScores
      <4>. QED  BY <1>1, <4>1, <4>2, <4>3, <4>4 DEF IngestStep
    <3>. QED
      BY ZenonT(60), <3>1 DEF LoadEventsForEpochs, Earns, ingestTables, TypeOK, IngestTypeOK, Job
  <2>3. ASSUME NEW j \in Ingesters, At(j, "score")', NEW r \in ing'[j].view
        PROVE  /\ Stored(r)'
               /\ Owner[r] = BatchUser(j)'
               /\ events'[r].reward = "eligible"
    <3>1. CASE j # i
      <4>1. r \in Records /\ Stored(r) /\ Owner[r] = BatchUser(j) /\ events[r].reward = "eligible"
        BY <2>1, <2>3, <3>1, <1>1 DEF ViewsRecorded, At, TypeOK, IngestTypeOK, Job
      <4>. QED  BY <2>1, <3>1, <4>1 DEF ColumnsKept, BatchUser
    <3>2. CASE j = i
      BY <2>2, <2>3, <3>2 DEF StoredRecords, Stored, BatchUser
    <3>. QED  BY <3>1, <3>2
  <2>. QED  BY <2>3 DEF ViewsRecorded
<1>. QED  BY <1>2, <1>3, <1>4

(* What one settlement step does to the memory of its run. *)
LEMMA RunMemory ==
  ASSUME TypeOK, NEW s \in Settlers, Settle(s)
  PROVE  /\ \A t \in Settlers \ {s} : run'[t] = run[t]
         /\ \/ run'[s].network = Nobody
            \/ /\ run'[s].day = run[s].day
               /\ run'[s].network \in {run[s].network, StoredNetwork(run[s].day),
                                      RecomputedNetwork(run[s].day)}
<1>. USE DEF RunAt, Goto, Finish, IdleRun
<1>1. run \in [Settlers -> Run]
  BY DEF TypeOK, SettleTypeOK
<1>. HIDE DEF TypeOK
<1>2. CASE DispatchStep(s)
  <2>1. ASSUME NEW d \in Days, BeginSettle(s, d)
        PROVE  /\ \A t \in Settlers \ {s} : run'[t] = run[t]
               /\ run'[s].network = Nobody
    BY <1>1, <2>1 DEF BeginSettle
  <2>2. CASE CheckExisting(s)
    BY <1>1, <2>2 DEF CheckExisting, Run
  <2>. QED  BY <1>2, <2>1, <2>2 DEF DispatchStep
<1>3. CASE FixedPoolStep(s)
  <2>1. CASE FinalizeLoadState(s) \/ SettleLoadState(s)
    BY <2>1, <1>1 DEF FinalizeLoadState, SettleLoadState, Run
  <2>2. CASE FinalizeLoadScores(s) \/ SettleLoadScores(s)
    BY <2>2, <1>1 DEF FinalizeLoadScores, SettleLoadScores, LoadEpochScores, Run
  <2>3. CASE UpsertFinalizing(s) \/ UpsertSettled(s)
    BY <2>3, <1>1 DEF UpsertFinalizing, UpsertSettled, UpsertEpoch, Run
  <2>4. CASE CreditAllocations(s) \/ CreditLedger(s) \/ MarkSettled(s)
    BY <2>4, <1>1 DEF CreditAllocations, CreditLedger, MarkSettled, Run
  <2>. QED  BY <1>3, <2>1, <2>2, <2>3, <2>4 DEF FixedPoolStep
<1>4. CASE BetaStep(s)
  <2>1. CASE TakeLock(s) \/ CheckUnits(s)
    BY <2>1, <1>1 DEF TakeLock, CheckUnits, Run
  <2>2. CASE CountParticipants(s)
    BY <2>2, <1>1 DEF CountParticipants, Run
  <2>3. CASE CompareScores(s)
    BY <2>3, <1>1 DEF CompareScores, Run
  <2>4. CASE CommitSettlement(s)
    BY <2>4, <1>1 DEF CommitSettlement, Run
  <2>. QED  BY <1>4, <2>1, <2>2, <2>3, <2>4 DEF BetaStep
<1>. QED  BY <1>2, <1>3, <1>4 DEF Settle

(* ... and to the epochs: an epoch row takes its score from the run.       *)
LEMMA EpochFromRun ==
  ASSUME TypeOK, NEW s \in Settlers, Settle(s), NEW d \in Days
  PROVE  \/ epochs'[d] = epochs[d]
         \/ d = run[s].day /\ epochs'[d].network = run[s].network
<1>1. run[s].day \in Days /\ epochs \in [Days -> EpochRow]
  BY DEF TypeOK, TablesTypeOK, SettleTypeOK, Run
<1>2. CASE epochs' = epochs
  BY <1>2
<1>3. CASE UpsertFinalizing(s) \/ UpsertSettled(s)
  BY <1>1, <1>3 DEF UpsertFinalizing, UpsertSettled, UpsertEpoch
<1>4. CASE CommitSettlement(s)
  BY <1>1, <1>4 DEF CommitSettlement, rewardTables
<1>. QED
  BY <1>2, <1>3, <1>4
  DEF Settle, DispatchStep, BeginSettle, CheckExisting, FixedPoolStep,
      FinalizeLoadState, FinalizeLoadScores, LoadEpochScores, SettleLoadState,
      SettleLoadScores, CreditAllocations, CreditLedger, MarkSettled, BetaStep, TakeLock,
      CheckUnits, CountParticipants, CompareScores, rewardTables

LEMMA SettleReward ==
  ASSUME RewardInv, ColumnsKept, TypeOK', NEW s \in Settlers, Settle(s)
  PROVE  CountsRecorded' /\ ViewsRecorded' /\ RunsRecorded'
<1>. USE DEF RewardInv
<1>1. /\ TypeOK
      /\ UNCHANGED <<scores, ing>>
      /\ \A t \in Settlers : run[t].day \in Days
  BY DEF Settle, DecisionInv, TypeOK, SettleTypeOK, Run
<1>2. CountsRecorded'
  BY <1>1, EpochFromRun, RecordedGrows DEF CountsRecorded, RunsRecorded
<1>3. ViewsRecorded'
  BY <1>1 DEF ViewsRecorded, At, ColumnsKept, BatchUser, TypeOK, IngestTypeOK, Job
<1>4. ASSUME NEW t \in Settlers, NEW u \in Users
      PROVE  run'[t].network[u] \subseteq
               {r \in Records : /\ events'[r] # NoEvent
                                /\ Owner[r] = u
                                /\ events'[r].epoch = run'[t].day
                                /\ events'[r].reward = "eligible"}
  <2>1. CASE run'[t].network = Nobody
    BY <2>1 DEF Nobody
  <2>2. CASE run'[t].day = run[t].day
             /\ run'[t].network \in {run[t].network, StoredNetwork(run[t].day),
                                    RecomputedNetwork(run[t].day)}
    <3>1. run'[t].network[u] \subseteq Recorded(u, run[t].day)
      BY <2>2, <1>1, NetworkRecorded DEF RunsRecorded
    <3>. QED  BY <2>2, <3>1 DEF ColumnsKept, Recorded, Stored
  <2>. QED  BY <2>1, <2>2, <1>1, RunMemory
<1>5. RunsRecorded'
  BY <1>4 DEF RunsRecorded, Recorded, Stored
<1>. QED  BY <1>2, <1>3, <1>5

LEMMA CloseReward ==
  ASSUME RewardInv, ColumnsKept, TypeOK', CloseByOwner
  PROVE  CountsRecorded' /\ ViewsRecorded' /\ RunsRecorded'
<1>. USE DEF RewardInv
<1>1. PICK d \in CalibrationDays : CloseCalibration(d)
  BY DEF CloseByOwner
<1>2. TypeOK /\ UNCHANGED <<scores, ing, run>>
  BY DEF CloseByOwner, DecisionInv
<1>3. /\ \A e \in Days \ {d} : epochs'[e] = epochs[e]
      /\ d \in Days => epochs'[d].network = ApprovedNetwork(d)
  BY <1>1, <1>2 DEF CloseCalibration, TypeOK, TablesTypeOK
<1>4. \A u \in Users : ApprovedNetwork(d)[u] \subseteq Recorded(u, d)
  BY <1>1, ApprovedAssumption
  DEF ApprovedNetwork, Recorded, CloseCalibration, ApprovedAsShown
<1>5. CountsRecorded'
  BY <1>2, <1>3, <1>4, RecordedGrows DEF CountsRecorded
<1>6. ViewsRecorded'
  BY <1>2 DEF ViewsRecorded, At, ColumnsKept, BatchUser, TypeOK, IngestTypeOK, Job
<1>7. RunsRecorded'
  BY <1>2, RecordedGrows DEF RunsRecorded, TypeOK, SettleTypeOK, Run
<1>. QED  BY <1>5, <1>6, <1>7

LEMMA OtherReward ==
  ASSUME RewardInv, ColumnsKept, TypeOK',
         \/ \E p \in Uploads : Upload(p)
         \/ Midnight
         \/ Crash
         \/ UNCHANGED vars
  PROVE  CountsRecorded' /\ ViewsRecorded' /\ RunsRecorded'
<1>. USE DEF RewardInv
<1>1. /\ TypeOK
      /\ UNCHANGED <<scores, epochs>>
      /\ \A i \in Ingesters : ing'[i] \in {ing[i], IdleJob}
      /\ \A s \in Settlers : run'[s] \in {run[s], IdleRun}
  BY DEF Upload, Midnight, NextDay, Crash, CrashIngest, CrashSettle, CrashUpload, Return,
         Finish, ingestTables, rewardTables, vars, DecisionInv, TypeOK, IngestTypeOK,
         SettleTypeOK
<1>2. CountsRecorded'
  BY <1>1, RecordedGrows DEF CountsRecorded
<1>3. ViewsRecorded'
  <2>1. ASSUME NEW i \in Ingesters, At(i, "score")', NEW r \in ing'[i].view
        PROVE  /\ Stored(r)'
               /\ Owner[r] = BatchUser(i)'
               /\ events'[r].reward = "eligible"
    <3>1. ing'[i] = ing[i]
      BY <1>1, <2>1 DEF At, IdleJob
    <3>2. r \in Records /\ Stored(r) /\ Owner[r] = BatchUser(i) /\ events[r].reward = "eligible"
      BY <1>1, <2>1, <3>1 DEF ViewsRecorded, At, TypeOK, IngestTypeOK, Job
    <3>. QED  BY <3>1, <3>2 DEF ColumnsKept, BatchUser
  <2>. QED  BY <2>1 DEF ViewsRecorded
<1>4. RunsRecorded'
  <2>1. ASSUME NEW s \in Settlers, NEW u \in Users
        PROVE  run'[s].network[u] \subseteq
                 {r \in Records : /\ events'[r] # NoEvent
                                  /\ Owner[r] = u
                                  /\ events'[r].epoch = run'[s].day
                                  /\ events'[r].reward = "eligible"}
    BY <1>1 DEF RunsRecorded, Recorded, Stored, ColumnsKept, IdleRun, Nobody
  <2>. QED  BY <2>1 DEF RunsRecorded, Recorded, Stored
<1>. QED  BY <1>2, <1>3, <1>4

LEMMA NextReward == RewardInv /\ [Next]_vars => RewardInv'
<1>. SUFFICES ASSUME RewardInv, [Next]_vars PROVE RewardInv'
  OBVIOUS
<1>1. DecisionInv' /\ TypeOK' /\ ColumnsKept
  BY NextDecision, NextColumnsKept DEF RewardInv, DecisionInv
<1>. QED
  BY <1>1, IngestReward, SettleReward, CloseReward, OtherReward DEF Next, RewardInv

(* A unit is credited in one epoch, to one user: however it was replayed,  *)
(* carried forward or scored by racing invocations.                        *)
THEOREM RewardedOnce == Spec => []UnitRewardedOnce
<1>1. RewardInv => UnitRewardedOnce
  <2>. SUFFICES ASSUME RewardInv, NEW d \in Days, NEW e \in Days,
                       NEW u \in Users, NEW v \in Users, <<d, u>> # <<e, v>>
                PROVE  ledger[d][u] \cap ledger[e][v] = {}
    BY DEF UnitRewardedOnce
  <2>1. \A x \in Days, w \in Users : ledger[x][w] \subseteq Recorded(w, x)
    BY DEF RewardInv, DecisionInv, LedgerFollowsDecision, CountsRecorded
  <2>. QED  BY <2>1 DEF Recorded
<1>. QED  BY <1>1, InitReward, NextReward, PTL DEF Spec

(***************************************************************************)
(* Refinement                                                              *)
(***************************************************************************)

Decided == [d \in Days |-> IF Settled(d) THEN epochs[d].network ELSE Undecided]

LEMMA DecidedFacts ==
  ASSUME RewardInv
  PROVE  /\ \A d \in Days : Decided[d] = Undecided <=> ~Settled(d)
         /\ \A d \in Days : Settled(d) => Decided[d] = epochs[d].network
BY ProtocolAssumption
DEF Decided, RewardInv, DecisionInv, TypeOK, TablesTypeOK, EpochRow

(* The score an undecided epoch is settled from names no unit twice, and   *)
(* none another epoch was settled from.                                    *)
LEMMA FreshNetwork ==
  ASSUME RewardInv, NEW s \in Settlers, ~Settled(run[s].day)
  PROVE  Ledger!Fresh(run[s].network)
<1>1. run[s].day \in Days
  BY DEF RewardInv, DecisionInv, TypeOK, SettleTypeOK, Run
<1>2. \A u \in Users : run[s].network[u] \subseteq Recorded(u, run[s].day)
  BY DEF RewardInv, RunsRecorded
<1>3. \A e \in Days, v \in Users :
        Decided[e] # Undecided =>
          e # run[s].day /\ Decided[e][v] \subseteq Recorded(v, e)
  BY DecidedFacts DEF RewardInv, CountsRecorded
<1>. QED  BY <1>1, <1>2, <1>3 DEF Ledger!Fresh, Recorded, Decided

LEMMA DecidedAfter ==
  ASSUME NEW d \in Days, \A e \in Days \ {d} : epochs'[e] = epochs[e]
  PROVE  /\ \A e \in Days \ {d} : Decided'[e] = Decided[e]
         /\ epochs'[d].state = "settled" => Decided'[d] = epochs'[d].network
         /\ epochs'[d].state # "settled" => Decided'[d] = Undecided
         /\ epochs'[d] = epochs[d] => Decided'[d] = Decided[d]
BY DEF Decided, Settled

(* Marking an epoch settled is its decision; finalizing it is nothing yet. *)
LEMMA UpsertImplements ==
  ASSUME RewardInv, NEW s \in Settlers, UpsertFinalizing(s) \/ UpsertSettled(s)
  PROVE  [Ledger!Next]_(Ledger!ledgerVars)
<1>. DEFINE d == run[s].day
            n == run[s].network
<1>1. TypeOK /\ d \in Days /\ n \in UnitsByUser
  BY DEF RewardInv, DecisionInv, TypeOK, SettleTypeOK, Run
<1>2. UNCHANGED <<allocations, ledger>>
  BY DEF UpsertFinalizing, UpsertSettled, UpsertEpoch
<1>3. CASE epochs' = epochs
  BY <1>2, <1>3 DEF Ledger!ledgerVars, Settled
<1>4. CASE epochs' # epochs
  <2>1. PICK state \in {"finalizing", "settled"} :
          epochs' = [epochs EXCEPT ![d] = [state |-> state, network |-> n]]
    BY <1>4 DEF UpsertFinalizing, UpsertSettled, UpsertEpoch
  <2>2. ~Settled(d)
    BY <1>4 DEF UpsertFinalizing, UpsertSettled, UpsertEpoch, EpochWritable
  <2>3. /\ epochs'[d] = [state |-> state, network |-> n]
        /\ \A e \in Days \ {d} : epochs'[e] = epochs[e]
    BY <2>1, <1>1 DEF TypeOK, TablesTypeOK
  <2>4. Decided[d] = Undecided
    BY <2>2, <1>1 DEF Decided
  <2>5. CASE state = "finalizing"
    <3>1. \A e \in Days : Decided'[e] = Decided[e]
      BY <2>3, <2>4, <2>5, <1>1, DecidedAfter
    <3>2. Decided' = Decided
      BY <3>1 DEF Decided
    <3>. QED  BY <3>2, <1>2 DEF Ledger!ledgerVars, Decided
  <2>6. CASE state = "settled"
    <3>1. Decided'[d] = n /\ \A e \in Days \ {d} : Decided'[e] = Decided[e]
      BY <2>3, <2>6, <1>1, DecidedAfter
    <3>2. Ledger!Fresh(n)
      BY <2>2, FreshNetwork
    <3>3. Ledger!Decide(d)
      BY <3>1, <3>2, <2>4, <1>1, <1>2 DEF Ledger!Decide, Ledger!Owed, UnitsByUser, Decided
    <3>4. Ledger!OnlyIn(d)
      BY <3>1, <1>2 DEF Ledger!OnlyIn, Decided
    <3>. QED  BY <3>3, <3>4, <1>1 DEF Ledger!Next, Ledger!OnlyIn, Ledger!Decide
  <2>. QED  BY <2>5, <2>6
<1>. QED  BY <1>3, <1>4

LEMMA AllocateImplements ==
  ASSUME RewardInv, NEW s \in Settlers, CreditAllocations(s)
  PROVE  [Ledger!Next]_(Ledger!ledgerVars)
<1>. DEFINE d == run[s].day
            n == run[s].network
<1>1. TypeOK /\ d \in Days /\ n \in UnitsByUser
  BY DEF RewardInv, DecisionInv, TypeOK, SettleTypeOK, Run
<1>2. UNCHANGED <<epochs, ledger>>
  BY DEF CreditAllocations
<1>3. CASE allocations' = allocations
  BY <1>2, <1>3 DEF Ledger!ledgerVars, Settled
<1>4. CASE allocations' # allocations
  <2>1. allocations' = [allocations EXCEPT ![d] = InsertIgnore(@, n)]
    BY <1>4 DEF CreditAllocations
  <2>2. Settled(d) /\ epochs[d].network = n
    BY DEF CreditAllocations, RunAt, RewardInv, DecisionInv, RunsFollowDecision, Crediting
  <2>3. Decided[d] = n /\ Decided[d] # Undecided
    BY <2>2, <1>1, ProtocolAssumption DEF Decided
  <2>4. Decided' = Decided
    BY <1>2 DEF Decided, Settled
  <2>5. \A u \in Users :
          allocations'[d][u] = IF allocations[d][u] # {} THEN allocations[d][u] ELSE n[u]
    BY <2>1, <1>1 DEF InsertIgnore, TypeOK, TablesTypeOK
  <2>6. \A u \in Users : allocations[d][u] # {} => allocations[d][u] = n[u]
    BY <2>2, <1>1 DEF RewardInv, DecisionInv, LedgerFollowsDecision
  <2>7. Ledger!Grant(d)
    BY <2>3, <2>4, <2>5, <2>6, <1>2
    DEF Ledger!Grant, Ledger!Follows, Ledger!Extends, Decided
  <2>8. Ledger!OnlyIn(d)
    BY <2>1, <2>4, <1>1, <1>2 DEF Ledger!OnlyIn, Decided, TypeOK, TablesTypeOK
  <2>. QED  BY <2>7, <2>8, <1>1 DEF Ledger!Next, Ledger!OnlyIn, Ledger!Grant
<1>. QED  BY <1>3, <1>4

LEMMA CreditImplements ==
  ASSUME RewardInv, NEW s \in Settlers, CreditLedger(s)
  PROVE  [Ledger!Next]_(Ledger!ledgerVars)
<1>. DEFINE d == run[s].day
            n == run[s].network
<1>1. TypeOK /\ d \in Days /\ n \in UnitsByUser
  BY DEF RewardInv, DecisionInv, TypeOK, SettleTypeOK, Run
<1>2. UNCHANGED <<epochs, allocations>>
  BY DEF CreditLedger
<1>3. PICK paid \in SUBSET Participants(n) :
        ledger' = [ledger EXCEPT ![d] = InsertIgnore(@, Payable(n, paid))]
  BY DEF CreditLedger
<1>4. /\ Settled(d) /\ epochs[d].network = n
      /\ \A u \in Participants(n) : allocations[d][u] = n[u]
  BY <1>1 DEF CreditLedger, RunAt, RewardInv, DecisionInv, RunsFollowDecision, Crediting,
              AllocatedFirst, LedgerFollowsDecision, Participants
<1>5. Decided[d] # Undecided /\ Decided' = Decided
  BY <1>1, <1>2, <1>4, ProtocolAssumption DEF Decided, Settled
<1>6. \A u \in Users :
        ledger'[d][u] = IF ledger[d][u] # {} THEN ledger[d][u] ELSE Payable(n, paid)[u]
  BY <1>1, <1>3 DEF InsertIgnore, TypeOK, TablesTypeOK
<1>7. \A u \in Users : Payable(n, paid)[u] \in {{}, allocations[d][u]}
  BY <1>4 DEF Payable
<1>8. \A u \in Users : ledger[d][u] # {} => ledger[d][u] = allocations[d][u]
  BY <1>1 DEF RewardInv, DecisionInv, LedgerFollowsDecision
<1>9. Ledger!Credit(d)
  BY <1>2, <1>5, <1>6, <1>7, <1>8
  DEF Ledger!Credit, Ledger!Follows, Ledger!Extends, Decided
<1>10. Ledger!OnlyIn(d)
  BY <1>1, <1>2, <1>3, <1>5 DEF Ledger!OnlyIn, Decided, TypeOK, TablesTypeOK
<1>. QED  BY <1>1, <1>9, <1>10 DEF Ledger!Next, Ledger!OnlyIn, Ledger!Credit

LEMMA CommitImplements ==
  ASSUME RewardInv, NEW s \in Settlers, CommitSettlement(s)
  PROVE  [Ledger!Next]_(Ledger!ledgerVars)
<1>. DEFINE d == run[s].day
            n == run[s].network
<1>1. TypeOK /\ d \in Days /\ n \in UnitsByUser
  BY DEF RewardInv, DecisionInv, TypeOK, SettleTypeOK, Run
<1>2. CASE ~Commitable(s)
  BY <1>2 DEF CommitSettlement, rewardTables, Ledger!ledgerVars, Settled
<1>3. CASE Commitable(s)
  <2>1. /\ epochs' = [epochs EXCEPT ![d] = [state |-> "settled", network |-> n]]
        /\ allocations' = [allocations EXCEPT ![d] = n]
    BY <1>3 DEF CommitSettlement
  <2>2. PICK paid \in SUBSET Participants(n) :
          ledger' = [ledger EXCEPT ![d] = Payable(n, paid)]
    BY <1>3 DEF CommitSettlement
  <2>3. ~Settled(d)
    BY <1>3 DEF Commitable, EpochWritable
  <2>4. /\ epochs'[d] = [state |-> "settled", network |-> n]
        /\ allocations'[d] = n
        /\ ledger'[d] = Payable(n, paid)
        /\ \A e \in Days \ {d} : /\ epochs'[e] = epochs[e]
                                  /\ allocations'[e] = allocations[e]
                                  /\ ledger'[e] = ledger[e]
    BY <2>1, <2>2, <1>1 DEF TypeOK, TablesTypeOK
  <2>5. /\ Decided[d] = Undecided
        /\ Decided'[d] = n
        /\ \A e \in Days \ {d} : Decided'[e] = Decided[e]
    BY <2>3, <2>4, <1>1, DecidedAfter DEF Decided
  <2>6. \A u \in Users : ledger[d][u] = {} /\ Payable(n, paid)[u] \in {{}, n[u]}
    BY <2>3, <1>1
    DEF RewardInv, DecisionInv, LedgerFollowsDecision, Payable
  <2>7. Ledger!Fresh(n)
    BY <2>3, FreshNetwork
  <2>8. Ledger!DecideGrantCredit(d)
    BY <2>4, <2>5, <2>6, <2>7, <1>1
    DEF Ledger!DecideGrantCredit, Ledger!Owed, Ledger!Follows, Ledger!Extends,
        UnitsByUser, Decided
  <2>9. Ledger!OnlyIn(d)
    BY <2>4, <2>5 DEF Ledger!OnlyIn, Decided
  <2>. QED  BY <2>8, <2>9, <1>1 DEF Ledger!Next, Ledger!OnlyIn, Ledger!DecideGrantCredit
<1>. QED  BY <1>2, <1>3

(* The close decides its epoch, for the approved unit, and grants nothing. *)
LEMMA CloseImplements ==
  ASSUME RewardInv, CloseByOwner
  PROVE  [Ledger!Next]_(Ledger!ledgerVars)
<1>1. PICK d \in CalibrationDays : CloseCalibration(d)
  BY DEF CloseByOwner
<1>. DEFINE n == ApprovedNetwork(d)
<1>2. TypeOK /\ d \in Days /\ Approved[d] \in Records
  BY SettleAssumption, ApprovedAssumption DEF RewardInv, DecisionInv
<1>3. UNCHANGED <<allocations, ledger>> /\ ~Settled(d)
  BY <1>1 DEF CloseCalibration
<1>4. /\ epochs'[d] = [state |-> "settled", network |-> n]
      /\ \A e \in Days \ {d} : epochs'[e] = epochs[e]
  BY <1>1, <1>2 DEF CloseCalibration, TypeOK, TablesTypeOK
<1>5. /\ Decided[d] = Undecided
      /\ Decided'[d] = n
      /\ \A e \in Days \ {d} : Decided'[e] = Decided[e]
  BY <1>2, <1>3, <1>4, DecidedAfter DEF Decided
<1>6. n \in Ledger!Owed
  BY <1>2 DEF ApprovedNetwork, Ledger!Owed
<1>7. Ledger!Fresh(n)
  <2>1. \A u \in Users : n[u] \subseteq Recorded(u, d)
    BY <1>1, <1>2 DEF ApprovedNetwork, Recorded, CloseCalibration, ApprovedAsShown
  <2>2. \A e \in Days, v \in Users :
          Decided[e] # Undecided => e # d /\ Decided[e][v] \subseteq Recorded(v, e)
    BY <1>5, DecidedFacts DEF RewardInv, CountsRecorded
  <2>. QED  BY <1>2, <2>1, <2>2 DEF Ledger!Fresh, Recorded, Decided
<1>8. Ledger!Decide(d)
  BY <1>3, <1>5, <1>6, <1>7 DEF Ledger!Decide, Decided
<1>9. Ledger!OnlyIn(d)
  BY <1>3, <1>5 DEF Ledger!OnlyIn, Decided
<1>. QED  BY <1>2, <1>8, <1>9 DEF Ledger!Next, Ledger!OnlyIn, Ledger!Decide

LEMMA StepImplements ==
  ASSUME RewardInv, [Next]_vars
  PROVE  [Ledger!Next]_(Ledger!ledgerVars)
<1>1. CASE rewardTables' = rewardTables
  BY <1>1 DEF rewardTables, Ledger!ledgerVars, Settled
<1>2. ASSUME NEW s \in Settlers, Settle(s), rewardTables' # rewardTables
      PROVE  \/ UpsertFinalizing(s) \/ UpsertSettled(s)
             \/ CreditAllocations(s) \/ CreditLedger(s) \/ CommitSettlement(s)
  BY <1>2
  DEF Settle, DispatchStep, BeginSettle, CheckExisting, FixedPoolStep,
      FinalizeLoadState, FinalizeLoadScores, LoadEpochScores, SettleLoadState,
      SettleLoadScores, MarkSettled, BetaStep, TakeLock, CheckUnits,
      CountParticipants, CompareScores
<1>3. ASSUME ~ \E s \in Settlers : Settle(s), ~CloseByOwner
      PROVE  rewardTables' = rewardTables
  BY <1>3 DEF Next, Ingest, Upload, Midnight, NextDay, Crash, CrashSettle, rewardTables,
              vars
<1>. QED
  BY <1>1, <1>2, <1>3, UpsertImplements, AllocateImplements, CreditImplements,
     CommitImplements, CloseImplements

(* Both settlement paths, over any number of runs that race, are retried   *)
(* or die, promise what RewardLedger promises: an epoch is decided once,   *)
(* and allocations and ledger rows are written once, from that decision.   *)
THEOREM Implements == Spec => ImplementsRewardLedger
<1>1. Init => Ledger!Init
  BY DEF Init, TablesInit, Nobody, Ledger!Init, Ledger!None, Settled
<1>2. Spec => []RewardInv
  BY InitReward, NextReward, PTL DEF Spec
<1>. QED
  BY <1>1, <1>2, StepImplements, PTL DEF Spec, ImplementsRewardLedger, Ledger!Spec

(***************************************************************************)
(* A beta epoch settles whole                                              *)
(*                                                                         *)
(* The database function reads and writes in several statements.  What     *)
(* keeps the units it counted until it marks them: the other path has no   *)
(* run on a beta day, no second run of the function is past the day's      *)
(* lock, and a hold leaves the columns the function counts by alone.       *)
(***************************************************************************)

PathFollowsProtocol ==
  \A s \in Settlers :
    /\ run[s].pc \in FixedPoolPc =>
         Protocol(run[s].day) = "mining-dev-v1" /\ run[s].day \notin CalibrationDays
    /\ run[s].pc \in {"b_lock"} \cup BetaPc => Protocol(run[s].day) = "mining-beta-v2"

OneBetaRun ==
  \A s, t \in Settlers :
    run[s].pc \in BetaPc /\ run[t].pc \in BetaPc /\ run[s].day = run[t].day => s = t

CountedStillDue ==
  \A s \in Settlers : run[s].pc \in {"b_scores", "b_commit"} =>
    \A u \in Users : run[s].network[u] \subseteq RecomputedNetwork(run[s].day)[u]

BetaInv ==
  /\ RewardInv
  /\ PathFollowsProtocol /\ OneBetaRun /\ CountedStillDue
  /\ BetaEpochSettlesWhole

LEMMA InitBeta == Init => BetaInv
BY InitReward, TablesAssumption
DEF Init, TablesInit, SettleInit, IdleRun, BetaInv, PathFollowsProtocol, OneBetaRun,
    CountedStillDue, BetaEpochSettlesWhole, Settled, FixedPoolPc, BetaPc

(* Where a settlement step takes its run. *)
LEMMA RunMovesOn ==
  ASSUME TypeOK, NEW s \in Settlers, Settle(s)
  PROVE  /\ \A t \in Settlers \ {s} : run'[t] = run[t]
         /\ \/ run'[s].pc \in {"idle", "check"}
            \/ /\ run'[s].day = run[s].day
               /\ \/ CheckExisting(s) /\ run'[s].pc = "b_lock"
                  \/ CheckExisting(s) /\ run'[s].pc = "f_state"
                  \/ run[s].pc \in FixedPoolPc /\ run'[s].pc \in FixedPoolPc
                  \/ TakeLock(s) /\ run'[s].pc = "b_units"
                  \/ run[s].pc \in BetaPc /\ run'[s].pc = "b_count"
                  \/ CountParticipants(s) /\ run'[s].pc = "b_scores"
                  \/ /\ run[s].pc = "b_scores" /\ run'[s].pc = "b_commit"
                     /\ run'[s].network = run[s].network /\ events' = events
<1>. USE DEF RunAt, Goto, Finish, IdleRun
<1>1. run \in [Settlers -> Run]
  BY DEF TypeOK, SettleTypeOK
<1>. HIDE DEF TypeOK
<1>2. CASE DispatchStep(s)
  <2>1. ASSUME NEW d \in Days, BeginSettle(s, d)
        PROVE  /\ \A t \in Settlers \ {s} : run'[t] = run[t]
               /\ run'[s].pc \in {"idle", "check"}
    BY <1>1, <2>1 DEF BeginSettle
  <2>2. CASE CheckExisting(s)
    BY <1>1, <2>2 DEF CheckExisting, Run
  <2>. QED  BY <1>2, <2>1, <2>2 DEF DispatchStep
<1>3. CASE FixedPoolStep(s)
  <2>. USE DEF FixedPoolPc
  <2>1. CASE FinalizeLoadState(s) \/ SettleLoadState(s)
    BY <2>1, <1>1 DEF FinalizeLoadState, SettleLoadState, Run
  <2>2. CASE FinalizeLoadScores(s) \/ SettleLoadScores(s)
    BY <2>2, <1>1 DEF FinalizeLoadScores, SettleLoadScores, LoadEpochScores, Run
  <2>3. CASE UpsertFinalizing(s) \/ UpsertSettled(s)
    BY <2>3, <1>1 DEF UpsertFinalizing, UpsertSettled, UpsertEpoch, Run
  <2>4. CASE CreditAllocations(s) \/ CreditLedger(s) \/ MarkSettled(s)
    BY <2>4, <1>1 DEF CreditAllocations, CreditLedger, MarkSettled, Run
  <2>. QED  BY <1>3, <2>1, <2>2, <2>3, <2>4 DEF FixedPoolStep
<1>4. CASE BetaStep(s)
  <2>. USE DEF BetaPc
  <2>1. CASE TakeLock(s) \/ CheckUnits(s)
    BY <2>1, <1>1 DEF TakeLock, CheckUnits, Run
  <2>2. CASE CountParticipants(s)
    BY <2>2, <1>1 DEF CountParticipants, Run
  <2>3. CASE CompareScores(s)
    BY <2>3, <1>1 DEF CompareScores, Run
  <2>4. CASE CommitSettlement(s)
    BY <2>4, <1>1 DEF CommitSettlement, Run
  <2>. QED  BY <1>4, <2>1, <2>2, <2>3, <2>4 DEF BetaStep
<1>. QED  BY <1>2, <1>3, <1>4 DEF Settle

(* Who marks an event settled: a run of its epoch, or the close of it.     *)
LEMMA MarkedBy ==
  ASSUME TypeOK, [Next]_vars, NEW r \in Records, Stored(r),
         events'[r].econ # events[r].econ
  PROVE  \/ events[r].epoch \in CalibrationDays
         \/ \E s \in Settlers :
              /\ events[r].epoch = run[s].day
              /\ run[s].pc \in {"s_events", "b_commit"}
              /\ Settle(s)
<1>. USE DEF TypeOK, TablesTypeOK, Stored
<1>1. ASSUME NEW i \in Ingesters, Ingest(i) PROVE events'[r] = events[r]
  <2>1. events' = events \/ \E chunk : events' = WithInserted(i, chunk)
    BY <1>1
    DEF Ingest, IngestStep, StartIngest, LoadKeys, InsertEvents, InsertProofs,
        LoadEventsForDays, ReplaceDailyAggregates, UpsertDailyAggregates,
        LoadEventsForEpochs, UpsertScores, ingestTables
  <2>. QED  BY <2>1 DEF WithInserted
<1>2. ASSUME NEW p \in Uploads, Upload(p) PROVE events'[r].econ = events[r].econ
  <2>1. events' = events \/ \E q : events' =
          [events EXCEPT ![q].dedupe = "conflict", ![q].hold = TRUE]
    BY <1>2 DEF Upload, UploadStep, Correlate, StoreObservation, HoldReward
  <2>2. events'[r] \in {events[r], [events[r] EXCEPT !.dedupe = "conflict", !.hold = TRUE]}
    BY <2>1
  <2>3. events[r] \in EventRow
    OBVIOUS
  <2>. QED  BY <2>2, <2>3 DEF EventRow
<1>3. CASE CloseByOwner
  BY <1>3 DEF CloseByOwner, CloseCalibration, ApprovedAsShown
<1>4. ASSUME NEW s \in Settlers, Settle(s)
      PROVE  /\ events[r].epoch = run[s].day
             /\ run[s].pc \in {"s_events", "b_commit"}
  <2>1. events' # events
    OBVIOUS
  <2>2. CASE MarkSettled(s)
    BY <2>2 DEF MarkSettled, RunAt
  <2>3. CASE CommitSettlement(s)
    BY <2>1, <2>3, TablesAssumption DEF CommitSettlement, RunAt, RecomputedNetwork, rewardTables
  <2>. QED
    BY <1>4, <2>1, <2>2, <2>3
    DEF Settle, DispatchStep, BeginSettle, CheckExisting, FixedPoolStep,
        FinalizeLoadState, FinalizeLoadScores, LoadEpochScores, UpsertFinalizing,
        UpsertEpoch, SettleLoadState, SettleLoadScores, UpsertSettled,
        CreditAllocations, CreditLedger, BetaStep, TakeLock, CheckUnits,
        CountParticipants, CompareScores
<1>5. CASE Midnight \/ Crash \/ UNCHANGED vars
  BY <1>5 DEF Midnight, NextDay, Crash, CrashIngest, CrashSettle, CrashUpload,
              ingestTables, vars
<1>. QED
  BY <1>1, <1>2, <1>3, <1>4, <1>5 DEF Next

LEMMA NextPaths ==
  ASSUME BetaInv, [Next]_vars
  PROVE  PathFollowsProtocol' /\ OneBetaRun'
<1>1. TypeOK /\ PathFollowsProtocol /\ OneBetaRun
  BY DEF BetaInv, RewardInv, DecisionInv
<1>. USE DEF BetaPc, FixedPoolPc
<1>2. CASE \A s \in Settlers : run'[s] \in {run[s], IdleRun}
  BY <1>1, <1>2 DEF PathFollowsProtocol, OneBetaRun, IdleRun
<1>3. ASSUME NEW s \in Settlers, Settle(s)
      PROVE  PathFollowsProtocol' /\ OneBetaRun'
  <2>1. /\ \A t \in Settlers \ {s} : run'[t] = run[t]
        /\ \/ run'[s].pc \in {"idle", "check"}
           \/ /\ run'[s].day = run[s].day
              /\ \/ CheckExisting(s) /\ run'[s].pc = "b_lock"
                 \/ CheckExisting(s) /\ run'[s].pc = "f_state"
                 \/ run[s].pc \in FixedPoolPc /\ run'[s].pc \in FixedPoolPc
                 \/ TakeLock(s) /\ run'[s].pc = "b_units"
                 \/ run[s].pc \in BetaPc /\ run'[s].pc \in BetaPc
    BY <1>1, <1>3, RunMovesOn DEF CountParticipants, RunAt
  <2>2. run[s] \in Run /\ run \in [Settlers -> Run]
    BY <1>1 DEF TypeOK, SettleTypeOK
  <2>3. PathFollowsProtocol'
    <3>1. CASE CheckExisting(s) /\ run'[s].pc \in {"b_lock", "f_state"}
      <4>1. \/ Protocol(run[s].day) = "mining-beta-v2" /\ run'[s].pc = "b_lock"
            \/ /\ Protocol(run[s].day) # "mining-beta-v2"
               /\ run[s].day \notin CalibrationDays
               /\ run'[s].pc = "f_state"
        BY <2>2, <3>1 DEF CheckExisting, Finish, Goto, IdleRun, Run
      <4>. QED  BY <4>1, <3>1, <2>1, <1>1 DEF PathFollowsProtocol, Protocol
    <3>2. CASE TakeLock(s) /\ run'[s].pc = "b_units"
      BY <3>2, <2>1, <1>1 DEF PathFollowsProtocol, TakeLock, RunAt
    <3>. QED  BY <3>1, <3>2, <2>1, <1>1 DEF PathFollowsProtocol
  <2>4. OneBetaRun'
    <3>1. CASE TakeLock(s) /\ run'[s].pc = "b_units"
      BY <3>1, <2>1, <1>1 DEF OneBetaRun, TakeLock
    <3>. QED  BY <3>1, <2>1, <1>1 DEF OneBetaRun
  <2>. QED  BY <2>3, <2>4
<1>. QED
  BY <1>1, <1>2, <1>3
  DEF Next, Ingest, Upload, CloseByOwner, Midnight, Crash, CrashSettle, Finish, vars,
      TypeOK, SettleTypeOK

LEMMA NextStillDue ==
  ASSUME BetaInv, [Next]_vars, ColumnsKept
  PROVE  CountedStillDue'
<1>1. /\ TypeOK /\ PathFollowsProtocol /\ OneBetaRun /\ CountedStillDue
      /\ run \in [Settlers -> Run]
  BY DEF BetaInv, RewardInv, DecisionInv, TypeOK, SettleTypeOK
<1>. DEFINE Due(u, d) == {r \in Records : /\ events'[r] # NoEvent
                                         /\ Owner[r] = u
                                         /\ events'[r].epoch = d
                                         /\ events'[r].reward = "eligible"
                                         /\ events'[r].econ = "eligible"}
<1>. SUFFICES ASSUME NEW t \in Settlers, NEW u \in Users,
                     run'[t].pc \in {"b_scores", "b_commit"}
              PROVE  run'[t].network[u] \subseteq Due(u, run'[t].day)
  BY DEF CountedStillDue, RecomputedNetwork, StoredRecords, Stored
<1>2. CASE CountParticipants(t)
  BY <1>1, <1>2 DEF CountParticipants, RecomputedNetwork, StoredRecords, Stored, Run
<1>3. CASE /\ run[t].pc \in {"b_scores", "b_commit"}
           /\ run'[t].day = run[t].day /\ run'[t].network = run[t].network
           /\ events' = events \/ run'[t] = run[t]
  <2>. DEFINE d == run[t].day
  <2>. SUFFICES ASSUME NEW r \in run[t].network[u] PROVE r \in Due(u, d)
    BY <1>3
  <2>1. /\ r \in Records /\ Stored(r) /\ Owner[r] = u
        /\ events[r].epoch = d
        /\ events[r].reward = "eligible" /\ events[r].econ = "eligible"
    BY <1>1, <1>3 DEF CountedStillDue, RecomputedNetwork, StoredRecords
  <2>2. events'[r].econ = events[r].econ
    <3>. SUFFICES ASSUME events'[r].econ # events[r].econ PROVE FALSE
      OBVIOUS
    <3>1. Protocol(d) = "mining-beta-v2"
      BY <1>1, <1>3 DEF PathFollowsProtocol, BetaPc
    <3>2. d \notin CalibrationDays
      BY <3>1, CalibrationAssumption
    <3>3. PICK s \in Settlers : /\ run[s].day = d
                                /\ run[s].pc \in {"s_events", "b_commit"}
                                /\ Settle(s)
      BY <1>1, <2>1, <3>2, MarkedBy
    <3>4. s = t
      BY <1>1, <1>3, <3>1, <3>3 DEF PathFollowsProtocol, OneBetaRun, BetaPc, FixedPoolPc
    <3>5. run'[s].pc \notin {"b_scores", "b_commit"}
      BY <1>1, <3>3, RunMovesOn DEF CheckExisting, CountParticipants, RunAt, FixedPoolPc
    <3>. QED  BY <3>4, <3>5
  <2>. QED  BY <2>1, <2>2 DEF ColumnsKept, Stored
<1>4. ASSUME NEW s \in Settlers, Settle(s)
      PROVE  \/ run'[t] = run[t]
             \/ CountParticipants(t)
             \/ /\ run[t].pc = "b_scores" /\ events' = events
                /\ run'[t].day = run[t].day /\ run'[t].network = run[t].network
  BY <1>1, <1>4, RunMovesOn DEF FixedPoolPc
<1>5. CASE run'[t] \in {run[t], IdleRun}
  BY <1>3, <1>5 DEF IdleRun
<1>. QED
  BY <1>1, <1>2, <1>3, <1>4, <1>5
  DEF Next, Ingest, Upload, CloseByOwner, Midnight, Crash, CrashSettle, Finish, vars,
      TypeOK, SettleTypeOK

(* What a step of a run does to the rows of an epoch. *)
LEMMA RowsWrittenBy ==
  ASSUME TypeOK, NEW s \in Settlers, Settle(s), NEW d \in Days
  PROVE  \/ epochs'[d] = epochs[d] /\ allocations'[d] = allocations[d]
         \/ run[s].day = d /\ run[s].pc \in FixedPoolPc
         \/ run[s].day = d /\ CommitSettlement(s) /\ Commitable(s)
<1>1. run[s].day \in Days
  BY DEF TypeOK, SettleTypeOK, Run
<1>2. CASE rewardTables' = rewardTables
  BY <1>2 DEF rewardTables
<1>3. CASE \/ UpsertFinalizing(s) \/ UpsertSettled(s)
           \/ CreditAllocations(s) \/ CreditLedger(s)
  <2>1. run[s].pc \in FixedPoolPc
    BY <1>3 DEF UpsertFinalizing, UpsertSettled, UpsertEpoch, CreditAllocations,
                CreditLedger, RunAt, FixedPoolPc
  <2>2. d # run[s].day => epochs'[d] = epochs[d] /\ allocations'[d] = allocations[d]
    BY <1>1, <1>3 DEF UpsertFinalizing, UpsertSettled, UpsertEpoch, CreditAllocations,
                      CreditLedger, TypeOK, TablesTypeOK
  <2>. QED  BY <2>1, <2>2
<1>4. CASE CommitSettlement(s)
  BY <1>1, <1>4 DEF CommitSettlement, rewardTables, TypeOK, TablesTypeOK
<1>. QED
  BY <1>2, <1>3, <1>4
  DEF Settle, DispatchStep, BeginSettle, CheckExisting, FixedPoolStep,
      FinalizeLoadState, FinalizeLoadScores, LoadEpochScores, SettleLoadState,
      SettleLoadScores, MarkSettled, BetaStep, TakeLock, CheckUnits,
      CountParticipants, CompareScores

LEMMA NextWhole ==
  ASSUME BetaInv, [Next]_vars, ColumnsKept, [Kept]_vars
  PROVE  BetaEpochSettlesWhole'
<1>1. TypeOK /\ PathFollowsProtocol /\ CountedStillDue /\ BetaEpochSettlesWhole
  BY DEF BetaInv, RewardInv, DecisionInv
<1>. SUFFICES ASSUME NEW d \in Days, epochs'[d].state = "settled",
                     Protocol(d) = "mining-beta-v2"
              PROVE  /\ allocations'[d] = epochs'[d].network
                     /\ \A u \in Users : \A r \in epochs'[d].network[u] :
                          events'[r].econ = "settled"
  BY DEF BetaEpochSettlesWhole, Settled
<1>2. CASE epochs'[d] = epochs[d] /\ allocations'[d] = allocations[d]
  <2>1. ASSUME NEW u \in Users, NEW r \in epochs[d].network[u]
        PROVE  events'[r] = events[r]
    <3>1. r \in Records /\ Stored(r)
      BY DEF BetaInv, RewardInv, CountsRecorded, Recorded
    <3>2. events[r].econ = "settled"
      BY <1>1, <1>2 DEF BetaEpochSettlesWhole, Settled
    <3>. QED  BY <3>1, <3>2 DEF Kept, SettledEventsKept, vars, ingestTables
  <2>. QED  BY <1>1, <1>2, <2>1 DEF BetaEpochSettlesWhole, Settled
<1>3. ASSUME NEW s \in Settlers, run[s].day = d, CommitSettlement(s), Commitable(s)
      PROVE  /\ allocations'[d] = epochs'[d].network
             /\ \A u \in Users : \A r \in epochs'[d].network[u] :
                  events'[r].econ = "settled"
  <2>1. epochs'[d].network = run[s].network /\ allocations'[d] = run[s].network
    BY <1>1, <1>3 DEF CommitSettlement, TypeOK, TablesTypeOK
  <2>2. ASSUME NEW u \in Users, NEW r \in run[s].network[u]
        PROVE  events'[r].econ = "settled"
    <3>1. r \in RecomputedNetwork(d)[u]
      BY <1>1, <1>3 DEF CommitSettlement, RunAt, CountedStillDue
    <3>2. r \in Records /\ Owner[r] = u /\ Stored(r)
      BY <3>1 DEF RecomputedNetwork, StoredRecords
    <3>3. events'[r] = [events[r] EXCEPT !.econ = "settled"]
      BY <1>3, <3>1, <3>2 DEF CommitSettlement
    <3>4. events[r] \in EventRow
      BY <1>1, <3>2 DEF TypeOK, TablesTypeOK, Stored
    <3>. QED  BY <3>3, <3>4 DEF EventRow
  <2>. QED  BY <2>1, <2>2
<1>4. ASSUME NEW s \in Settlers, run[s].day = d, run[s].pc \in FixedPoolPc
      PROVE  FALSE
  BY <1>1, <1>4 DEF PathFollowsProtocol
<1>5. CASE CloseByOwner
  BY <1>1, <1>2, <1>5, CalibrationAssumption
  DEF CloseByOwner, CloseCalibration, TypeOK, TablesTypeOK
<1>6. ASSUME ~ \E s \in Settlers : Settle(s), ~CloseByOwner
      PROVE  rewardTables' = rewardTables
  BY <1>6 DEF Next, Ingest, Upload, Midnight, NextDay, Crash, CrashSettle, rewardTables,
              vars
<1>. QED
  BY <1>1, <1>2, <1>3, <1>4, <1>5, <1>6, RowsWrittenBy DEF rewardTables

LEMMA NextBeta == BetaInv /\ [Next]_vars => BetaInv'
<1>. SUFFICES ASSUME BetaInv, [Next]_vars PROVE BetaInv'
  OBVIOUS
<1>1. RewardInv' /\ ColumnsKept
  BY NextReward, NextColumnsKept DEF BetaInv, RewardInv, DecisionInv
<1>2. [Kept]_vars
  BY IngestKeeps, SettleKeeps, CloseKeeps, OtherKeeps
  DEF Next, BetaInv, RewardInv, DecisionInv
<1>. QED  BY <1>1, <1>2, NextPaths, NextStillDue, NextWhole DEF BetaInv

(* A beta epoch that is settled has the allocation of each participant,    *)
(* and every unit it paid for is marked, whatever ran between the          *)
(* statements of the function: so that no unit can be counted again.       *)
THEOREM BetaSettlesWhole == Spec => []BetaEpochSettlesWhole
<1>1. BetaInv => BetaEpochSettlesWhole
  BY DEF BetaInv
<1>. QED  BY <1>1, InitBeta, NextBeta, PTL DEF Spec

(***************************************************************************)
(* One credit per key, and none that is held                               *)
(*                                                                         *)
(* Where no device disagrees with a trusted event: a disagreement frees    *)
(* the key's slot while a score still counts the held unit, and then both  *)
(* statements fail.  Without one, the row a unit is inserted with says all *)
(* there is to say of it: one that earns is not held, and if keyed it is   *)
(* THE unit of its key, of which the index keeps one.                      *)
(***************************************************************************)

EarnsAsUnit(r, row) ==
  row.reward = "eligible" => ~row.hold /\ (KeyOf[r] # NoKey => row.dedupe = "unique")

RowsEarnAsUnits ==
  /\ \A r \in StoredRecords : EarnsAsUnit(r, events[r])
  /\ \A i \in Ingesters, r \in Records :
       ing[i].rows[r] # NoEvent => EarnsAsUnit(r, ing[i].rows[r])

NothingConflicts ==
  \A p \in Uploads : upload[p].pc # "hold" /\ ~upload[p].conflict

KeyInv ==
  RewardInv /\ RowsEarnAsUnits /\ KeepsOneUnitPerKey(events) /\ NothingConflicts

LEMMA InitKey == Init => KeyInv
BY InitReward, TablesAssumption, TelemetryAssumption
DEF Init, TablesInit, IngestInit, IdleJob, NoRows, TelemetryInit, KeyInv,
    RowsEarnAsUnits, StoredRecords, Stored, KeepsOneUnitPerKey, NothingConflicts

LEMMA NextNothingConflicts ==
  ASSUME Disagreeing = {}, KeyInv, [Next]_vars
  PROVE  NothingConflicts'
<1>1. TelemetryTypeOK /\ NothingConflicts
  BY DEF KeyInv, RewardInv, DecisionInv, TypeOK
<1>. USE DEF NothingConflicts, TelemetryTypeOK
<1>2. ASSUME NEW p \in Uploads, Done(p) PROVE NothingConflicts'
  BY <1>1, <1>2 DEF Done, UploadState
<1>3. ASSUME NEW p \in Uploads, Upload(p) PROVE NothingConflicts'
  <2>1. CASE Correlate(p)
    <3>1. PICK r \in Reported : upload' = [upload EXCEPT ![p] =
            [pc |-> "store", item |-> r, conflict |-> Stored(r) /\ r \in Disagreeing]]
      BY <2>1 DEF Correlate
    <3>2. (Stored(r) /\ r \in Disagreeing) = FALSE
      OBVIOUS
    <3>3. upload' = [upload EXCEPT ![p] = [pc |-> "store", item |-> r, conflict |-> FALSE]]
      BY <3>1, <3>2, Zenon
    <3>. QED  BY <1>1, <3>3
  <2>2. CASE StoreObservation(p)
    BY <1>1, <1>2, <2>2 DEF StoreObservation
  <2>. QED  BY <1>1, <1>3, <2>1, <2>2 DEF Upload, UploadStep, HoldReward
<1>4. CASE upload' = upload
  BY <1>1, <1>4
<1>. QED
  BY <1>2, <1>3, <1>4
  DEF Next, Ingest, Settle, CloseByOwner, Midnight, Crash, CrashUpload, telemetryVars, vars

(* Of a stored row only the economic status moves. *)
LEMMA RowsStay ==
  ASSUME TypeOK, NothingConflicts, [Next]_vars, NEW r \in Records, Stored(r)
  PROVE  /\ events'[r].dedupe = events[r].dedupe
         /\ events'[r].hold = events[r].hold
<1>. USE DEF TypeOK, TablesTypeOK, Stored
<1>1. events[r] \in EventRow
  OBVIOUS
<1>2. CASE events'[r] \in {events[r], [events[r] EXCEPT !.econ = "settled"]}
  BY <1>1, <1>2 DEF EventRow
<1>3. ASSUME NEW i \in Ingesters, Ingest(i) PROVE events'[r] = events[r]
  <2>1. events' = events \/ \E chunk : events' = WithInserted(i, chunk)
    BY <1>3
    DEF Ingest, IngestStep, StartIngest, LoadKeys, InsertEvents, InsertProofs,
        LoadEventsForDays, ReplaceDailyAggregates, UpsertDailyAggregates,
        LoadEventsForEpochs, UpsertScores, ingestTables
  <2>. QED  BY <2>1 DEF WithInserted
<1>4. ASSUME NEW p \in Uploads, Upload(p) PROVE events' = events
  BY <1>4 DEF Upload, UploadStep, Correlate, StoreObservation, HoldReward, NothingConflicts
<1>5. CASE CloseByOwner
  <2>1. PICK q : events' = [events EXCEPT ![q].econ = "settled"]
    BY <1>5 DEF CloseByOwner, CloseCalibration
  <2>. QED  BY <2>1, <1>2
<1>6. ASSUME NEW s \in Settlers, Settle(s)
      PROVE  events'[r] \in {events[r], [events[r] EXCEPT !.econ = "settled"]}
  BY <1>6
  DEF Settle, DispatchStep, BeginSettle, CheckExisting, FixedPoolStep,
      FinalizeLoadState, FinalizeLoadScores, LoadEpochScores, UpsertFinalizing,
      UpsertEpoch, SettleLoadState, SettleLoadScores, UpsertSettled, MarkSettled,
      CreditAllocations, CreditLedger, BetaStep, TakeLock, CheckUnits,
      CountParticipants, CompareScores, CommitSettlement
<1>7. CASE Midnight \/ Crash \/ UNCHANGED vars
  BY <1>7 DEF Midnight, NextDay, Crash, CrashIngest, CrashSettle, CrashUpload,
              ingestTables, vars
<1>. QED
  BY <1>2, <1>3, <1>4, <1>5, <1>6, <1>7 DEF Next

(* Only an insert request that the index lets through stores a row. *)
LEMMA StoredBy ==
  ASSUME TypeOK, [Next]_vars, NEW r \in Records, ~Stored(r), Stored(r)'
  PROVE  \E i \in Ingesters : /\ Ingest(i) /\ InsertEvents(i)
                              /\ events'[r] = ing[i].rows[r]
                              /\ KeepsOneUnitPerKey(events')
<1>. USE DEF TypeOK, TablesTypeOK, Stored
<1>1. ASSUME NEW i \in Ingesters, Ingest(i)
      PROVE  /\ InsertEvents(i)
             /\ events'[r] = ing[i].rows[r]
             /\ KeepsOneUnitPerKey(events')
  <2>1. InsertEvents(i)
    BY <1>1
    DEF Ingest, IngestStep, StartIngest, LoadKeys, InsertProofs,
        LoadEventsForDays, ReplaceDailyAggregates, UpsertDailyAggregates,
        LoadEventsForEpochs, UpsertScores, ingestTables
  <2>2. PICK chunk : events' = WithInserted(i, chunk) /\ KeepsOneUnitPerKey(events')
    BY <2>1 DEF InsertEvents
  <2>. QED  BY <2>1, <2>2 DEF WithInserted
<1>2. ASSUME NEW p \in Uploads, Upload(p) PROVE FALSE
  BY <1>2 DEF Upload, UploadStep, Correlate, StoreObservation, HoldReward, EventWritable
<1>3. CASE CloseByOwner
  BY <1>3 DEF CloseByOwner, CloseCalibration, ApprovedAsShown
<1>4. ASSUME NEW s \in Settlers, Settle(s) PROVE FALSE
  <2>1. CASE MarkSettled(s)
    BY <2>1 DEF MarkSettled
  <2>2. CASE CommitSettlement(s)
    BY <2>2, TablesAssumption DEF CommitSettlement, RecomputedNetwork, StoredRecords, rewardTables
  <2>. QED
    BY <1>4, <2>1, <2>2
    DEF Settle, DispatchStep, BeginSettle, CheckExisting, FixedPoolStep,
        FinalizeLoadState, FinalizeLoadScores, LoadEpochScores, UpsertFinalizing,
        UpsertEpoch, SettleLoadState, SettleLoadScores, UpsertSettled,
        CreditAllocations, CreditLedger, BetaStep, TakeLock, CheckUnits,
        CountParticipants, CompareScores
<1>5. CASE Midnight \/ Crash \/ UNCHANGED vars
  BY <1>5 DEF Midnight, NextDay, Crash, CrashIngest, CrashSettle, CrashUpload,
              ingestTables, vars
<1>. QED
  BY <1>1, <1>2, <1>3, <1>4, <1>5 DEF Next

(* The rows a run holds are those it built. *)
LEMMA BuiltRows ==
  ASSUME TypeOK, [Next]_vars, NEW i \in Ingesters, NEW r \in Records,
         ing'[i].rows[r] # NoEvent
  PROVE  \/ ing'[i].rows[r] = ing[i].rows[r]
         \/ \E d \in Days : \E F : ing'[i].rows[r] = RowToInsert(r, d, F)
<1>1. ing \in [Ingesters -> Job] /\ ing[i] \in Job
  BY DEF TypeOK, IngestTypeOK
<1>. HIDE DEF TypeOK
<1>2. CASE ing'[i] = ing[i]
  BY <1>2
<1>3. CASE Return(i)
  BY <1>1, <1>3 DEF Return, IdleJob, NoRows
<1>4. CASE Ingest(i) /\ StartIngest(i)
  <2>1. PICK B, t : ing' = [ing EXCEPT ![i] = [IdleJob EXCEPT !.pc = "dedupe",
                              !.batch = B, !.target = t]]
    BY <1>4 DEF StartIngest
  <2>. QED  BY <1>1, <2>1 DEF IdleJob, NoRows
<1>5. CASE Ingest(i) /\ LoadKeys(i)
  <2>1. PICK F : ing' = [ing EXCEPT
           ![i].pc = "insert",
           ![i].todo = ing[i].batch,
           ![i].rows = [q \in Records |->
              IF q \in ing[i].batch
              THEN RowToInsert(q, ing[i].target[q], F)
              ELSE NoEvent]]
    BY <1>5 DEF LoadKeys
  <2>2. ing'[i].rows = [q \in Records |->
              IF q \in ing[i].batch
              THEN RowToInsert(q, ing[i].target[q], F)
              ELSE NoEvent]
    BY <1>1, <2>1 DEF Job
  <2>3. ing[i].target[r] \in Days
    BY <1>1 DEF Job
  <2>. QED  BY <2>2, <2>3
<1>6. CASE Ingest(i) /\ InsertEvents(i)
  <2>. SUFFICES ASSUME ~Return(i) PROVE ing'[i].rows = ing[i].rows
    BY <1>3
  <2>1. PICK f, t, pc : ing' = [ing EXCEPT ![i].fresh = f, ![i].todo = t, ![i].pc = pc]
    <3>1. PICK chunk : ing' = [ing EXCEPT
                    ![i].fresh = @ \cup {q \in chunk : ~Stored(q)},
                    ![i].todo = @ \ chunk,
                    ![i].pc = IF ing[i].todo = chunk THEN "proofs" ELSE @]
      BY <1>6 DEF InsertEvents
    <3>. QED  BY <3>1
  <2>. QED  BY <1>1, <2>1 DEF Job
<1>7. CASE Ingest(i) /\ (InsertProofs(i) \/ LoadEventsForDays(i) \/ ReplaceDailyAggregates(i)
                         \/ UpsertDailyAggregates(i) \/ LoadEventsForEpochs(i))
  BY <1>1, <1>7
  DEF InsertProofs, LoadEventsForDays, ReplaceDailyAggregates, UpsertDailyAggregates,
      LoadEventsForEpochs, NoRows, Job
<1>8. CASE Ingest(i)
  BY <1>3, <1>4, <1>5, <1>6, <1>7, <1>8 DEF Ingest, IngestStep, UpsertScores
<1>9. ASSUME NEW j \in Ingesters, j # i, Ingest(j) PROVE ing'[i] = ing[i]
  BY <1>1, <1>9
  DEF Ingest, IngestStep, StartIngest, LoadKeys, InsertEvents, InsertProofs,
      LoadEventsForDays, ReplaceDailyAggregates, UpsertDailyAggregates,
      LoadEventsForEpochs, UpsertScores, Return
<1>10. ASSUME NEW j \in Ingesters, CrashIngest(j) PROVE ing'[i] = ing[i] \/ Return(i)
  BY <1>1, <1>10 DEF CrashIngest, Return
<1>. QED
  BY <1>2, <1>3, <1>8, <1>9, <1>10
  DEF Next, Settle, Upload, CloseByOwner, Midnight, Crash, vars

LEMMA BuiltRowEarns ==
  ASSUME NEW r \in Records, NEW d, NEW F
  PROVE  EarnsAsUnit(r, RowToInsert(r, d, F))
<1>1. CASE IsDuplicate(r, F)
  BY <1>1 DEF EarnsAsUnit, RowToInsert
<1>2. CASE ~IsDuplicate(r, F) /\ CarriedAcrossPricing(r, d)
  BY <1>2 DEF EarnsAsUnit, RowToInsert
<1>3. CASE ~IsDuplicate(r, F) /\ ~CarriedAcrossPricing(r, d)
  <2>1. RowToInsert(r, d, F).hold = (IsDuplicate(r, F) \/ CarriedAcrossPricing(r, d))
    BY Zenon DEF RowToInsert
  <2>2. RowToInsert(r, d, F).dedupe = IF KeyOf[r] # NoKey THEN "unique" ELSE "unkeyed"
    BY <1>3 DEF RowToInsert
  <2>. QED  BY <1>3, <2>1, <2>2 DEF EarnsAsUnit
<1>. QED  BY <1>1, <1>2, <1>3

LEMMA NextKey ==
  ASSUME Disagreeing = {}, KeyInv, [Next]_vars
  PROVE  KeyInv'
<1>1. TypeOK /\ NothingConflicts /\ RowsEarnAsUnits /\ KeepsOneUnitPerKey(events)
  BY DEF KeyInv, RewardInv, DecisionInv
<1>2. RewardInv' /\ ColumnsKept
  BY <1>1, NextReward, NextColumnsKept DEF KeyInv
<1>3. RowsEarnAsUnits'
  <2>1. ASSUME NEW r \in Records, Stored(r)' PROVE EarnsAsUnit(r, events'[r])
    <3>1. CASE Stored(r)
      BY <1>1, <1>2, <3>1, RowsStay
      DEF ColumnsKept, RowsEarnAsUnits, EarnsAsUnit, StoredRecords
    <3>2. CASE ~Stored(r)
      <4>1. PICK i \in Ingesters : events'[r] = ing[i].rows[r]
        BY <1>1, <2>1, <3>2, StoredBy
      <4>. QED  BY <1>1, <2>1, <4>1 DEF RowsEarnAsUnits, Stored
    <3>. QED  BY <3>1, <3>2
  <2>2. ASSUME NEW i \in Ingesters, NEW r \in Records, ing'[i].rows[r] # NoEvent
        PROVE  EarnsAsUnit(r, ing'[i].rows[r])
    BY <1>1, <2>2, BuiltRows, BuiltRowEarns DEF RowsEarnAsUnits
  <2>. QED  BY <2>1, <2>2 DEF RowsEarnAsUnits, StoredRecords, EarnsAsUnit
<1>4. KeepsOneUnitPerKey(events)'
  <2>1. CASE \E r \in Records : ~Stored(r) /\ Stored(r)'
    BY <1>1, <2>1, StoredBy
  <2>2. CASE \A r \in Records : Stored(r)' => Stored(r)
    <3>1. \A r \in Records : Stored(r)' => events'[r].dedupe = events[r].dedupe
      BY <1>1, <2>2, RowsStay
    <3>. QED  BY <1>1, <2>2, <3>1 DEF KeepsOneUnitPerKey, Stored
  <2>. QED  BY <2>1, <2>2
<1>. QED  BY <1>2, <1>3, <1>4, NextNothingConflicts DEF KeyInv

(* What is credited is recorded for reward, as its user's. *)
LEMMA CreditedRecorded ==
  ASSUME RewardInv
  PROVE  \A r \in CreditedUnits :
           \E d \in Days, u \in Users : r \in ledger[d][u] /\ r \in Recorded(u, d)
BY DEF CreditedUnits, RewardInv, DecisionInv, LedgerFollowsDecision, CountsRecorded

(* Two units that are recorded for reward are never of one key. *)
LEMMA OneUnitPerKey ==
  ASSUME KeyInv, NEW r, NEW q, r # q, KeyOf[r] # NoKey,
         NEW d \in Days, NEW u \in Users, r \in Recorded(u, d),
         NEW e \in Days, NEW v \in Users, q \in Recorded(v, e)
  PROVE  KeyOf[r] # KeyOf[q]
BY DEF KeyInv, Recorded, RowsEarnAsUnits, EarnsAsUnit, StoredRecords, Stored,
       KeepsOneUnitPerKey

(* One authoritative compute, at most one credit: however many accounts,   *)
(* sources and invocations present it, while no device disagrees.          *)
THEOREM OneCredit ==
  ASSUME Disagreeing = {}
  PROVE  Spec => []OneCreditPerKey
<1>1. KeyInv => OneCreditPerKey
  <2>. SUFFICES ASSUME KeyInv, NEW r \in CreditedUnits, NEW q \in CreditedUnits,
                       r # q, KeyOf[r] # NoKey
                PROVE  KeyOf[r] # KeyOf[q]
    BY DEF OneCreditPerKey
  <2>. QED  BY CreditedRecorded, OneUnitPerKey DEF KeyInv
<1>2. KeyInv /\ [Next]_vars => KeyInv'
  BY NextKey
<1>. QED  BY <1>1, <1>2, InitKey, PTL DEF Spec

(* The ledger is credited from the memory of a run. *)
LEMMA CreditedFromRun ==
  ASSUME TypeOK, [Next]_vars, NEW d \in Days, NEW u \in Users,
         ~(ledger'[d][u] \subseteq ledger[d][u])
  PROVE  \E s \in Settlers :
           /\ CreditLedger(s) \/ CommitSettlement(s)
           /\ d = run[s].day
           /\ ledger'[d][u] \subseteq run[s].network[u]
<1>. USE DEF TypeOK, TablesTypeOK
<1>1. ASSUME NEW s \in Settlers, Settle(s)
      PROVE  /\ CreditLedger(s) \/ CommitSettlement(s)
             /\ d = run[s].day
             /\ ledger'[d][u] \subseteq run[s].network[u]
  <2>. DEFINE n == run[s].network
  <2>1. run[s].day \in Days /\ n \in UnitsByUser
    BY DEF SettleTypeOK, Run
  <2>2. CASE CreditLedger(s)
    <3>1. PICK paid : ledger' = [ledger EXCEPT ![run[s].day] =
                                   InsertIgnore(@, Payable(n, paid))]
      BY <2>2 DEF CreditLedger
    <3>. QED  BY <2>1, <2>2, <3>1 DEF InsertIgnore, Payable
  <2>3. CASE CommitSettlement(s)
    <3>1. PICK paid : ledger' = [ledger EXCEPT ![run[s].day] = Payable(n, paid)]
      BY <2>3 DEF CommitSettlement, rewardTables
    <3>. QED  BY <2>1, <2>3, <3>1 DEF Payable
  <2>4. CASE ledger' = ledger
    BY <2>4
  <2>. QED
    BY <1>1, <2>2, <2>3, <2>4
    DEF Settle, DispatchStep, BeginSettle, CheckExisting, FixedPoolStep,
        FinalizeLoadState, FinalizeLoadScores, LoadEpochScores, UpsertFinalizing,
        UpsertEpoch, SettleLoadState, SettleLoadScores, UpsertSettled, MarkSettled,
        CreditAllocations, BetaStep, TakeLock, CheckUnits,
        CountParticipants, CompareScores, rewardTables
<1>2. CASE ledger' = ledger
  BY <1>2
<1>. QED
  BY <1>1, <1>2
  DEF Next, Ingest, Upload, CloseByOwner, CloseCalibration, Midnight, NextDay, Crash,
      CrashSettle, rewardTables, vars

(***************************************************************************)
(* Calibration days                                                        *)
(***************************************************************************)

(* The paths that credit do not run on a calibration day. *)
CalibrationUnpaid ==
  \A d \in CalibrationDays, u \in Users : ledger[d][u] = {}

CalibrationInv == BetaInv /\ CalibrationUnpaid

LEMMA InitCalibration == Init => CalibrationInv
BY InitBeta, SettleAssumption
DEF Init, TablesInit, Nobody, CalibrationInv, CalibrationUnpaid

LEMMA NextCalibration == CalibrationInv /\ [Next]_vars => CalibrationInv'
<1>. SUFFICES ASSUME CalibrationInv, [Next]_vars PROVE CalibrationInv'
  OBVIOUS
<1>1. TypeOK /\ PathFollowsProtocol
  BY DEF CalibrationInv, BetaInv, RewardInv, DecisionInv
<1>2. ASSUME NEW d \in CalibrationDays, NEW u \in Users
      PROVE  ledger'[d][u] = {}
  <2>1. d \in Days /\ ledger[d][u] = {} /\ Protocol(d) # "mining-beta-v2"
    BY SettleAssumption, CalibrationAssumption DEF CalibrationInv, CalibrationUnpaid
  <2>2. ASSUME NEW s \in Settlers, CreditLedger(s) \/ CommitSettlement(s), d = run[s].day
        PROVE  FALSE
    BY <1>1, <2>1, <2>2
    DEF PathFollowsProtocol, CreditLedger, CommitSettlement, RunAt, FixedPoolPc, BetaPc
  <2>. QED  BY <1>1, <2>1, <2>2, CreditedFromRun
<1>. QED
  BY <1>2, NextBeta DEF CalibrationInv, CalibrationUnpaid

(* The compute of a calibration day earned its zero there: neither its     *)
(* unit nor another account's view of it is ever credited, by a run that   *)
(* comes before the close, is under way at it, or comes after.             *)
THEOREM CalibrationNeverCredited ==
  ASSUME Disagreeing = {}
  PROVE  Spec => []CalibratedNeverCredited
<1>1. KeyInv /\ CalibrationInv => CalibratedNeverCredited
  <2>. SUFFICES ASSUME KeyInv, CalibrationInv, NEW d \in CalibrationDays, Settled(d),
                       NEW r \in CreditedUnits, NEW u \in Users,
                       NEW q \in epochs[d].network[u]
                PROVE  r # q /\ (KeyOf[q] # NoKey => KeyOf[r] # KeyOf[q])
    BY DEF CalibratedNeverCredited
  <2>1. d \in Days /\ q \in Recorded(u, d)
    BY SettleAssumption DEF KeyInv, RewardInv, CountsRecorded
  <2>2. PICK e \in Days, v \in Users : r \in ledger[e][v] /\ r \in Recorded(v, e)
    BY CreditedRecorded DEF KeyInv
  <2>3. e # d
    BY <2>2 DEF CalibrationInv, CalibrationUnpaid
  <2>4. r # q
    BY <2>1, <2>2, <2>3 DEF Recorded
  <2>. QED  BY <2>1, <2>2, <2>4, OneUnitPerKey
<1>2. KeyInv /\ [Next]_vars => KeyInv'
  BY NextKey
<1>. QED
  BY <1>1, <1>2, InitKey, InitCalibration, NextCalibration, PTL DEF Spec

(***************************************************************************)
(* A batch counts its days                                                 *)
(*                                                                         *)
(* The view of a batch is every stored event of its user on its days from  *)
(* the read to the rewrite, and the days are empty between the two, as     *)
(* long as nobody else works for that user.  Nothing is said of what a     *)
(* batch that died left: the next one deletes it.                          *)
(***************************************************************************)

OnDay(u, d) == {r \in StoredRecords : Owner[r] = u /\ OccurredOn[r] = d}

OfOneUser(i) ==
  /\ ing[i].todo \subseteq ing[i].batch
  /\ ~At(i, "idle") =>
       /\ BatchUser(i) \in Users
       /\ \A r \in ing[i].batch : Owner[r] = BatchUser(i)

SeenBy(i) ==
  {r \in StoredRecords :
     Owner[r] = BatchUser(i) /\ InSpan(OccurredOn[r], BatchDays(i))}

ViewCurrent(i) ==
  /\ ing[i].pc \in {"replace", "aggregate"} => ing[i].view = SeenBy(i)
  /\ At(i, "aggregate") =>
       \A d \in BatchDays(i) : aggregates[BatchUser(i)][d] = {}
  /\ ing[i].pc \in {"epochs", "score"} =>
       \A d \in BatchDays(i) : aggregates[BatchUser(i)][d] = OnDay(BatchUser(i), d)

CountInv == TypeOK /\ \A i \in Ingesters : OfOneUser(i) /\ ViewCurrent(i)

LEMMA InitCount == Init => CountInv
BY InitType
DEF Init, IngestInit, IdleJob, CountInv, OfOneUser, ViewCurrent, At

(* A step that leaves an invocation, its user's events and its user's      *)
(* aggregates alone leaves what was said of it.                            *)
LEMMA OthersCount ==
  ASSUME CountInv, NEW i \in Ingesters, ing'[i] = ing[i],
         \A r \in Records : Owner[r] = BatchUser(i) => (Stored(r)' <=> Stored(r)),
         ~At(i, "idle") => aggregates'[BatchUser(i)] = aggregates[BatchUser(i)]
  PROVE  (OfOneUser(i) /\ ViewCurrent(i))'
<1>1. BatchUser(i)' = BatchUser(i) /\ BatchDays(i)' = BatchDays(i)
  BY DEF BatchUser, BatchDays
<1>2. OfOneUser(i) /\ ViewCurrent(i)
  BY DEF CountInv
<1>3. SeenBy(i)' = SeenBy(i)
  BY <1>1 DEF SeenBy, StoredRecords
<1>4. \A d : OnDay(BatchUser(i), d)' = OnDay(BatchUser(i), d)
  BY <1>1 DEF OnDay, StoredRecords
<1>5. OfOneUser(i)'
  BY <1>1, <1>2 DEF OfOneUser, At
<1>6. ViewCurrent(i)'
  BY <1>1, <1>2, <1>3, <1>4 DEF ViewCurrent, At
<1>. QED  BY <1>5, <1>6

(* A step of an invocation disturbs nobody who works for another user.     *)
LEMMA StepKeepsOthers ==
  ASSUME CountInv, SerialUploads, NEW i \in Ingesters, IngestStep(i),
         NEW j \in Ingesters, j # i
  PROVE  (OfOneUser(j) /\ ViewCurrent(j))'
<1>1. /\ ing \in [Ingesters -> Job]
      /\ aggregates \in [Users -> [Days -> SUBSET Records]]
      /\ events \in [Records -> EventRow \cup {NoEvent}]
      /\ OfOneUser(i) /\ OfOneUser(j)
  BY DEF CountInv, TypeOK, TablesTypeOK, IngestTypeOK
<1>2. ing'[j] = ing[j]
  BY <1>1 DEF IngestStep, StartIngest, LoadKeys, InsertEvents, InsertProofs,
              LoadEventsForDays, ReplaceDailyAggregates, UpsertDailyAggregates,
              LoadEventsForEpochs, UpsertScores, Return
<1>3. CASE At(j, "idle")
  BY <1>1, <1>2, <1>3 DEF OfOneUser, ViewCurrent, At
<1>4. CASE At(i, "idle")
  <2>1. UNCHANGED <<events, aggregates>>
    BY <1>4 DEF IngestStep, StartIngest, LoadKeys, InsertEvents, InsertProofs,
                LoadEventsForDays, ReplaceDailyAggregates, UpsertDailyAggregates,
                LoadEventsForEpochs, UpsertScores, At, ingestTables
  <2>. QED  BY <1>2, <2>1, OthersCount DEF Stored
<1>5. CASE ~At(i, "idle") /\ ~At(j, "idle")
  <2>1. BatchUser(i) # BatchUser(j) /\ BatchUser(j) \in Users
    BY <1>1, <1>5 DEF SerialUploads, OfOneUser
  <2>2. aggregates'[BatchUser(j)] = aggregates[BatchUser(j)]
    BY <1>1, <1>5, <2>1
    DEF IngestStep, StartIngest, LoadKeys, InsertEvents, InsertProofs,
        LoadEventsForDays, ReplaceDailyAggregates, UpsertDailyAggregates,
        LoadEventsForEpochs, UpsertScores, ingestTables
  <2>3. ASSUME NEW r \in Records, Owner[r] = BatchUser(j)
        PROVE  Stored(r)' <=> Stored(r)
    <3>1. r \notin ing[i].todo
      BY <1>1, <1>5, <2>1, <2>3 DEF OfOneUser
    <3>2. events'[r] = events[r]
      <4>1. events' = events \/ \E chunk \in SUBSET ing[i].todo : events' = WithInserted(i, chunk)
        BY DEF IngestStep, StartIngest, LoadKeys, InsertEvents, InsertProofs,
               LoadEventsForDays, ReplaceDailyAggregates, UpsertDailyAggregates,
               LoadEventsForEpochs, UpsertScores, ingestTables
      <4>. QED  BY <3>1, <4>1 DEF WithInserted
    <3>. QED  BY <3>2 DEF Stored
  <2>. QED  BY <1>2, <2>2, <2>3, OthersCount
<1>. QED  BY <1>3, <1>4, <1>5

(* Of its own batch, a step reads, deletes and rewrites the days of it.    *)
LEMMA StartCounts ==
  ASSUME CountInv, NEW i \in Ingesters, StartIngest(i)
  PROVE  (OfOneUser(i) /\ ViewCurrent(i))'
<1>1. ing \in [Ingesters -> Job]
  BY DEF CountInv, TypeOK, IngestTypeOK
<1>2. PICK u \in Users, B \in SUBSET Records :
        /\ B # {} /\ \A r \in B : Owner[r] = u
        /\ \E t : ing' = [ing EXCEPT ![i] = [IdleJob EXCEPT !.pc = "dedupe", !.batch = B,
                                              !.target = t]]
  BY DEF StartIngest
<1>3. ing'[i].pc = "dedupe" /\ ing'[i].batch = B /\ ing'[i].todo = {}
  BY <1>1, <1>2 DEF IdleJob
<1>4. \E v \in Users : \A r \in ing'[i].batch : Owner[r] = v
  BY <1>2, <1>3
<1>5. BatchUser(i)' \in Users /\ \A r \in ing'[i].batch : Owner[r] = BatchUser(i)'
  BY <1>4, Zenon DEF BatchUser
<1>. QED  BY <1>3, <1>5 DEF OfOneUser, ViewCurrent, At

LEMMA InsertingCounts ==
  ASSUME CountInv, NEW i \in Ingesters,
         LoadKeys(i) \/ InsertEvents(i) \/ InsertProofs(i)
  PROVE  (OfOneUser(i) /\ ViewCurrent(i))'
<1>1. ing \in [Ingesters -> Job] /\ ing[i] \in Job /\ OfOneUser(i)
  BY DEF CountInv, TypeOK, IngestTypeOK
<1>2. \/ ing'[i] = IdleJob
      \/ /\ ing'[i].batch = ing[i].batch /\ ing'[i].todo \subseteq ing[i].batch
         /\ ing'[i].pc \in {"insert", "proofs", "days"} /\ ~At(i, "idle")
  <2>1. CASE LoadKeys(i)
    <3>1. PICK rows : ing' = [ing EXCEPT ![i].pc = "insert", ![i].todo = ing[i].batch,
                                         ![i].rows = rows]
      BY <2>1 DEF LoadKeys
    <3>2. /\ ing'[i].pc = "insert" /\ ing'[i].batch = ing[i].batch
          /\ ing'[i].todo = ing[i].batch
      BY <1>1, <3>1 DEF Job
    <3>. QED  BY <2>1, <3>2 DEF LoadKeys, At
  <2>2. CASE InsertEvents(i)
    <3>1. CASE Return(i)
      BY <1>1, <3>1 DEF Return
    <3>2. CASE ~Return(i)
      <4>1. PICK chunk \in SUBSET ing[i].todo :
              ing' = [ing EXCEPT
                ![i].fresh = @ \cup {r \in chunk : ~Stored(r)},
                ![i].todo = @ \ chunk,
                ![i].pc = IF ing[i].todo = chunk THEN "proofs" ELSE @]
        BY <2>2, <3>2 DEF InsertEvents
      <4>2. /\ ing'[i].batch = ing[i].batch /\ ing'[i].todo = ing[i].todo \ chunk
            /\ ing'[i].pc = IF ing[i].todo = chunk THEN "proofs" ELSE ing[i].pc
        <5>. DEFINE f == ing[i].fresh \cup {r \in chunk : ~Stored(r)}
                    pc == IF ing[i].todo = chunk THEN "proofs" ELSE ing[i].pc
        <5>1. ing' = [ing EXCEPT ![i].fresh = f, ![i].todo = @ \ chunk, ![i].pc = pc]
          BY <4>1
        <5>. HIDE DEF f
        <5>. QED  BY <1>1, <5>1 DEF Job
      <4>. QED  BY <1>1, <2>2, <4>2 DEF InsertEvents, At, OfOneUser
    <3>. QED  BY <3>1, <3>2
  <2>3. CASE InsertProofs(i)
    BY <1>1, <2>3 DEF InsertProofs, Job, At, OfOneUser
  <2>. QED  BY <2>1, <2>2, <2>3
<1>3. CASE ing'[i] = IdleJob
  BY <1>3 DEF IdleJob, OfOneUser, ViewCurrent, At
<1>4. CASE ing'[i].pc \in {"insert", "proofs", "days"}
  <2>1. BatchUser(i)' = BatchUser(i)
    BY <1>2, <1>4 DEF BatchUser, IdleJob
  <2>. QED  BY <1>1, <1>2, <1>4, <2>1 DEF OfOneUser, ViewCurrent, At, IdleJob
<1>. QED  BY <1>2, <1>3, <1>4

LEMMA CountingCounts ==
  ASSUME CountInv, NEW i \in Ingesters,
         \/ LoadEventsForDays(i) \/ ReplaceDailyAggregates(i)
         \/ UpsertDailyAggregates(i) \/ LoadEventsForEpochs(i)
  PROVE  (OfOneUser(i) /\ ViewCurrent(i))'
<1>1. /\ ing \in [Ingesters -> Job] /\ ing[i] \in Job
      /\ aggregates \in [Users -> [Days -> SUBSET Records]]
      /\ OfOneUser(i) /\ ViewCurrent(i)
  BY DEF CountInv, TypeOK, TablesTypeOK, IngestTypeOK
<1>2. /\ UNCHANGED events
      /\ ing[i].pc \in {"days", "replace", "aggregate", "epochs"}
  BY DEF LoadEventsForDays, ReplaceDailyAggregates, UpsertDailyAggregates, At,
         LoadEventsForEpochs, ingestTables
<1>3. /\ ing'[i].batch = ing[i].batch /\ ing'[i].todo = ing[i].todo
      /\ ing'[i].pc \in {"replace", "aggregate", "epochs", "score"}
  <2>1. \E pc \in {"replace", "aggregate", "epochs", "score"} : \E v :
          ing' \in {[ing EXCEPT ![i].pc = pc], [ing EXCEPT ![i].pc = pc, ![i].view = v]}
    BY DEF LoadEventsForDays, ReplaceDailyAggregates, UpsertDailyAggregates,
           LoadEventsForEpochs
  <2>. QED  BY <1>1, <2>1 DEF Job
<1>4. /\ BatchUser(i)' = BatchUser(i) /\ BatchDays(i)' = BatchDays(i)
      /\ SeenBy(i)' = SeenBy(i)
      /\ \A d : OnDay(BatchUser(i), d)' = OnDay(BatchUser(i), d)
      /\ BatchUser(i) \in Users /\ \A r \in ing[i].batch : Owner[r] = BatchUser(i)
  BY <1>1, <1>2, <1>3
  DEF BatchUser, BatchDays, SeenBy, OnDay, StoredRecords, Stored, OfOneUser, At
<1>5. \A d \in BatchDays(i) : d \in Days /\ InSpan(d, BatchDays(i))
  <2>1. ASSUME NEW d \in BatchDays(i) PROVE d \in Days
    BY <1>1, <2>1, TablesAssumption DEF BatchDays, Job
  <2>2. \A d \in Days : d <= d
    BY TablesAssumption DEF Days
  <2>. QED  BY <2>1, <2>2 DEF InSpan
<1>6. OfOneUser(i)'
  BY <1>1, <1>3, <1>4 DEF OfOneUser, At
<1>7. CASE LoadEventsForDays(i)
  <2>1. ing'[i].pc = "replace" /\ ing'[i].view = SeenBy(i)
    BY <1>1, <1>7 DEF LoadEventsForDays, SeenBy, Job
  <2>. QED  BY <1>4, <1>6, <2>1 DEF ViewCurrent, At
<1>8. CASE ReplaceDailyAggregates(i)
  <2>1. ing'[i].view = ing[i].view /\ ing'[i].pc = "aggregate" /\ ing[i].pc = "replace"
    BY <1>1, <1>8 DEF ReplaceDailyAggregates, At, Job
  <2>2. \A d \in BatchDays(i) : aggregates'[BatchUser(i)][d] = {}
    BY <1>1, <1>4, <1>5, <1>8 DEF ReplaceDailyAggregates
  <2>. QED  BY <1>1, <1>4, <1>6, <2>1, <2>2 DEF ViewCurrent, At
<1>9. CASE UpsertDailyAggregates(i)
  <2>1. ing'[i].pc = "epochs" /\ ing[i].view = SeenBy(i) /\ At(i, "aggregate")
    BY <1>1, <1>9 DEF UpsertDailyAggregates, ViewCurrent, At, Job
  <2>2. ASSUME NEW d \in BatchDays(i)
        PROVE  aggregates'[BatchUser(i)][d] = OnDay(BatchUser(i), d)
    <3>. DEFINE On == {r \in ing[i].view : OccurredOn[r] = d}
    <3>1. On = OnDay(BatchUser(i), d)
      BY <1>5, <2>1 DEF OnDay, SeenBy, StoredRecords
    <3>2. aggregates'[BatchUser(i)][d] =
            IF On # {} THEN On ELSE aggregates[BatchUser(i)][d]
      BY <1>1, <1>4, <1>5, <1>9 DEF UpsertDailyAggregates
    <3>3. aggregates[BatchUser(i)][d] = {}
      BY <1>1, <2>1 DEF ViewCurrent
    <3>. QED  BY <3>1, <3>2, <3>3
  <2>. QED  BY <1>4, <1>6, <2>1, <2>2 DEF ViewCurrent, At
<1>10. CASE LoadEventsForEpochs(i)
  <2>1. ing'[i].pc = "score" /\ ing[i].pc = "epochs" /\ UNCHANGED aggregates
    BY <1>1, <1>10 DEF LoadEventsForEpochs, At, Job, ingestTables
  <2>. QED  BY <1>1, <1>4, <1>6, <2>1 DEF ViewCurrent, At
<1>. QED  BY <1>7, <1>8, <1>9, <1>10

LEMMA ReturnCounts ==
  ASSUME CountInv, NEW i \in Ingesters, Return(i)
  PROVE  (OfOneUser(i) /\ ViewCurrent(i))'
<1>1. ing \in [Ingesters -> Job]
  BY DEF CountInv, TypeOK, IngestTypeOK
<1>2. ing'[i] = IdleJob
  BY <1>1 DEF Return
<1>. QED  BY <1>2 DEF IdleJob, OfOneUser, ViewCurrent, At

(* A step of anyone else stores nothing and counts nothing.                *)
LEMMA QuietCounts ==
  ASSUME CountInv, [Next]_vars, ~ \E i \in Ingesters : Ingest(i)
  PROVE  \A j \in Ingesters : (OfOneUser(j) /\ ViewCurrent(j))'
<1>1. TypeOK /\ UNCHANGED aggregates
  BY DEF CountInv, Next, Settle, Upload, CloseByOwner, Midnight, NextDay, Crash,
         CrashIngest, ingestTables, vars
<1>2. \A r \in Records : Stored(r)' <=> Stored(r)
  BY <1>1, NextColumnsKept, StoredBy DEF ColumnsKept
<1>3. ASSUME NEW j \in Ingesters, ing'[j] = ing[j]
      PROVE  (OfOneUser(j) /\ ViewCurrent(j))'
  BY <1>1, <1>2, <1>3, OthersCount
<1>4. UNCHANGED ing \/ \E i \in Ingesters : Return(i)
  BY DEF Next, Settle, Upload, CloseByOwner, Midnight, NextDay, Crash, CrashIngest,
         ingestTables, vars
<1>5. CASE UNCHANGED ing
  BY <1>3, <1>5
<1>6. ASSUME NEW i \in Ingesters, Return(i), NEW j \in Ingesters
      PROVE  (OfOneUser(j) /\ ViewCurrent(j))'
  <2>1. CASE j = i
    BY <1>6, <2>1, ReturnCounts
  <2>2. CASE j # i
    BY <1>1, <1>3, <1>6, <2>2 DEF Return, TypeOK, IngestTypeOK
  <2>. QED  BY <2>1, <2>2
<1>. QED  BY <1>4, <1>5, <1>6

LEMMA NextCount ==
  ASSUME CountInv, SerialUploads, [Next]_vars
  PROVE  CountInv'
<1>1. TypeOK'
  BY NextType DEF CountInv
<1>2. ASSUME NEW i \in Ingesters, Ingest(i), NEW j \in Ingesters
      PROVE  (OfOneUser(j) /\ ViewCurrent(j))'
  <2>1. CASE j # i
    BY <1>2, <2>1, StepKeepsOthers DEF Ingest
  <2>2. CASE j = i
    BY <1>2, <2>2, StartCounts, InsertingCounts, CountingCounts, ReturnCounts
    DEF Ingest, IngestStep, UpsertScores
  <2>. QED  BY <2>1, <2>2
<1>3. CASE ~ \E i \in Ingesters : Ingest(i)
  BY <1>1, <1>3, QuietCounts DEF CountInv
<1>. QED  BY <1>1, <1>2, <1>3 DEF CountInv

(* While each user's batches come one after the other, a batch that gets   *)
(* past its aggregates has each of its days count exactly its events,      *)
(* whatever batches before it did and wherever they died.                  *)
THEOREM BatchCounts == Spec => BatchCountsItsDays
<1>1. CountInv => CountedWhole
  BY DEF CountInv, CountedWhole, ViewCurrent, OnDay
<1>2. CountInv /\ SerialUploads /\ [Next]_vars => CountInv'
  BY NextCount
<1>. QED  BY <1>1, <1>2, InitCount, PTL DEF Spec, BatchCountsItsDays
=============================================================================
