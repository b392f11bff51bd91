------------------------------- MODULE Ingestion -------------------------------
(***************************************************************************)
(* ingestRecords: how a batch of usage records of one user becomes events, *)
(* proofs, daily aggregates and scores.                                    *)
(*                                                                         *)
(* One ingestion is one serverless invocation.  Every await is a separate  *)
(* request to the database, so every await is a step here: other           *)
(* ingestions, settlement and the clock interleave between any two, and    *)
(* the invocation can die at any of them.  A refused request throws, which *)
(* abandons what is left of the batch and keeps what was written.          *)
(***************************************************************************)
EXTENDS UsageTables

CONSTANTS
  Ingesters,    \* concurrent invocations
  InsertChunk   \* rows per insert request (INSERT_CHUNK)

ASSUME InsertChunkAssumption == InsertChunk \in Nat \ {0}

VARIABLE ing    \* the local state of each invocation

IngestPc == {"idle", "dedupe", "insert", "proofs", "days", "replace",
             "aggregate", "epochs", "score"}

(* batch: the records; target: the epoch each was assigned; rows: what     *)
(* will be inserted; todo: not inserted yet; fresh: inserted by this run;  *)
(* view: the rows the last read returned.                                  *)
Job ==
  [ pc     : IngestPc,
    batch  : SUBSET Records,
    target : [Records -> Days],
    rows   : [Records -> EventRow \cup {NoEvent}],
    todo   : SUBSET Records,
    fresh  : SUBSET Records,
    view   : SUBSET Records ]

NoRows == [r \in Records |-> NoEvent]

IdleJob ==
  [ pc |-> "idle", batch |-> {}, target |-> OccurredOn, rows |-> NoRows,
    todo |-> {}, fresh |-> {}, view |-> {} ]

IngestTypeOK == ing \in [Ingesters -> Job]
IngestInit == ing = [i \in Ingesters |-> IdleJob]

-----------------------------------------------------------------------------
(* Pure decisions.                                                         *)

(* The days assignEpoch may answer for a record ingested today: its own    *)
(* day while that epoch is open, else the first open epoch from today on.  *)
OpenFrom(day) == {d \in Days : d >= day /\ ~Closed(d)}

Assignable(r) == ~Closed(OccurredOn[r]) \/ OpenFrom(today) # {}

(* (Mutant: the next day, whether or not the schedule has it open.)        *)
AssignTomorrow(r) == IF ~Closed(OccurredOn[r]) THEN OccurredOn[r] ELSE today + 1

AssignEpoch(r) ==
  IF ~Closed(OccurredOn[r])
  THEN OccurredOn[r]
  ELSE CHOOSE d \in OpenFrom(today) : \A e \in OpenFrom(today) : d <= e

(* holdIfCarriedAcrossPricing: a late unit that would earn in an epoch     *)
(* priced under another version is held.                                   *)
CarriedAcrossPricing(r, d) ==
  d # OccurredOn[r] /\ r \in Earning /\ Protocol(d) # Protocol(OccurredOn[r])

(* The stored rows that carry the key of r, whoever owns them.             *)
CarryingKeyOf(r) ==
  {q \in StoredRecords : KeyOf[r] # NoKey /\ KeyOf[q] = KeyOf[r]}

(* The first record of the batch to present each key.  The order of a      *)
(* batch is its submitter's, so any choice of firsts is possible.          *)
FirstsOf(batch) ==
  {F \in SUBSET batch :
     /\ \A r \in F : KeyOf[r] # NoKey
     /\ \A r \in batch :
          KeyOf[r] # NoKey => \E q \in F : KeyOf[q] = KeyOf[r]
     /\ \A q, r \in F : q # r => KeyOf[q] # KeyOf[r]}

(* applyEconomicDedupe: another event, or an earlier record of the batch,  *)
(* already carries the key.                                                *)
IsDuplicate(r, firsts) ==
  IF CarryingKeyOf(r) # {}
  THEN r \notin CarryingKeyOf(r)
  ELSE KeyOf[r] # NoKey /\ r \notin firsts

(* usageRecordToInsert, after both decisions above. *)
RowToInsert(r, d, firsts) ==
  LET duplicate == IsDuplicate(r, firsts)
      held == duplicate \/ CarriedAcrossPricing(r, d)
  IN [ epoch  |-> d,
       dedupe |-> IF duplicate THEN "duplicate"
                  ELSE IF KeyOf[r] # NoKey THEN "unique" ELSE "unkeyed",
       reward |-> IF r \in Earning /\ ~held THEN "eligible" ELSE "held",
       hold   |-> held,
       econ   |-> "eligible" ]

(* The user, days and epochs of a run.                                     *)
BatchUser(i) == CHOOSE u \in Users : \A r \in ing[i].batch : Owner[r] = u
BatchDays(i) == {OccurredOn[r] : r \in ing[i].batch}
BatchEpochs(i) == {ing[i].target[r] : r \in ing[i].batch}

-----------------------------------------------------------------------------
(* Steps.                                                                  *)

At(i, pc) == ing[i].pc = pc
Return(i) == ing' = [ing EXCEPT ![i] = IdleJob]

(* loadClosedEpochs answers, and every record is assigned an epoch from    *)
(* that answer.  A record with no open epoch ahead throws: nothing starts. *)
StartIngest(i) ==
  /\ At(i, "idle")
  /\ \E u \in Users :
       \E B \in (SUBSET {r \in Records : Owner[r] = u}) \ {{}} :
         /\ \A r \in B : OccurredOn[r] <= today /\ Assignable(r)
         /\ ing' = [ing EXCEPT ![i] =
              [IdleJob EXCEPT !.pc = "dedupe", !.batch = B,
                 !.target = [r \in Records |->
                   IF r \in B THEN AssignEpoch(r) ELSE OccurredOn[r]]]]
  /\ UNCHANGED ingestTables

(* loadEventsByEconomicKey answers; the rows are built from that answer.   *)
LoadKeys(i) ==
  /\ At(i, "dedupe")
  /\ \E F \in FirstsOf(ing[i].batch) :
       ing' = [ing EXCEPT
         ![i].pc = "insert",
         ![i].todo = ing[i].batch,
         ![i].rows = [r \in Records |->
            IF r \in ing[i].batch
            THEN RowToInsert(r, ing[i].target[r], F)
            ELSE NoEvent]]
  /\ UNCHANGED ingestTables

(* One insert request: rows whose natural key exists are ignored, and a    *)
(* second unit for one key fails the whole request.                        *)
WithInserted(i, chunk) ==
  [r \in Records |->
     IF r \in chunk /\ ~Stored(r) THEN ing[i].rows[r] ELSE events[r]]

InsertEvents(i) ==
  /\ At(i, "insert")
  /\ \E chunk \in SUBSET ing[i].todo :
       /\ chunk # {}
       /\ \/ Cardinality(chunk) = InsertChunk
          \/ chunk = ing[i].todo /\ Cardinality(chunk) < InsertChunk
       /\ IF KeepsOneUnitPerKey(WithInserted(i, chunk))
          THEN /\ events' = WithInserted(i, chunk)
               /\ ing' = [ing EXCEPT
                    ![i].fresh = @ \cup {r \in chunk : ~Stored(r)},
                    ![i].todo = @ \ chunk,
                    ![i].pc = IF ing[i].todo = chunk THEN "proofs" ELSE @]
          ELSE Return(i) /\ UNCHANGED events
  /\ UNCHANGED <<proofs, aggregates, scores>>

(* Provenance only for the rows this run created. *)
InsertProofs(i) ==
  /\ At(i, "proofs")
  /\ proofs' = proofs \cup ing[i].fresh
  /\ ing' = [ing EXCEPT ![i].pc = "days", ![i].rows = NoRows, ![i].fresh = {}]
  /\ UNCHANGED <<events, aggregates, scores>>

(* loadEventsForDays reads the whole span from the first to the last day.  *)
(* (Mutant: the batch is counted, not the days it touches.)                *)
InSpan(d, D) == (\E a \in D : a <= d) /\ (\E b \in D : d <= b)

LoadBatchOnly(i) ==
  /\ At(i, "days")
  /\ ing' = [ing EXCEPT ![i].pc = "replace", ![i].view = ing[i].batch]
  /\ UNCHANGED ingestTables

LoadEventsForDays(i) ==
  /\ At(i, "days")
  /\ ing' = [ing EXCEPT ![i].pc = "replace",
       ![i].view = {r \in StoredRecords :
          Owner[r] = BatchUser(i) /\ InSpan(OccurredOn[r], BatchDays(i))}]
  /\ UNCHANGED ingestTables

ReplaceDailyAggregates(i) ==
  /\ At(i, "replace")
  /\ aggregates' = [aggregates EXCEPT ![BatchUser(i)] =
       [d \in Days |-> IF d \in BatchDays(i) THEN {} ELSE @[d]]]
  /\ ing' = [ing EXCEPT ![i].pc = "aggregate"]
  /\ UNCHANGED <<events, proofs, scores>>

UpsertDailyAggregates(i) ==
  LET On(d) == {r \in ing[i].view : OccurredOn[r] = d} IN
  /\ At(i, "aggregate")
  /\ aggregates' = [aggregates EXCEPT ![BatchUser(i)] =
       [d \in Days |-> IF On(d) # {} THEN On(d) ELSE @[d]]]
  /\ ing' = [ing EXCEPT ![i].pc = "epochs", ![i].view = {}]
  /\ UNCHANGED <<events, proofs, scores>>

(* loadEventsForEpochs answers; scoring keeps the rows that earn.          *)
(* (Mutant: the query forgets the user.)                                   *)
LoadEveryUser(i) ==
  /\ At(i, "epochs")
  /\ ing' = [ing EXCEPT ![i].pc = "score",
       ![i].view = {r \in StoredRecords :
          events[r].epoch \in BatchEpochs(i) /\ Earns(events[r])}]
  /\ UNCHANGED ingestTables

LoadEventsForEpochs(i) ==
  /\ At(i, "epochs")
  /\ ing' = [ing EXCEPT ![i].pc = "score",
       ![i].view = {r \in StoredRecords :
          /\ Owner[r] = BatchUser(i)
          /\ events[r].epoch \in BatchEpochs(i)
          /\ Earns(events[r])}]
  /\ UNCHANGED ingestTables

(* One upsert for every epoch of the batch: one refused row refuses all.   *)
UpsertScores(i) ==
  LET u == BatchUser(i) IN
  /\ At(i, "score")
  /\ IF \A d \in BatchEpochs(i) : ScoreWritable(u, d)
     THEN scores' = [scores EXCEPT ![u] =
            [d \in Days |->
               IF d \in BatchEpochs(i)
               THEN {r \in ing[i].view : events[r].epoch = d}
               ELSE @[d]]]
     ELSE UNCHANGED scores
  /\ Return(i)
  /\ UNCHANGED <<events, proofs, aggregates>>

(* The invocation dies: killed, timed out, or a request failed.            *)
CrashIngest(i) ==
  /\ ~At(i, "idle")
  /\ Return(i)
  /\ UNCHANGED ingestTables

IngestStep(i) ==
  \/ StartIngest(i)
  \/ LoadKeys(i)
  \/ InsertEvents(i)
  \/ InsertProofs(i)
  \/ LoadEventsForDays(i)
  \/ ReplaceDailyAggregates(i)
  \/ UpsertDailyAggregates(i)
  \/ LoadEventsForEpochs(i)
  \/ UpsertScores(i)
=============================================================================
