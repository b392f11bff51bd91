------------------------------ MODULE UsageTables ------------------------------
(***************************************************************************)
(* The database tables that ingestion and settlement share, with the       *)
(* constraints and triggers that guard them.  The database is the only     *)
(* thing the program's processes have in common: every route, cron job and *)
(* script talks to it in separate requests, each its own transaction.      *)
(*                                                                         *)
(* Data is reduced to what the properties tell apart.  A usage record is   *)
(* its natural key (user, provider, source, external_reference); a score,  *)
(* an allocation and a ledger credit are the SET of records whose compute  *)
(* they add up, so "the same compute counted twice" is two sets that meet. *)
(* The integer arithmetic of the pool is module PoolAllocation's.          *)
(***************************************************************************)
EXTENDS Naturals, FiniteSets

CONSTANTS
  Users,        \* accounts
  Records,      \* natural keys of the records that can be submitted
  Keys,         \* economic event keys: identities of upstream compute
  NoKey,        \* a record without an authoritative identity (unkeyed)
  NoEvent,      \* no usage_events row
  NoScore,      \* no score_records row
  Owner,        \* the user of each record
  KeyOf,        \* its economic_event_key, or NoKey
  OccurredOn,   \* the UTC day of its occurred_at
  Earning,      \* the records the reward policy made eligible
  LastDay,      \* bound on the calendar: days 1..LastDay
  BetaFrom      \* first day governed by mining-beta-v2

Days == 1 .. LastDay

DedupeStatus == {"unique", "duplicate", "conflict", "unkeyed"}

(* The economic columns of a usage_events row. *)
EventRow ==
  [ epoch  : Days,                       \* epoch_id
    dedupe : DedupeStatus,               \* dedupe_status
    reward : {"eligible", "held"},       \* reward_status
    hold   : BOOLEAN,                    \* reward_hold
    econ   : {"eligible", "settled"} ]   \* economic_status

(* The units of a reward per user; {} is "no row". *)
UnitsByUser == [Users -> SUBSET Records]
Nobody == [u \in Users |-> {}]

EpochState == {"open", "finalizing", "settled"}

(* A reward_epochs row: its state and the score it was settled from        *)
(* (network_score, kept here per user).  An epoch without a row is open.   *)
EpochRow == [state : EpochState, network : UnitsByUser]

ASSUME TablesAssumption ==
  /\ LastDay \in Nat \ {0}
  /\ BetaFrom \in Nat
  /\ Owner \in [Records -> Users]
  /\ NoKey \notin Keys
  /\ KeyOf \in [Records -> Keys \cup {NoKey}]
  /\ OccurredOn \in [Records -> Days]
  /\ Earning \subseteq Records
  /\ NoEvent \notin EventRow
  /\ NoScore \notin SUBSET Records

VARIABLES
  events,       \* usage_events, by natural key
  proofs,       \* records with a proof_records row
  aggregates,   \* usage_daily_aggregates: the records counted, by user and day
  scores,       \* score_records: the units counted, by user and epoch day
  epochs,       \* reward_epochs
  allocations,  \* reward_allocations: by epoch and user
  ledger,       \* usage_point_ledger: by epoch and user (allocation_id)
  today         \* the clock, in UTC days

ingestTables == <<events, proofs, aggregates, scores>>
rewardTables == <<epochs, allocations, ledger>>

TablesTypeOK ==
  /\ events \in [Records -> EventRow \cup {NoEvent}]
  /\ proofs \subseteq Records
  /\ aggregates \in [Users -> [Days -> SUBSET Records]]
  /\ scores \in [Users -> [Days -> (SUBSET Records) \cup {NoScore}]]
  /\ epochs \in [Days -> EpochRow]
  /\ allocations \in [Days -> UnitsByUser]
  /\ ledger \in [Days -> UnitsByUser]
  /\ today \in Days

TablesInit ==
  /\ events = [r \in Records |-> NoEvent]
  /\ proofs = {}
  /\ aggregates = [u \in Users |-> [d \in Days |-> {}]]
  /\ scores = [u \in Users |-> [d \in Days |-> NoScore]]
  /\ epochs = [d \in Days |-> [state |-> "open", network |-> Nobody]]
  /\ allocations = [d \in Days |-> Nobody]
  /\ ledger = [d \in Days |-> Nobody]
  /\ today = 1

-----------------------------------------------------------------------------
(* Protocol resolution: the rule that governs a day's epoch.               *)

Protocol(d) == IF d < BetaFrom THEN "mining-dev-v1" ELSE "mining-beta-v2"

-----------------------------------------------------------------------------
(* Reading rows.                                                           *)

Stored(r) == events[r] # NoEvent
StoredRecords == {r \in Records : Stored(r)}

(* What scoring counts: eligible under the reward policy and not held.     *)
Earns(row) == ~row.hold /\ row.reward = "eligible"

Closed(d) == epochs[d].state # "open"
Settled(d) == epochs[d].state = "settled"

(* The participants an epoch would settle with, and their units: the       *)
(* stored scores with positive points.                                     *)
StoredNetwork(d) ==
  [u \in Users |-> IF scores[u][d] = NoScore THEN {} ELSE scores[u][d]]

Participants(n) == {u \in Users : n[u] # {}}

-----------------------------------------------------------------------------
(* Constraints and triggers.                                               *)

(* usage_events_one_unit_per_key: at most one row per key is the unit.     *)
(* (KeepsAnyUnits is the table without that index: a mutant.)              *)
KeepsAnyUnits(table) == TRUE

KeepsOneUnitPerKey(table) ==
  \A r, q \in Records :
    /\ r # q
    /\ table[r] # NoEvent /\ table[q] # NoEvent
    /\ table[r].dedupe = "unique" /\ table[q].dedupe = "unique"
    => KeyOf[r] # KeyOf[q]

(* reward_epochs_settled_immutable: every write stamps a new finalizing_at *)
(* or settled_at, so any write to a settled row is refused.                *)
(* (Mutant: no trigger.)                                                   *)
EpochAlwaysWritable(d) == TRUE

EpochWritable(d) == ~Settled(d)

(* score_records_settled_immutable: an UPDATE of a score a settled epoch   *)
(* was distributed from is refused; an INSERT is not.                      *)
(* (Mutant: no trigger.)                                                   *)
ScoreAlwaysWritable(u, d) == TRUE

ScoreWritable(u, d) == scores[u][d] = NoScore \/ ~Settled(d)

(* usage_events_settled_immutable.  (Mutant: no trigger.)                  *)
EventAlwaysWritable(r) == Stored(r)

EventWritable(r) == Stored(r) /\ events[r].econ # "settled"

(* INSERT ... ON CONFLICT DO NOTHING on (epoch, user).                     *)
InsertIgnore(rows, new) ==
  [u \in Users |-> IF rows[u] # {} THEN rows[u] ELSE new[u]]

(* The calendar.  The last day of the bound never ends.                    *)
NextDay ==
  /\ today < LastDay
  /\ today' = today + 1
  /\ UNCHANGED <<ingestTables, rewardTables>>
=============================================================================
