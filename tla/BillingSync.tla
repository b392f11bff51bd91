------------------------------ MODULE BillingSync ------------------------------
(***************************************************************************)
(* One sync of a connected account: read its row, take the lease, open the *)
(* stored tokens, refresh them when they run out, check whose they are,    *)
(* and bring the evidence of each period up to date.  The nightly cron,    *)
(* the refresh button and the callback all run it.  GitHub moves on        *)
(* between its calls, and so do the callbacks and disconnects, which ask   *)
(* for no lease.                                                           *)
(***************************************************************************)
EXTENDS BillingTables, BillingEvidence

CONSTANTS
  Syncs,      \* concurrent syncs
  FirstBill   \* what GitHub lists to begin with

VARIABLES
  sync,        \* the local state of each sync
  usage,       \* GitHub: what it would answer, by account and period
  snapshots,   \* provider_billing_snapshots
  rows         \* provider_billing_usage

evidence == <<snapshots, rows>>

AnyPeriod == Month(Calendar[1])
Failures == {"none", "denied", "garbled", "throttled"}

Sync ==
  [ pc        : {"idle", "lease", "open", "refresh", "persist", "identify",
                 "fetch", "keep", "plan", "insert", "apply", "finish", "release"},
    user      : Users \cup {NoUser},
    secret    : Connects \cup {NoSecret},   \* as its copy of the row named it
    pair      : Nat,                        \* the tokens in hand
    refreshed : BOOLEAN,
    refused   : BOOLEAN,                    \* no tokens were given for its refresh
    period    : Periods,                    \* the one being asked for
    later     : Seq(Periods),               \* and those after it
    billed    : SUBSET Periods,             \* months that had items
    failure   : Failures,
    answer    : Answer,
    plan      : Plan,
    verdict   : {"connected", "degraded", "needs_reauth"} ]

IdleSync ==
  [ pc |-> "idle", user |-> NoUser, secret |-> NoSecret, pair |-> 0,
    refreshed |-> FALSE, refused |-> FALSE, period |-> AnyPeriod, later |-> <<>>,
    billed |-> {}, failure |-> "none", answer |-> NoAnswer, plan |-> NoPlan,
    verdict |-> "connected" ]

(* What a day lists is part of what its month lists. *)
Consistent(periods) ==
  \A d \in Days : Listed(periods[d]) \subseteq Listed(periods[Month(d)])

ASSUME FirstBillAssumption ==
  FirstBill \in [Periods -> Answer] /\ Consistent(FirstBill)

SyncTypeOK ==
  /\ sync \in [Syncs -> Sync]
  /\ usage \in [Principals -> [Periods -> Answer]]
  /\ snapshots \subseteq Users \X Periods \X Answer
  /\ rows \in [Users -> [Periods -> [Items -> UsageRow]]]

SyncInit ==
  /\ sync = [s \in Syncs |-> IdleSync]
  /\ usage = [p \in Principals |-> FirstBill]
  /\ snapshots = {}
  /\ rows = [u \in Users |-> [t \in Periods |-> [i \in Items |-> NoRow]]]

SyncAt(s, pc) == sync[s].pc = pc
Becomes(s, local) == sync' = [sync EXCEPT ![s] = local]
GoesTo(s, pc) == Becomes(s, [sync[s] EXCEPT !.pc = pc])
(* Once it knows how it ends, it needs no more of what it worked with. *)
Concludes(local, verdict) ==
  [IdleSync EXCEPT !.pc = "finish", !.user = local.user, !.secret = local.secret,
                   !.verdict = verdict]
LetsGo(s) == Becomes(s, [IdleSync EXCEPT !.pc = "release", !.user = sync[s].user])
GivesUp(s, verdict) == Becomes(s, Concludes(sync[s], verdict))

(* It took the lease of this account and has not given it back. *)
Holds(s, u) == sync[s].user = u /\ sync[s].pc \notin {"idle", "lease"}

-----------------------------------------------------------------------------
(* The row is read before the lease is taken. *)
ReadAccount(s, u) ==
  /\ SyncAt(s, "idle")
  /\ accounts[u].exists /\ accounts[u].status \in {"connected", "degraded"}
  /\ Becomes(s, [IdleSync EXCEPT !.pc = "lease", !.user = u,
                                 !.secret = accounts[u].secret])
  /\ UNCHANGED <<tables, usage, evidence>>

(* (Mutants: the update asks no condition; a busy sync releases too.)      *)
AcquireAnyway(s) ==
  /\ SyncAt(s, "lease")
  /\ GoesTo(s, "open")
  /\ accounts' = [accounts EXCEPT ![sync[s].user].lease = TRUE]
  /\ UNCHANGED <<grants, secrets, usage, evidence>>

AcquireOrRelease(s) ==
  LET u == sync[s].user IN
  /\ SyncAt(s, "lease")
  /\ IF accounts[u].lease
     THEN LetsGo(s) /\ UNCHANGED accounts
     ELSE GoesTo(s, "open") /\ accounts' = [accounts EXCEPT ![u].lease = TRUE]
  /\ UNCHANGED <<grants, secrets, usage, evidence>>

AcquireLease(s) ==
  LET u == sync[s].user IN
  /\ SyncAt(s, "lease")
  /\ IF accounts[u].lease
     THEN Becomes(s, IdleSync) /\ UNCHANGED accounts
     ELSE GoesTo(s, "open") /\ accounts' = [accounts EXCEPT ![u].lease = TRUE]
  /\ UNCHANGED <<grants, secrets, usage, evidence>>

(* The lease is two minutes, whatever the sync that took it is doing. *)
LeaseExpires(u) ==
  /\ accounts[u].lease
  /\ accounts' = [accounts EXCEPT ![u].lease = FALSE]
  /\ UNCHANGED <<grants, secrets, sync, usage, evidence>>

(* Tokens run out with time, which the row notes. *)
CanRunOut(c) == grants[c].pair < MaxRotations

OpenBundle(s) ==
  LET c == sync[s].secret IN
  /\ SyncAt(s, "open")
  /\ \/ c = NoSecret /\ GivesUp(s, "needs_reauth")
     \/ c # NoSecret /\ ~secrets[c].stored /\ GivesUp(s, "degraded")
     \/ /\ c # NoSecret /\ secrets[c].stored
        /\ \E pc \in {"identify"} \cup (IF CanRunOut(c) THEN {"refresh"} ELSE {}) :
             Becomes(s, [sync[s] EXCEPT !.pair = secrets[c].pair, !.pc = pc])
  /\ UNCHANGED <<tables, usage, evidence>>

(* (Mutant: the new pair is used before it is stored.)                     *)
RefreshInHand(s) ==
  LET c == sync[s].secret IN
  /\ SyncAt(s, "refresh")
  /\ IF Accepted(c, sync[s].pair)
     THEN /\ grants' = [grants EXCEPT ![c].pair = @ + 1]
          /\ Becomes(s, [sync[s] EXCEPT !.pair = @ + 1, !.refreshed = TRUE,
                                        !.pc = "identify"])
     ELSE GivesUp(s, "needs_reauth") /\ UNCHANGED grants
  /\ UNCHANGED <<secrets, accounts, usage, evidence>>

(* GitHub rotates: the pair presented is dead from this moment. *)
Refresh(s) ==
  LET c == sync[s].secret IN
  /\ SyncAt(s, "refresh")
  /\ IF Accepted(c, sync[s].pair)
     THEN /\ grants' = [grants EXCEPT ![c].pair = @ + 1]
          /\ Becomes(s, [sync[s] EXCEPT !.pair = @ + 1, !.pc = "persist"])
     ELSE GivesUp(s, "needs_reauth") /\ UNCHANGED grants
  /\ UNCHANGED <<secrets, accounts, usage, evidence>>

(* An update of a secret that is gone does nothing, and says nothing. *)
Persist(s) ==
  LET c == sync[s].secret IN
  /\ SyncAt(s, "persist")
  /\ IF secrets[c].stored THEN StoreBundle(c, sync[s].pair) ELSE UNCHANGED secrets
  /\ Becomes(s, [sync[s] EXCEPT !.refreshed = TRUE, !.pc = "identify"])
  /\ UNCHANGED <<grants, accounts, usage, evidence>>

(* A token answered 401 is refreshed, once a sync.  Whose account a chain  *)
(* is never changes, and the callback compared it with the row's.          *)
CheckIdentity(s) ==
  LET c == sync[s].secret
      accepted == Accepted(c, sync[s].pair)
  IN
  /\ SyncAt(s, "identify")
  /\ \/ accepted /\ \E mode \in Modes, k \in SyncDays :
          LET asked == planSyncRequests(mode, k)
          IN Becomes(s, [sync[s] EXCEPT !.period = Head(asked), !.later = Tail(asked),
                                        !.pc = "fetch"])
     \/ (accepted => CanRunOut(c)) /\ ~sync[s].refreshed /\ GoesTo(s, "refresh")
     \/ ~accepted /\ sync[s].refreshed /\ GivesUp(s, "needs_reauth")
  /\ UNCHANGED <<tables, usage, evidence>>

-----------------------------------------------------------------------------
(* The evidence, period by period. *)

Period(s) == sync[s].period

(* Evidence that could not be read is a degraded account; evidence there   *)
(* is no permission to read is a connected one.                            *)
(* (Mutant: the class of the failure is kept as the status.)               *)
EndsAsFailed(local) ==
  Concludes(local, IF local.failure = "none" THEN "connected" ELSE local.failure)

Ends(local) ==
  Concludes(local, IF local.failure \in {"none", "denied"} THEN "connected" ELSE "degraded")

NextPeriod(local) ==
  IF local.later = <<>> THEN Ends(local)
  ELSE [local EXCEPT !.period = Head(local.later), !.later = Tail(local.later),
                     !.pc = "fetch", !.answer = NoAnswer, !.plan = NoPlan]

(* Days are asked for only in a month that listed something. *)
FetchUsage(s) ==
  LET c == sync[s].secret IN
  /\ SyncAt(s, "fetch")
  /\ IF IsDay(Period(s)) /\ Month(Period(s)) \notin sync[s].billed
     THEN Becomes(s, NextPeriod(sync[s]))
     ELSE IF Accepted(c, sync[s].pair)
     THEN Becomes(s, [sync[s] EXCEPT !.pc = "keep",
                        !.answer = usage[grants[c].principal][Period(s)]])
     ELSE GivesUp(s, "needs_reauth")
  /\ UNCHANGED <<tables, usage, evidence>>

(* A refused day, or a throttled month, ends the run; another month that   *)
(* is refused does not.                                                    *)
Refused(s, failure) ==
  LET noted == [sync[s] EXCEPT !.failure = failure]
  IN Becomes(s, IF IsDay(Period(s)) \/ failure = "throttled"
                THEN Ends(noted) ELSE NextPeriod(noted))

FetchRefused(s, failure) ==
  /\ SyncAt(s, "fetch")
  /\ Refused(s, failure)
  /\ UNCHANGED <<tables, usage, evidence>>

(* An answer that lists one identity twice is kept, and no rows of it. *)
AnswerGarbled(s) ==
  /\ SyncAt(s, "plan")
  /\ Refused(s, "garbled")
  /\ UNCHANGED <<tables, usage, evidence>>

(* An answer kept before is found again. *)
KeepSnapshot(s) ==
  /\ SyncAt(s, "keep")
  /\ snapshots' = snapshots \cup {<<sync[s].user, Period(s), sync[s].answer>>}
  /\ GoesTo(s, "plan")
  /\ UNCHANGED <<tables, usage, rows>>

PlanRows(s) ==
  LET answer == sync[s].answer IN
  /\ SyncAt(s, "plan")
  /\ Becomes(s, [sync[s] EXCEPT !.pc = "insert",
                    !.plan = PlanUpsert(rows[sync[s].user][Period(s)], answer),
                    !.billed = IF IsDay(Period(s)) \/ Listed(answer) = {}
                               THEN @ ELSE @ \cup {Period(s)}])
  /\ UNCHANGED <<tables, usage, evidence>>

Stored(s) == rows[sync[s].user][Period(s)]
Writes(s, updated) == rows' = [rows EXCEPT ![sync[s].user][Period(s)] = updated]

(* One statement: a row that is there by now refuses them all. *)
InsertPlanned(s) ==
  LET plan == sync[s].plan IN
  /\ SyncAt(s, "insert")
  /\ IF \E i \in plan.inserts : Stored(s)[i].exists
     THEN LetsGo(s) /\ UNCHANGED rows
     ELSE GoesTo(s, "apply") /\ Writes(s, InsertRows(Stored(s), plan, sync[s].answer))
  /\ UNCHANGED <<tables, usage, snapshots>>

UpdatePlanned(s) ==
  /\ SyncAt(s, "apply")
  /\ \E i \in sync[s].plan.updates :
       /\ Writes(s, UpdateRow(Stored(s), i, sync[s].answer))
       /\ sync' = [sync EXCEPT ![s].plan.updates = @ \ {i}]
  /\ UNCHANGED <<tables, usage, snapshots>>

WithdrawPlanned(s) ==
  /\ SyncAt(s, "apply") /\ sync[s].plan.updates = {}
  /\ \E i \in sync[s].plan.withdrawals :
       /\ Writes(s, WithdrawRow(Stored(s), i, sync[s].answer))
       /\ sync' = [sync EXCEPT ![s].plan.withdrawals = @ \ {i}]
  /\ UNCHANGED <<tables, usage, snapshots>>

PeriodDone(s) ==
  /\ SyncAt(s, "apply")
  /\ sync[s].plan.updates = {} /\ sync[s].plan.withdrawals = {}
  /\ Becomes(s, NextPeriod(sync[s]))
  /\ UNCHANGED <<tables, usage, evidence>>

-----------------------------------------------------------------------------
(* The row is updated by its id, whatever it says by now. *)
Finish(s) ==
  /\ SyncAt(s, "finish")
  /\ accounts' = [accounts EXCEPT ![sync[s].user].status = sync[s].verdict]
  /\ LetsGo(s)
  /\ UNCHANGED <<grants, secrets, usage, evidence>>

ReleaseLease(s) ==
  /\ SyncAt(s, "release")
  /\ accounts' = [accounts EXCEPT ![sync[s].user].lease = FALSE]
  /\ Becomes(s, IdleSync)
  /\ UNCHANGED <<grants, secrets, usage, evidence>>

SyncStep(s) ==
  \/ AcquireLease(s) \/ OpenBundle(s) \/ Refresh(s) \/ Persist(s) \/ CheckIdentity(s)
  \/ FetchUsage(s) \/ KeepSnapshot(s) \/ PlanRows(s) \/ InsertPlanned(s)
  \/ UpdatePlanned(s) \/ WithdrawPlanned(s) \/ PeriodDone(s)
  \/ Finish(s) \/ ReleaseLease(s)

-----------------------------------------------------------------------------
(* Calls that fail.  GitHub or the vault out of reach is a degraded        *)
(* account; a pair that cannot be kept is one to connect again.            *)
CallFails(s) ==
  /\ \/ sync[s].pc \in {"open", "refresh", "identify"} /\ GivesUp(s, "degraded")
     \/ SyncAt(s, "persist") /\ GivesUp(s, "needs_reauth")
  /\ UNCHANGED <<tables, usage, evidence>>

(* No refresh token, or an answer other than tokens: GitHub is busy, the   *)
(* app is misconfigured.  Any of it counts as a dead pair.                 *)
RefreshRefused(s) ==
  /\ SyncAt(s, "refresh")
  /\ Becomes(s, [Concludes(sync[s], "needs_reauth") EXCEPT !.refused = TRUE])
  /\ UNCHANGED <<tables, usage, evidence>>

(* GitHub rotated, and its answer was lost. *)
RefreshUnanswered(s) ==
  LET c == sync[s].secret IN
  /\ SyncAt(s, "refresh") /\ Accepted(c, sync[s].pair)
  /\ grants' = [grants EXCEPT ![c].pair = @ + 1]
  /\ GivesUp(s, "degraded")
  /\ UNCHANGED <<secrets, accounts, usage, evidence>>

(* A database call that fails throws past everything but the release; the  *)
(* process may also die and leave the lease.                               *)
SyncAborted(s) ==
  /\ \/ sync[s].pc \in {"identify", "keep", "plan", "insert", "apply", "finish"} /\ LetsGo(s)
     \/ sync[s].pc # "idle" /\ Becomes(s, IdleSync)
  /\ UNCHANGED <<tables, usage, evidence>>

SyncTrouble(s) ==
  \/ CallFails(s) \/ RefreshRefused(s) \/ RefreshUnanswered(s) \/ SyncAborted(s)
  \/ AnswerGarbled(s)
  \/ \E failure \in Failures \ {"none"} : FetchRefused(s, failure)

-----------------------------------------------------------------------------
(* GitHub bills: what it lists of one account's periods changes.           *)
UsageMoves(p) ==
  /\ \E t \in Periods, answer \in Answer :
       /\ answer # usage[p][t]
       /\ usage' = [usage EXCEPT ![p][t] = answer]
       /\ Consistent(usage'[p])
  /\ UNCHANGED <<tables, sync, evidence>>
=============================================================================
