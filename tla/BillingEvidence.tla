---------------------------- MODULE BillingEvidence ----------------------------
(***************************************************************************)
(* What a sync does with one answer of GitHub's usage endpoint: keep it as *)
(* a snapshot, and bring the stored rows of its period to it.  A row is    *)
(* never deleted: one the answer no longer lists is withdrawn.             *)
(***************************************************************************)
EXTENDS Naturals, FiniteSets, Sequences

CONSTANTS
  Calendar,   \* consecutive days, each <<month, day of the month>>
  SyncDays,   \* the days of it that syncs run on (bound)
  Items,      \* billing identities within a period
  Values      \* what GitHub may report of one

(* A period is a day or the month <<month, 0>>. *)
Month(t) == <<t[1], 0>>
MonthBefore(t) == <<t[1] - 1, 0>>
IsDay(t) == t[2] # 0
Days == {Calendar[k] : k \in DOMAIN Calendar}
Periods == Days \cup {Month(d) : d \in Days} \cup {MonthBefore(Calendar[k]) : k \in SyncDays}

ASSUME CalendarAssumption ==
  /\ Calendar \in Seq((Nat \ {0}) \X (Nat \ {0}))
  /\ SyncDays \subseteq DOMAIN Calendar /\ SyncDays # {}
  /\ "unlisted" \notin Values

Modes == {"connect", "scheduled", "manual"}

(* What to ask for: the current month, the one before where its last       *)
(* corrections may land or one of the days is of it, then the last days.   *)
planSyncRequests(mode, k) ==
  LET today == Calendar[k]
      lookback == CASE mode = "connect" -> today[2] - 1
                    [] mode = "scheduled" -> 2
                    [] mode = "manual" -> 1
      first == IF lookback < k THEN k - lookback ELSE 1
      earlier == \/ mode = "scheduled" /\ today[2] <= 3
                 \/ Month(Calendar[first]) # Month(today)
  IN <<Month(today)>> \o (IF earlier THEN <<MonthBefore(today)>> ELSE <<>>)
       \o SubSeq(Calendar, first, k)

(* An answer: the value of each identity it lists. *)
Answer == [Items -> Values \cup {"unlisted"}]
Listed(answer) == {i \in Items : answer[i] # "unlisted"}

(* A row of provider_billing_usage; snapshot is current_snapshot_id: of a  *)
(* row's own account and period, so the answer alone tells which.          *)
UsageRow ==
  [ exists    : BOOLEAN,
    value     : Values \cup {"unlisted"},
    withdrawn : BOOLEAN,
    snapshot  : Answer ]

NoAnswer == [i \in Items |-> "unlisted"]
NoRow == [exists |-> FALSE, value |-> "unlisted", withdrawn |-> FALSE, snapshot |-> NoAnswer]

(* planUsageUpsert: what one answer does to the stored rows of its period. *)
Plan == [inserts : SUBSET Items, updates : SUBSET Items, withdrawals : SUBSET Items]
NoPlan == [inserts |-> {}, updates |-> {}, withdrawals |-> {}]

(* (Mutant: a withdrawn row of the same value counts as unchanged.)        *)
PlanChanged(rows, answer) ==
  [ inserts     |-> {i \in Listed(answer) : ~rows[i].exists},
    updates     |-> {i \in Listed(answer) : rows[i].exists /\ rows[i].value # answer[i]},
    withdrawals |-> {i \in Items \ Listed(answer) : rows[i].exists /\ ~rows[i].withdrawn} ]

PlanUpsert(rows, answer) ==
  [ inserts     |-> {i \in Listed(answer) : ~rows[i].exists},
    updates     |-> {i \in Listed(answer) :
                      rows[i].exists /\ (rows[i].withdrawn \/ rows[i].value # answer[i])},
    withdrawals |-> {i \in Items \ Listed(answer) : rows[i].exists /\ ~rows[i].withdrawn} ]

(* applyUsagePlan: the inserts are one statement, ... *)
InsertRows(rows, plan, answer) ==
  [i \in Items |-> IF i \in plan.inserts
                   THEN [exists |-> TRUE, value |-> answer[i], withdrawn |-> FALSE,
                         snapshot |-> answer]
                   ELSE rows[i]]

(* (Mutant: a corrected row keeps the snapshot it came from.)              *)
UpdateValue(rows, i, answer) ==
  [rows EXCEPT ![i].value = answer[i], ![i].withdrawn = FALSE]

(* ... and each update and each withdrawal is one of its own. *)
UpdateRow(rows, i, answer) ==
  [rows EXCEPT ![i].value = answer[i], ![i].withdrawn = FALSE, ![i].snapshot = answer]
WithdrawRow(rows, i, answer) ==
  [rows EXCEPT ![i].withdrawn = TRUE, ![i].snapshot = answer]

(* The rows say what the answer says. *)
Agrees(rows, answer) ==
  \A i \in Items :
    /\ i \in Listed(answer) => rows[i].exists /\ ~rows[i].withdrawn /\ rows[i].value = answer[i]
    /\ i \notin Listed(answer) /\ rows[i].exists => rows[i].withdrawn
=============================================================================
