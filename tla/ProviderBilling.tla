---------------------------- MODULE ProviderBilling ----------------------------
(***************************************************************************)
(* Provider billing: callbacks, disconnects and syncs of any accounts over *)
(* the same rows, secrets and authorizations, call by call.                *)
(***************************************************************************)
EXTENDS BillingConnect, BillingSync

CONSTANTS
  MaxFailures,   \* bound on the calls that fail and the processes that die
  MaxMoves       \* bound on what changes at GitHub by itself

VARIABLES
  failures, moves,   \* how many there were
  overruns           \* history: leases that ran out under a sync, by account

vars == <<grants, secrets, accounts, connect, disconnect, sync, usage,
          snapshots, rows, failures, moves, overruns>>

ASSUME BoundsAssumption == MaxFailures \in Nat /\ MaxMoves \in Nat

Init ==
  /\ BillingTablesInit /\ ConnectInit /\ SyncInit
  /\ failures = 0 /\ moves = 0 /\ overruns = [u \in Users |-> 0]

Failing == failures < MaxFailures /\ failures' = failures + 1
syncState == <<sync, usage, snapshots, rows>>

Connecting ==
  /\ \/ \E c \in Connects : CallbackStep(c) /\ UNCHANGED failures
     \/ \E c \in Connects : CallbackTrouble(c) /\ Failing
  /\ UNCHANGED <<disconnect, syncState, moves, overruns>>

Disconnecting ==
  /\ \/ \E x \in Disconnects : DisconnectStep(x) /\ UNCHANGED failures
     \/ \E x \in Disconnects : DisconnectTrouble(x) /\ Failing
  /\ UNCHANGED <<connect, syncState, moves, overruns>>

(* A lease that runs out under a sync counts as something failing. *)
Overruns(u) ==
  IF \E s \in Syncs : Holds(s, u)
  THEN Failing /\ overruns' = [overruns EXCEPT ![u] = @ + 1]
  ELSE UNCHANGED <<failures, overruns>>

Syncing ==
  /\ \/ /\ \/ \E s \in Syncs : ((\E u \in Users : ReadAccount(s, u)) \/ SyncStep(s))
                               /\ UNCHANGED failures
           \/ \E s \in Syncs : SyncTrouble(s) /\ Failing
        /\ UNCHANGED overruns
     \/ \E u \in Users : LeaseExpires(u) /\ Overruns(u)
  /\ UNCHANGED <<connect, disconnect, moves>>

Github ==
  /\ moves < MaxMoves /\ moves' = moves + 1
  /\ \E p \in Principals : \/ UsageMoves(p)
                           \/ RevokedAtGithub(p) /\ UNCHANGED syncState
  /\ UNCHANGED <<connect, disconnect, failures, overruns>>

Next == Connecting \/ Disconnecting \/ Syncing \/ Github

Spec == Init /\ [][Next]_vars

-----------------------------------------------------------------------------
(* Every variable holds a value of the shape its table or process has. *)
TypeOK ==
  /\ BillingTablesTypeOK /\ ConnectTypeOK /\ SyncTypeOK
  /\ failures \in 0..MaxFailures /\ moves \in 0..MaxMoves
  /\ overruns \in [Users -> Nat]

(* Syncs of one account overlap only as often as its lease ran out under   *)
(* one of them, and then by one: a lease given back by the sync that lost  *)
(* it, unconditionally, lets in no more than that (sync.ts 191-199,        *)
(* supabase-store.ts 79-92).                                               *)
SyncsOf(u) == {s \in Syncs : Holds(s, u)}
OneSyncPerAccount ==
  \A u \in Users :
    Cardinality(SyncsOf(u)) <= overruns[u] + (IF accounts[u].lease THEN 1 ELSE 0)

(* Nothing but a failure loses the pair GitHub rotated to: the bundle of   *)
(* an account that counts as connected holds the current one, unless a     *)
(* sync has it in hand and is about to store it (sync.ts 240-256).         *)
RotatedPairKept ==
  failures = 0 =>
    \A u \in Users, c \in Connects :
      /\ accounts[u].secret = c /\ accounts[u].status \in {"connected", "degraded"}
      /\ secrets[c].stored /\ grants[c].live
      => \/ Accepted(c, secrets[c].pair)
         \/ \E s \in Syncs : SyncAt(s, "persist") /\ sync[s].secret = c

(* A sync that tried the tokens of the row as it still stands tells the    *)
(* user to connect again only when they are dead, whoever refreshed them   *)
(* in between; where GitHub gave it no tokens, or its lease ran out, it    *)
(* may be wrong (sync.ts 227-266, 283-289).                                *)
LogsOutOnlyDeadTokens ==
  [][\A s \in Syncs :
       LET u == sync[s].user IN
       /\ Finish(s) /\ sync[s].verdict = "needs_reauth"
       /\ accounts[u].secret = sync[s].secret /\ ~sync[s].refused /\ overruns[u] = 0
       => ~Usable(u)]_vars

(* Once a user's row is bound to a GitHub account it stays bound to that   *)
(* one, and no other user's row is: whatever callbacks race, and through   *)
(* every disconnect (connect.ts 113-122, 138-179; 0029, lines 28-33).      *)
BoundForLife ==
  [][\A u \in Users :
       /\ accounts[u].exists =>
            accounts'[u].exists /\ accounts'[u].principal = accounts[u].principal
       /\ accounts'[u].exists => ~BoundToAnother(u, accounts'[u].principal)]_vars

(* Every row stands on an answer that was kept: it has the value its       *)
(* snapshot lists, or is withdrawn and its snapshot does not list it, even *)
(* when a sync dies between two writes (sync.ts 311-345).                  *)
EvidenceTraceable ==
  \A u \in Users, t \in Periods, i \in Items :
    LET row == rows[u][t][i] IN
    row.exists =>
      /\ <<u, t, row.snapshot>> \in snapshots
      /\ row.snapshot[i] = IF row.withdrawn THEN "unlisted" ELSE row.value

(* When a period is done its rows say what GitHub answered, whatever an    *)
(* earlier sync left half written, as long as no lease ran out under one   *)
(* (normalize.ts 155-180).                                                 *)
PeriodBroughtUpToDate ==
  \A s \in Syncs :
    /\ SyncAt(s, "apply") /\ overruns[sync[s].user] = 0
    /\ sync[s].plan.updates = {} /\ sync[s].plan.withdrawals = {}
    => Agrees(Stored(s), sync[s].answer)

-----------------------------------------------------------------------------
(* "Disconnect: ... destroy the stored tokens, mark the account revoked"   *)
(* (connect.ts 200-205).                                                   *)
DisconnectedStays ==
  [][\A u \in Users :
       accounts[u].exists /\ accounts[u].status = "revoked" /\ accounts'[u].status # "revoked"
       => \E c \in Connects : CallbackStep(c)]_vars
=============================================================================
