----------------------------- MODULE BillingTables -----------------------------
(***************************************************************************)
(* Provider billing at GitHub: the authorizations GitHub keeps, the token  *)
(* bundles USAGE stores, and its row for each connected account.  A code   *)
(* exchange, the chain of token pairs it starts and the stored secret that *)
(* holds the chain's bundle are one model value: a refresh writes the pair *)
(* it got for a secret back into that secret.                              *)
(***************************************************************************)
EXTENDS Naturals, FiniteSets

CONSTANTS
  Users,         \* accounts of USAGE
  Principals,    \* accounts at GitHub
  Connects,      \* code exchanges, and the secrets they store (bound)
  NoUser, NoSecret,
  MaxRotations   \* bound on the refreshes of one chain

ASSUME BillingAssumption ==
  /\ Users # {} /\ Principals # {}
  /\ NoUser \notin Users
  /\ NoSecret \notin Connects
  /\ MaxRotations \in Nat

VARIABLES
  grants,    \* GitHub: the chain each exchange started, and its current pair
  secrets,   \* the vault: the pair each stored bundle holds
  accounts   \* provider_billing_accounts, by user

tables == <<grants, secrets, accounts>>

(* Only the current pair of a live chain is accepted. *)
Grant == [principal : Principals, live : BOOLEAN, pair : Nat]
Bundle == [stored : BOOLEAN, pair : Nat]
AccountRow ==
  [ exists    : BOOLEAN,
    principal : Principals,
    status    : {"connected", "degraded", "needs_reauth", "revoked"},
    secret    : Connects \cup {NoSecret},
    lease     : BOOLEAN ]

BillingTablesTypeOK ==
  /\ grants \in [Connects -> Grant]
  /\ secrets \in [Connects -> Bundle]
  /\ accounts \in [Users -> AccountRow]

AnyPrincipal == CHOOSE p \in Principals : TRUE

BillingTablesInit ==
  /\ grants = [c \in Connects |-> [principal |-> AnyPrincipal, live |-> FALSE, pair |-> 0]]
  /\ secrets = [c \in Connects |-> [stored |-> FALSE, pair |-> 0]]
  /\ accounts = [u \in Users |->
       [exists |-> FALSE, principal |-> AnyPrincipal, status |-> "revoked",
        secret |-> NoSecret, lease |-> FALSE]]

Accepted(c, pair) == grants[c].live /\ grants[c].pair = pair

(* The tokens an account could still work with. *)
Usable(u) ==
  /\ accounts[u].secret # NoSecret
  /\ secrets[accounts[u].secret].stored
  /\ Accepted(accounts[u].secret, secrets[accounts[u].secret].pair)

(* DELETE grant: the app's authorization by that GitHub account, every     *)
(* token of it.  GitHub finds the account by a token that still works.     *)
RevokeGrant(c, pair) ==
  grants' = IF Accepted(c, pair)
            THEN [g \in Connects |-> IF grants[g].principal = grants[c].principal
                                     THEN [grants[g] EXCEPT !.live = FALSE]
                                     ELSE grants[g]]
            ELSE grants

StoreBundle(c, pair) ==
  secrets' = [secrets EXCEPT ![c] = [stored |-> TRUE, pair |-> pair]]

(* Deleting a secret nulls the reference to it (ON DELETE SET NULL).       *)
DeleteBundle(c) ==
  /\ secrets' = [secrets EXCEPT ![c].stored = FALSE]
  /\ accounts' = [u \in Users |-> IF accounts[u].secret = c
                                  THEN [accounts[u] EXCEPT !.secret = NoSecret]
                                  ELSE accounts[u]]

(* What happens outside: the owner of a GitHub account withdraws the       *)
(* authorization there.                                                    *)
RevokedAtGithub(p) ==
  /\ \E g \in Connects : grants[g].principal = p /\ grants[g].live
  /\ grants' = [g \in Connects |-> IF grants[g].principal = p
                                   THEN [grants[g] EXCEPT !.live = FALSE]
                                   ELSE grants[g]]
  /\ UNCHANGED <<secrets, accounts>>
=============================================================================
