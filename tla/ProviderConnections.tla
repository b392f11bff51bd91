-------------------------- MODULE ProviderConnections --------------------------
(***************************************************************************)
(* Connections to AI providers: a pasted key or an OAuth approval becomes  *)
(* a stored secret, a provider definition and a connection row; requests   *)
(* and tests resolve the row to the credential; a user revokes it and      *)
(* connects again.  Each step is one request to the database or the vault. *)
(***************************************************************************)
EXTENDS Naturals, FiniteSets

CONSTANTS
  Users,
  Names,         \* display names: the provider slug and label of a row
  Creates,       \* create calls; a stored secret is named after its call
  Approvals,     \* OAuth attempts a user started
  Requests,      \* routed requests and tests of a connection
  NoSecret,
  MaxFailures    \* bound on the calls that fail and the processes that die

ASSUME ConnectionsAssumption ==
  /\ Users # {} /\ Names # {}
  /\ NoSecret \notin Creates
  /\ MaxFailures \in Nat

VARIABLES
  connections,   \* provider_connections: one row per user and name
  owned,         \* provider_definitions of a user's own
  shared,        \* provider_definitions of the OAuth providers
  secrets,       \* provider_secrets
  approvals,     \* provider_oauth_requests: whose, for which provider, and whether consumed
  create,        \* the local state of each create call
  request,       \* the local state of each request or test
  failures,
  withdrawn      \* history: the credentials whose connection was revoked

tables == <<connections, owned, shared, secrets, approvals>>
vars == <<connections, owned, shared, secrets, approvals, create, request,
          failures, withdrawn>>

Keys == Users \X Names
(* "active" stands for every status of a credential that was accepted,     *)
(* "invalid_credentials" for every status of one that was not.             *)
Status == {"active", "validating", "invalid_credentials", "revoked"}
Row == [exists : BOOLEAN, revoked : BOOLEAN, status : Status,
        secret : Creates \cup {NoSecret}]

Create ==
  [ pc       : {"idle", "store", "define", "insert_definition", "find", "write", "undo", "done"},
    key      : Keys,
    oauth    : BOOLEAN,
    approval : Approvals \cup {NoSecret},
    status   : {"active", "validating"},   \* what the probe made of the credential
    revive   : BOOLEAN ]                   \* a revoked row was found

Request ==
  [ pc     : {"idle", "read", "use"},
    key    : Keys,
    secret : Creates \cup {NoSecret} ]

AnyKey == CHOOSE k \in Keys : TRUE
IdleCreate ==
  [pc |-> "idle", key |-> AnyKey, oauth |-> FALSE, approval |-> NoSecret,
   status |-> "validating", revive |-> FALSE]
IdleRequest == [pc |-> "idle", key |-> AnyKey, secret |-> NoSecret]

Init ==
  /\ connections = [k \in Keys |->
       [exists |-> FALSE, revoked |-> FALSE, status |-> "validating", secret |-> NoSecret]]
  /\ owned = {} /\ shared = {} /\ secrets = {}
  /\ approvals \in [Approvals -> [key : Keys, consumed : {FALSE}]]
  /\ create = [c \in Creates |-> IdleCreate]
  /\ request = [r \in Requests |-> IdleRequest]
  /\ failures = 0 /\ withdrawn = {}

CreateAt(c, pc) == create[c].pc = pc
CreateTo(c, pc) ==
  create' = [create EXCEPT ![c] =
    IF pc = "done" THEN [IdleCreate EXCEPT !.pc = "done", !.approval = create[c].approval]
    ELSE [create[c] EXCEPT !.pc = pc]]
RequestAt(r, pc) == request[r].pc = pc

(* Deleting a secret nulls the reference to it. *)
DeleteSecret(c) ==
  /\ secrets' = secrets \ {c}
  /\ connections' = [k \in Keys |-> IF connections[k].secret = c
                                    THEN [connections[k] EXCEPT !.secret = NoSecret]
                                    ELSE connections[k]]

-----------------------------------------------------------------------------
(* create.                                                                 *)

(* What a probe refuses is not stored at all; one that settles nothing is  *)
(* stored as not proven.                                                   *)
Probed(c, k, oauth, a) ==
  \E status \in {"active", "validating"} :
    create' = [create EXCEPT ![c] =
      [IdleCreate EXCEPT !.pc = "store", !.key = k, !.oauth = oauth,
                         !.approval = a, !.status = status]]

PasteKey(c) ==
  /\ CreateAt(c, "idle")
  /\ \E k \in Keys : Probed(c, k, FALSE, NoSecret)
  /\ UNCHANGED tables

(* (Mutant: the attempt is read, and not marked consumed.)                 *)
ReadApproval(c) ==
  /\ CreateAt(c, "idle")
  /\ \E a \in Approvals :
       /\ ~approvals[a].consumed
       /\ Probed(c, approvals[a].key, TRUE, a)
  /\ UNCHANGED tables

(* One statement: a replayed callback finds nothing. *)
ConsumeApproval(c) ==
  /\ CreateAt(c, "idle")
  /\ \E a \in Approvals :
       /\ ~approvals[a].consumed
       /\ approvals' = [approvals EXCEPT ![a].consumed = TRUE]
       /\ Probed(c, approvals[a].key, TRUE, a)
  /\ UNCHANGED <<connections, owned, shared, secrets>>

StoreSecret(c) ==
  /\ CreateAt(c, "store")
  /\ secrets' = secrets \cup {c}
  /\ CreateTo(c, IF create[c].oauth THEN "define" ELSE "insert_definition")
  /\ UNCHANGED <<connections, owned, shared, approvals>>

(* An OAuth provider's definition is shared, ... *)
FindDefinition(c) ==
  /\ CreateAt(c, "define")
  /\ CreateTo(c, IF create[c].key[2] \in shared THEN "find" ELSE "insert_definition")
  /\ UNCHANGED tables

(* ... that of a pasted key is the user's own: its slug is unique, and     *)
(* what throws here has nobody to take the secret back.                    *)
InsertDefinition(c) ==
  LET k == create[c].key IN
  /\ CreateAt(c, "insert_definition")
  /\ IF create[c].oauth
     THEN /\ shared' = shared \cup {k[2]}
          /\ CreateTo(c, IF k[2] \in shared THEN "done" ELSE "find")
          /\ UNCHANGED owned
     ELSE /\ owned' = owned \cup {k}
          /\ CreateTo(c, IF k \in owned THEN "done" ELSE "find")
          /\ UNCHANGED shared
  /\ UNCHANGED <<connections, secrets, approvals>>

FindRevoked(c) ==
  LET row == connections[create[c].key] IN
  /\ CreateAt(c, "find")
  /\ create' = [create EXCEPT ![c].revive = row.exists /\ row.revoked, ![c].pc = "write"]
  /\ UNCHANGED tables

Written(c) ==
  connections' = [connections EXCEPT ![create[c].key] =
    [exists |-> TRUE, revoked |-> FALSE, status |-> create[c].status, secret |-> c]]

(* The row found is updated by its id, or one is inserted; a row that is   *)
(* there by then refuses the insert.                                       *)
Refused(c) == ~create[c].revive /\ connections[create[c].key].exists

WriteConnection(c) ==
  /\ CreateAt(c, "write")
  /\ IF Refused(c)
     THEN CreateTo(c, "undo") /\ UNCHANGED connections
     ELSE CreateTo(c, "done") /\ Written(c)
  /\ UNCHANGED <<owned, shared, secrets, approvals>>

(* (Mutant: it deletes the secret the row names.)                          *)
UndoNamedSecret(c) ==
  /\ CreateAt(c, "undo")
  /\ DeleteSecret(connections[create[c].key].secret)
  /\ CreateTo(c, "done")
  /\ UNCHANGED <<owned, shared, approvals>>

UndoSecret(c) ==
  /\ CreateAt(c, "undo")
  /\ DeleteSecret(c)
  /\ CreateTo(c, "done")
  /\ UNCHANGED <<owned, shared, approvals>>

CreateStep(c) ==
  \/ PasteKey(c) \/ ConsumeApproval(c) \/ StoreSecret(c) \/ FindDefinition(c)
  \/ InsertDefinition(c) \/ FindRevoked(c) \/ WriteConnection(c) \/ UndoSecret(c)

(* A refused store leaves nothing, a definition or a model list that       *)
(* cannot be written leaves the secret, a row that cannot takes it back.   *)
CreateFails(c) ==
  /\ create[c].pc \notin {"idle", "done"}
  /\ CreateTo(c, IF create[c].pc \in {"find", "write"} THEN "undo" ELSE "done")
  /\ UNCHANGED tables

WriteUnanswered(c) ==
  /\ CreateAt(c, "write") /\ ~Refused(c)
  /\ Written(c)
  /\ CreateTo(c, "undo")
  /\ UNCHANGED <<owned, shared, secrets, approvals>>

CreateDies(c) ==
  /\ create[c].pc \notin {"idle", "done"}
  /\ CreateTo(c, "done")
  /\ UNCHANGED tables

-----------------------------------------------------------------------------
(* resolveForRequest, for a routed request or a test: the row, then the    *)
(* secret it named.                                                        *)

(* (Mutant: the status alone is asked.)                                    *)
ReadStatus(r) ==
  /\ RequestAt(r, "idle")
  /\ \E k \in Keys :
       /\ connections[k].exists /\ connections[k].status # "revoked"
       /\ connections[k].secret # NoSecret
       /\ request' = [request EXCEPT ![r] =
            [pc |-> "read", key |-> k, secret |-> connections[k].secret]]
  /\ UNCHANGED tables

ReadRow(r) ==
  /\ RequestAt(r, "idle")
  /\ \E k \in Keys :
       /\ connections[k].exists
       /\ ~connections[k].revoked /\ connections[k].status # "revoked"
       /\ connections[k].secret # NoSecret
       /\ request' = [request EXCEPT ![r] =
            [pc |-> "read", key |-> k, secret |-> connections[k].secret]]
  /\ UNCHANGED tables

ReadCredential(r) ==
  /\ RequestAt(r, "read")
  /\ request' = [request EXCEPT ![r] =
       IF request[r].secret \in secrets THEN [request[r] EXCEPT !.pc = "use"] ELSE IdleRequest]
  /\ UNCHANGED tables

(* A routed request is sent; what came of it is noted where nothing here   *)
(* reads it.                                                               *)
Route(r) ==
  /\ RequestAt(r, "use")
  /\ request' = [request EXCEPT ![r] = IdleRequest]
  /\ UNCHANGED tables

(* (Mutant: it writes the probe's verdict.)                                *)
RecordVerdict(r) ==
  /\ RequestAt(r, "use")
  /\ \E verdict \in {"accepted", "rejected", "inconclusive"} :
       connections' = [connections EXCEPT ![request[r].key].status = verdict]
  /\ request' = [request EXCEPT ![r] = IdleRequest]
  /\ UNCHANGED <<owned, shared, secrets, approvals>>

(* revalidate writes what the probe found by the row's id: whether the row *)
(* was revoked or revived since it was read is not asked.                  *)
Revalidate(r) ==
  /\ RequestAt(r, "use")
  /\ \E status \in Status \ {"revoked"} :
       connections' = [connections EXCEPT ![request[r].key].status = status]
  /\ request' = [request EXCEPT ![r] = IdleRequest]
  /\ UNCHANGED <<owned, shared, secrets, approvals>>

(* One statement, on a row not revoked yet; the secret stays. *)
Revoke(k) ==
  /\ connections[k].exists /\ ~connections[k].revoked
  /\ connections' = [connections EXCEPT ![k].revoked = TRUE, ![k].status = "revoked"]
  /\ withdrawn' = withdrawn \cup ({connections[k].secret} \ {NoSecret})
  /\ UNCHANGED <<owned, shared, secrets, approvals>>

-----------------------------------------------------------------------------
Failing == failures < MaxFailures /\ failures' = failures + 1

Connect ==
  /\ \/ \E c \in Creates : CreateStep(c) /\ UNCHANGED failures
     \/ \E c \in Creates : (CreateFails(c) \/ WriteUnanswered(c) \/ CreateDies(c)) /\ Failing
  /\ UNCHANGED <<request, withdrawn>>

Resolve ==
  /\ \E r \in Requests : ReadRow(r) \/ ReadCredential(r) \/ Route(r) \/ Revalidate(r)
  /\ UNCHANGED <<create, failures, withdrawn>>

Disconnect ==
  /\ \E k \in Keys : Revoke(k)
  /\ UNCHANGED <<create, request, failures>>

Next == Connect \/ Resolve \/ Disconnect

Spec == Init /\ [][Next]_vars

-----------------------------------------------------------------------------
(* Every variable holds a value of the shape its table or process has. *)
TypeOK ==
  /\ connections \in [Keys -> Row]
  /\ owned \subseteq Keys /\ shared \subseteq Names
  /\ secrets \subseteq Creates /\ withdrawn \subseteq Creates
  /\ approvals \in [Approvals -> [key : Keys, consumed : BOOLEAN]]
  /\ create \in [Creates -> Create]
  /\ request \in [Requests -> Request]
  /\ failures \in 0..MaxFailures

(* Once a connection was revoked no request that starts later gets the     *)
(* credential it had: not when a test in flight writes a working status    *)
(* over the revocation, and not when the row is revived with another       *)
(* credential (connections.ts 306-312, 384-396, 519-521, 577-592).         *)
RevokedCredentialNeverUsed ==
  [][\A r \in Requests :
       RequestAt(r, "idle") /\ request'[r].pc = "read"
         => request'[r].secret \notin withdrawn]_vars

(* One OAuth approval becomes one credential, however often its callback   *)
(* is delivered (callback/route.ts 44-55).                                 *)
OneCredentialPerApproval ==
  \A c, d \in Creates :
    create[c].approval # NoSecret /\ create[c].approval = create[d].approval => c = d

(* A connection that is not revoked has the credential it names, but for   *)
(* one each time something fails: a create takes back only a secret that   *)
(* no row names (connections.ts 291-317).                                  *)
LiveConnectionHasCredential ==
  Cardinality({k \in Keys :
    /\ connections[k].exists /\ ~connections[k].revoked
    /\ connections[k].secret \notin secrets}) <= failures

-----------------------------------------------------------------------------
(* "Nothing references the secret yet; do not leave a live credential      *)
(* behind that no connection can use or revoke" (connections.ts 314-315).  *)
NoCredentialLeftBehind ==
  \A c \in secrets : CreateAt(c, "done") => \E k \in Keys : connections[k].secret = c
=============================================================================
