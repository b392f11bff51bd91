----------------------------- MODULE BillingConnect ----------------------------
(***************************************************************************)
(* Connecting a GitHub account (the callback of the OAuth redirect) and    *)
(* disconnecting it.  Each step is one call to GitHub, to the vault or to  *)
(* the database; neither takes the lease a sync holds.                     *)
(***************************************************************************)
EXTENDS BillingTables

CONSTANT Disconnects   \* disconnect calls

VARIABLES
  connect,      \* the local state of each callback
  disconnect    \* the local state of each disconnect

Callback ==
  [ pc        : {"idle", "identify", "owner", "existing", "store", "write",
                 "supersede", "undo", "release", "done"},
    user      : Users \cup {NoUser},
    known     : BOOLEAN,                        \* the user's row was found
    old       : Connects \cup {NoSecret} ]      \* the secret it named

Disconnect ==
  [ pc   : {"idle", "read", "revoke", "mark", "destroy", "done"},
    user : Users \cup {NoUser},
    old  : Connects \cup {NoSecret},
    pair : Nat ]

IdleCallback == [pc |-> "idle", user |-> NoUser, known |-> FALSE, old |-> NoSecret]
IdleDisconnect == [pc |-> "idle", user |-> NoUser, old |-> NoSecret, pair |-> 0]
DisconnectOver == [IdleDisconnect EXCEPT !.pc = "done"]

ConnectTypeOK ==
  /\ connect \in [Connects -> Callback]
  /\ disconnect \in [Disconnects -> Disconnect]

ConnectInit ==
  /\ connect = [c \in Connects |-> IdleCallback]
  /\ disconnect = [x \in Disconnects |-> IdleDisconnect]

CallbackAt(c, pc) == connect[c].pc = pc
CallbackTo(c, pc) ==
  connect' = [connect EXCEPT ![c] =
    IF pc = "done" THEN [IdleCallback EXCEPT !.pc = "done"]
    ELSE [connect[c] EXCEPT !.pc = pc]]
DisconnectAt(x, pc) == disconnect[x].pc = pc

-----------------------------------------------------------------------------
(* The callback.                                                           *)

(* The state is consumed once, whoever presents it again; the code starts  *)
(* a chain for the GitHub account that approved.                           *)
Exchange(c) ==
  /\ CallbackAt(c, "idle")
  /\ \E u \in Users, p \in Principals :
       /\ grants' = [grants EXCEPT ![c] = [principal |-> p, live |-> TRUE, pair |-> 0]]
       /\ connect' = [connect EXCEPT ![c].user = u, ![c].pc = "identify"]
  /\ UNCHANGED <<secrets, accounts>>

(* A grant withdrawn meanwhile fails here, and nothing is handed back.     *)
ConfirmIdentity(c) ==
  /\ CallbackAt(c, "identify")
  /\ CallbackTo(c, IF Accepted(c, 0) THEN "owner" ELSE "done")
  /\ UNCHANGED tables

BoundToAnother(u, p) ==
  \E v \in Users \ {u} : accounts[v].exists /\ accounts[v].principal = p

FindOwner(c) ==
  /\ CallbackAt(c, "owner")
  /\ CallbackTo(c, IF BoundToAnother(connect[c].user, grants[c].principal)
                   THEN "release" ELSE "existing")
  /\ UNCHANGED tables

FindExisting(c) ==
  LET row == accounts[connect[c].user] IN
  /\ CallbackAt(c, "existing")
  /\ connect' = [connect EXCEPT
       ![c].known = row.exists,
       ![c].old = row.secret,
       ![c].pc = IF row.exists /\ row.principal # grants[c].principal
                 THEN "release" ELSE "store"]
  /\ UNCHANGED tables

Store(c) ==
  /\ CallbackAt(c, "store")
  /\ StoreBundle(c, 0)
  /\ CallbackTo(c, "write")
  /\ UNCHANGED <<grants, accounts>>

Connected(u, c) ==
  accounts' = [accounts EXCEPT ![u].exists = TRUE,
                 ![u].principal = grants[c].principal,
                 ![u].status = "connected", ![u].secret = c]

(* The row found is updated by its id, whatever it says by now.            *)
Reconnect(c) ==
  /\ CallbackAt(c, "write") /\ connect[c].known
  /\ Connected(connect[c].user, c)
  /\ CallbackTo(c, IF connect[c].old = NoSecret THEN "done" ELSE "supersede")
  /\ UNCHANGED <<grants, secrets>>

(* (Mutant: unique by user alone.)                                         *)
InsertForUser(c) ==
  LET u == connect[c].user IN
  /\ CallbackAt(c, "write") /\ ~connect[c].known
  /\ IF accounts[u].exists
     THEN CallbackTo(c, "undo") /\ UNCHANGED accounts
     ELSE CallbackTo(c, "done") /\ Connected(u, c)
  /\ UNCHANGED <<grants, secrets>>

(* The row is unique by user and by GitHub account.                        *)
Insert(c) ==
  LET u == connect[c].user IN
  /\ CallbackAt(c, "write") /\ ~connect[c].known
  /\ IF accounts[u].exists \/ BoundToAnother(u, grants[c].principal)
     THEN CallbackTo(c, "undo") /\ UNCHANGED accounts
     ELSE CallbackTo(c, "done") /\ Connected(u, c)
  /\ UNCHANGED <<grants, secrets>>

Supersede(c) ==
  /\ CallbackAt(c, "supersede")
  /\ DeleteBundle(connect[c].old)
  /\ CallbackTo(c, "done")
  /\ UNCHANGED grants

Undo(c) ==
  /\ CallbackAt(c, "undo")
  /\ DeleteBundle(c)
  /\ CallbackTo(c, "release")
  /\ UNCHANGED grants

Release(c) ==
  /\ CallbackAt(c, "release")
  /\ RevokeGrant(c, 0)
  /\ CallbackTo(c, "done")
  /\ UNCHANGED <<secrets, accounts>>

CallbackStep(c) ==
  \/ Exchange(c) \/ ConfirmIdentity(c) \/ FindOwner(c) \/ FindExisting(c)
  \/ Store(c) \/ Reconnect(c) \/ Insert(c)
  \/ Supersede(c) \/ Undo(c) \/ Release(c)

(* A call that fails: a read ends the callback, a refused write undoes it, *)
(* the deletions and the release are best effort.                          *)
CallbackFails(c) ==
  /\ CallbackTo(c, CASE connect[c].pc = "store" -> "release"
                     [] connect[c].pc = "write" -> "undo"
                     [] connect[c].pc = "undo" -> "release"
                     [] OTHER -> "done")
  /\ UNCHANGED tables

(* The row was written and the answer lost: undone as if it had not been.  *)
WriteUnanswered(c) ==
  LET u == connect[c].user IN
  /\ CallbackAt(c, "write")
  /\ connect[c].known \/ ~(accounts[u].exists \/ BoundToAnother(u, grants[c].principal))
  /\ Connected(u, c)
  /\ CallbackTo(c, "undo")
  /\ UNCHANGED <<grants, secrets>>

CallbackDies(c) == CallbackTo(c, "done") /\ UNCHANGED tables

CallbackTrouble(c) ==
  /\ connect[c].pc \notin {"idle", "done"}
  /\ CallbackFails(c) \/ WriteUnanswered(c) \/ CallbackDies(c)

-----------------------------------------------------------------------------
(* Disconnect.                                                             *)

ReadAccountToDrop(x) ==
  /\ DisconnectAt(x, "idle")
  /\ \E u \in Users :
       /\ accounts[u].exists
       /\ disconnect' = [disconnect EXCEPT ![x] =
            [pc |-> IF accounts[u].secret = NoSecret THEN "mark" ELSE "read",
             user |-> u, old |-> accounts[u].secret, pair |-> 0]]
  /\ UNCHANGED tables

ReadBundleToDrop(x) ==
  LET bundle == secrets[disconnect[x].old] IN
  /\ DisconnectAt(x, "read")
  /\ disconnect' = [disconnect EXCEPT
       ![x].pair = IF bundle.stored THEN bundle.pair ELSE 0,
       ![x].pc = IF bundle.stored THEN "revoke" ELSE "mark"]
  /\ UNCHANGED tables

RevokeAtGithub(x) ==
  /\ DisconnectAt(x, "revoke")
  /\ RevokeGrant(disconnect[x].old, disconnect[x].pair)
  /\ disconnect' = [disconnect EXCEPT ![x].pc = "mark"]
  /\ UNCHANGED <<secrets, accounts>>

MarkRevoked(x) ==
  /\ DisconnectAt(x, "mark")
  /\ accounts' = [accounts EXCEPT ![disconnect[x].user].status = "revoked",
                                  ![disconnect[x].user].secret = NoSecret]
  /\ disconnect' = [disconnect EXCEPT ![x] =
       IF disconnect[x].old = NoSecret THEN DisconnectOver
       ELSE [disconnect[x] EXCEPT !.pc = "destroy"]]
  /\ UNCHANGED <<grants, secrets>>

DestroyBundle(x) ==
  /\ DisconnectAt(x, "destroy")
  /\ DeleteBundle(disconnect[x].old)
  /\ disconnect' = [disconnect EXCEPT ![x] = DisconnectOver]
  /\ UNCHANGED grants

DisconnectStep(x) ==
  \/ ReadAccountToDrop(x) \/ ReadBundleToDrop(x) \/ RevokeAtGithub(x)
  \/ MarkRevoked(x) \/ DestroyBundle(x)

(* Reading the bundle and revoking are best effort. *)
DropUnread(x) ==
  /\ disconnect[x].pc \in {"read", "revoke"}
  /\ disconnect' = [disconnect EXCEPT ![x].pc = "mark"]
  /\ UNCHANGED tables

(* A failed update throws and ends the call, as a death does. *)
DropAborted(x) ==
  /\ disconnect[x].pc \notin {"idle", "done"}
  /\ disconnect' = [disconnect EXCEPT ![x] = DisconnectOver]
  /\ UNCHANGED tables

DisconnectTrouble(x) == DropUnread(x) \/ DropAborted(x)
=============================================================================
