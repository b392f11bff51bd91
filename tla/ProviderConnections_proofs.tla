----------------------- MODULE ProviderConnections_proofs -----------------------
(***************************************************************************)
(* Provider connections, for any number of users, providers, creates,      *)
(* approvals, requests and failures: an approval becomes one credential,   *)
(* a request never starts with a credential that was withdrawn, and a live *)
(* connection has the credential it names, but for one each failure.       *)
(***************************************************************************)
EXTENDS ProviderConnections, FiniteSetTheorems, TLAPS

LEMMA IdleTyped ==
  /\ AnyKey \in Keys
  /\ IdleCreate \in Create
  /\ IdleRequest \in Request
<1>1. Keys # {}
  <2>1. PICK u \in Users, n \in Names : TRUE BY ConnectionsAssumption
  <2>2. <<u, n>> \in Keys BY <2>1 DEF Keys
  <2>. QED BY <2>2
<1>2. AnyKey \in Keys BY <1>1 DEF AnyKey
<1>. QED BY <1>2 DEF IdleCreate, IdleRequest, Create, Request

(* Where a step of a create may leave its local state. *)
LEMMA CreateToTyped ==
  ASSUME TypeOK, NEW c \in Creates,
         NEW pc \in {"store", "define", "insert_definition", "find", "write", "undo", "done"},
         CreateTo(c, pc)
  PROVE  /\ create' \in [Creates -> Create]
         /\ \A d \in Creates : create'[d].approval = create[d].approval
         /\ \A d \in Creates \ {c} : create'[d] = create[d]
         /\ create'[c].pc = pc
<1>1. create \in [Creates -> Create] BY DEF TypeOK
<1>2. create[c] \in Create BY <1>1
<1>3. CASE pc = "done"
  <2>1. create' = [create EXCEPT ![c] =
                     [IdleCreate EXCEPT !.pc = "done", !.approval = create[c].approval]]
    BY <1>3 DEF CreateTo
  <2>2. [IdleCreate EXCEPT !.pc = "done", !.approval = create[c].approval] \in Create
    BY <1>2, IdleTyped DEF Create
  <2>3. [IdleCreate EXCEPT !.pc = "done", !.approval = create[c].approval].approval
           = create[c].approval
    BY IdleTyped DEF Create
  <2>4. [IdleCreate EXCEPT !.pc = "done", !.approval = create[c].approval].pc = "done"
    BY IdleTyped DEF Create
  <2>. QED BY <1>1, <1>3, <2>1, <2>2, <2>3, <2>4
<1>4. CASE pc # "done"
  <2>1. create' = [create EXCEPT ![c] = [create[c] EXCEPT !.pc = pc]]
    BY <1>4 DEF CreateTo
  <2>2. [create[c] EXCEPT !.pc = pc] \in Create BY <1>2 DEF Create
  <2>3. /\ [create[c] EXCEPT !.pc = pc].approval = create[c].approval
        /\ [create[c] EXCEPT !.pc = pc].pc = pc
    BY <1>2 DEF Create
  <2>. QED BY <1>1, <2>1, <2>2, <2>3
<1>. QED BY <1>3, <1>4

LEMMA DeleteTyped ==
  ASSUME TypeOK, NEW c, DeleteSecret(c)
  PROVE  /\ connections' \in [Keys -> Row] /\ secrets' \subseteq Creates
         /\ \A k \in Keys :
              /\ connections'[k].exists = connections[k].exists
              /\ connections'[k].revoked = connections[k].revoked
              /\ connections'[k].secret \in {connections[k].secret, NoSecret}
<1>1. connections \in [Keys -> Row] BY DEF TypeOK
<1>2. ASSUME NEW k \in Keys
      PROVE  /\ connections'[k] \in Row
             /\ connections'[k].exists = connections[k].exists
             /\ connections'[k].revoked = connections[k].revoked
             /\ connections'[k].secret \in {connections[k].secret, NoSecret}
  <2>1. connections[k] \in Row BY <1>1
  <2>. QED BY <2>1 DEF DeleteSecret, Row
<1>. QED BY <1>2 DEF DeleteSecret, TypeOK

LEMMA WrittenTyped ==
  ASSUME TypeOK, NEW c \in Creates, Written(c)
  PROVE  /\ create[c].key \in Keys
         /\ connections' \in [Keys -> Row]
         /\ connections'[create[c].key].secret = c
         /\ \A k \in Keys \ {create[c].key} : connections'[k] = connections[k]
<1>1. create[c] \in Create BY DEF TypeOK
<1>2. /\ create[c].key \in Keys /\ create[c].status \in Status
  BY <1>1 DEF Create, Status
<1>3. [exists |-> TRUE, revoked |-> FALSE, status |-> create[c].status, secret |-> c] \in Row
  BY <1>2 DEF Row
<1>. QED BY <1>2, <1>3 DEF Written, TypeOK

LEMMA ProbedTyped ==
  ASSUME TypeOK, NEW c \in Creates, NEW k \in Keys, NEW oauth \in BOOLEAN,
         NEW a \in Approvals \cup {NoSecret}, Probed(c, k, oauth, a)
  PROVE  /\ create' \in [Creates -> Create]
         /\ \A d \in Creates \ {c} : create'[d] = create[d]
         /\ create'[c].approval = a /\ create'[c].pc = "store"
<1>1. PICK status \in {"active", "validating"} :
        create' = [create EXCEPT ![c] =
          [IdleCreate EXCEPT !.pc = "store", !.key = k, !.oauth = oauth,
                             !.approval = a, !.status = status]]
  BY DEF Probed
<1>. DEFINE new == [IdleCreate EXCEPT !.pc = "store", !.key = k, !.oauth = oauth,
                             !.approval = a, !.status = status]
<1>2. new \in Create /\ new.approval = a /\ new.pc = "store"
  BY IdleTyped DEF Create
<1>. HIDE DEF new
<1>3. create' = [create EXCEPT ![c] = new] BY <1>1 DEF new
<1>. QED BY <1>2, <1>3 DEF TypeOK

-----------------------------------------------------------------------------
(* What a step of a create does, in the terms the invariants are stated in. *)
Early == {"idle", "store", "define", "insert_definition", "find", "write"}

KeepsCreates(c) ==
  /\ create' \in [Creates -> Create]
  /\ \A d \in Creates \ {c} : create'[d] = create[d]
  /\ create'[c].pc # "idle"

LEMMA CreatesProgress ==
  ASSUME TypeOK, NEW c \in Creates,
         \/ CreateStep(c) \/ CreateFails(c) \/ WriteUnanswered(c) \/ CreateDies(c)
  PROVE  /\ KeepsCreates(c)
         /\ connections' \in [Keys -> Row]
         /\ owned' \subseteq Keys /\ shared' \subseteq Names
         /\ secrets' \subseteq Creates
         /\ approvals' \in [Approvals -> [key : Keys, consumed : BOOLEAN]]
<1>1. create[c] \in Create /\ create[c].key \in Keys BY DEF TypeOK, Create
<1>2. CASE PasteKey(c)
  <2>1. PICK k \in Keys : Probed(c, k, FALSE, NoSecret) BY <1>2 DEF PasteKey
  <2>2. KeepsCreates(c) BY <2>1, ProbedTyped DEF KeepsCreates
  <2>. QED BY <1>2, <2>2 DEF PasteKey, TypeOK, tables
<1>3. CASE ConsumeApproval(c)
  <2>1. PICK a \in Approvals :
          /\ approvals' = [approvals EXCEPT ![a].consumed = TRUE]
          /\ Probed(c, approvals[a].key, TRUE, a)
    BY <1>3 DEF ConsumeApproval
  <2>2. approvals[a] \in [key : Keys, consumed : BOOLEAN] BY DEF TypeOK
  <2>3. KeepsCreates(c) BY <2>1, <2>2, ProbedTyped DEF KeepsCreates
  <2>4. approvals' \in [Approvals -> [key : Keys, consumed : BOOLEAN]]
    BY <2>1, <2>2 DEF TypeOK
  <2>. QED BY <1>3, <2>3, <2>4 DEF ConsumeApproval, TypeOK
<1>4. CASE StoreSecret(c)
  <2>1. CreateTo(c, "define") \/ CreateTo(c, "insert_definition")
    BY <1>4 DEF StoreSecret
  <2>2. KeepsCreates(c) BY <2>1, CreateToTyped DEF KeepsCreates
  <2>. QED BY <1>4, <2>2 DEF StoreSecret, TypeOK
<1>5. CASE FindDefinition(c)
  <2>1. CreateTo(c, "find") \/ CreateTo(c, "insert_definition")
    BY <1>5 DEF FindDefinition
  <2>2. KeepsCreates(c) BY <2>1, CreateToTyped DEF KeepsCreates
  <2>. QED BY <1>5, <2>2 DEF FindDefinition, TypeOK, tables
<1>6. CASE InsertDefinition(c)
  <2>1. CreateTo(c, "done") \/ CreateTo(c, "find") BY <1>6 DEF InsertDefinition
  <2>2. KeepsCreates(c) BY <2>1, CreateToTyped DEF KeepsCreates
  <2>3. create[c].key[2] \in Names BY <1>1 DEF Keys
  <2>4. owned' \subseteq Keys /\ shared' \subseteq Names
    BY <1>1, <1>6, <2>3 DEF InsertDefinition, TypeOK
  <2>. QED BY <1>6, <2>2, <2>4 DEF InsertDefinition, TypeOK
<1>7. CASE FindRevoked(c)
  <2>1. connections[create[c].key] \in Row BY <1>1 DEF TypeOK
  <2>. DEFINE row == connections[create[c].key]
              new == [create[c] EXCEPT !.revive = row.exists /\ row.revoked, !.pc = "write"]
  <2>2. row.exists \in BOOLEAN /\ row.revoked \in BOOLEAN BY <2>1 DEF Row
  <2>3. (row.exists /\ row.revoked) \in BOOLEAN BY <2>2
  <2>4. new \in Create /\ new.pc = "write" BY <1>1, <2>3 DEF Create
  <2>5. create' = [create EXCEPT ![c] = new]
    BY <1>7, <1>1 DEF FindRevoked, Create, TypeOK
  <2>. HIDE DEF new, row
  <2>6. KeepsCreates(c) BY <2>4, <2>5 DEF KeepsCreates, TypeOK
  <2>. QED BY <1>7, <2>6 DEF FindRevoked, TypeOK, tables
<1>8. CASE WriteConnection(c)
  <2>1. CreateTo(c, "undo") \/ CreateTo(c, "done") BY <1>8 DEF WriteConnection
  <2>2. KeepsCreates(c) BY <2>1, CreateToTyped DEF KeepsCreates
  <2>3. connections' = connections \/ Written(c) BY <1>8 DEF WriteConnection
  <2>4. connections' \in [Keys -> Row] BY <2>3, WrittenTyped DEF TypeOK
  <2>. QED BY <1>8, <2>2, <2>4 DEF WriteConnection, TypeOK
<1>9. CASE UndoSecret(c)
  <2>1. KeepsCreates(c) BY <1>9, CreateToTyped DEF UndoSecret, KeepsCreates
  <2>2. connections' \in [Keys -> Row] /\ secrets' \subseteq Creates
    BY <1>9, DeleteTyped DEF UndoSecret
  <2>. QED BY <1>9, <2>1, <2>2 DEF UndoSecret, TypeOK
<1>10. CASE CreateFails(c)
  <2>1. CreateTo(c, "undo") \/ CreateTo(c, "done") BY <1>10 DEF CreateFails
  <2>2. KeepsCreates(c) BY <2>1, CreateToTyped DEF KeepsCreates
  <2>. QED BY <1>10, <2>2 DEF CreateFails, TypeOK, tables
<1>11. CASE WriteUnanswered(c)
  <2>1. KeepsCreates(c) BY <1>11, CreateToTyped DEF WriteUnanswered, KeepsCreates
  <2>2. connections' \in [Keys -> Row] BY <1>11, WrittenTyped DEF WriteUnanswered
  <2>. QED BY <1>11, <2>1, <2>2 DEF WriteUnanswered, TypeOK
<1>12. CASE CreateDies(c)
  <2>1. KeepsCreates(c) BY <1>12, CreateToTyped DEF CreateDies, KeepsCreates
  <2>. QED BY <1>12, <2>1 DEF CreateDies, TypeOK, tables
<1>. QED
  BY <1>2, <1>3, <1>4, <1>5, <1>6, <1>7, <1>8, <1>9, <1>10, <1>11, <1>12 DEF CreateStep

(* The requests and the revocations keep the shapes, and no more of a row  *)
(* than its status, or that it is revoked.                                 *)
LEMMA ResolveTyped ==
  ASSUME TypeOK, Resolve
  PROVE  /\ TypeOK'
         /\ \A k \in Keys :
              /\ connections'[k].exists = connections[k].exists
              /\ connections'[k].revoked = connections[k].revoked
              /\ connections'[k].secret = connections[k].secret
         /\ UNCHANGED <<approvals, create, secrets, withdrawn>>
<1>1. PICK r \in Requests : ReadRow(r) \/ ReadCredential(r) \/ Route(r) \/ Revalidate(r)
  BY DEF Resolve
<1>2. request[r] \in Request BY DEF TypeOK
<1>3. CASE ReadRow(r)
  <2>1. PICK k \in Keys :
          request' = [request EXCEPT ![r] =
            [pc |-> "read", key |-> k, secret |-> connections[k].secret]]
    BY <1>3 DEF ReadRow
  <2>2. connections[k].secret \in Creates \cup {NoSecret} BY DEF TypeOK, Row
  <2>3. [pc |-> "read", key |-> k, secret |-> connections[k].secret] \in Request
    BY <2>2 DEF Request
  <2>4. request' \in [Requests -> Request] BY <2>1, <2>3 DEF TypeOK
  <2>. QED BY <1>3, <2>4 DEF ReadRow, Resolve, TypeOK, tables
<1>4. CASE ReadCredential(r)
  <2>1. [request[r] EXCEPT !.pc = "use"] \in Request BY <1>2 DEF Request
  <2>2. request' \in [Requests -> Request]
    BY <1>4, <2>1, IdleTyped DEF ReadCredential, TypeOK
  <2>. QED BY <1>4, <2>2 DEF ReadCredential, Resolve, TypeOK, tables
<1>5. CASE Route(r)
  <2>1. request' \in [Requests -> Request] BY <1>5, IdleTyped DEF Route, TypeOK
  <2>. QED BY <1>5, <2>1 DEF Route, Resolve, TypeOK, tables
<1>6. CASE Revalidate(r)
  <2>1. request' \in [Requests -> Request] BY <1>6, IdleTyped DEF Revalidate, TypeOK
  <2>2. PICK status \in Status \ {"revoked"} :
          connections' = [connections EXCEPT ![request[r].key].status = status]
    BY <1>6 DEF Revalidate
  <2>3. request[r].key \in Keys BY <1>2 DEF Request
  <2>4. ASSUME NEW k \in Keys
        PROVE  /\ connections'[k] \in Row
               /\ connections'[k].exists = connections[k].exists
               /\ connections'[k].revoked = connections[k].revoked
               /\ connections'[k].secret = connections[k].secret
    <3>1. connections[k] \in Row BY DEF TypeOK
    <3>2. CASE k = request[r].key
      <4>1. connections'[k] = [connections[k] EXCEPT !.status = status]
        BY <2>2, <3>2 DEF TypeOK
      <4>. QED BY <4>1, <3>1 DEF Row
    <3>3. CASE k # request[r].key
      <4>1. connections'[k] = connections[k] BY <2>2, <2>3, <3>3 DEF TypeOK
      <4>. QED BY <4>1, <3>1
    <3>. QED BY <3>2, <3>3
  <2>5. connections' \in [Keys -> Row] BY <2>2, <2>4 DEF TypeOK
  <2>. QED BY <1>6, <2>1, <2>4, <2>5 DEF Revalidate, Resolve, TypeOK
<1>. QED BY <1>1, <1>3, <1>4, <1>5, <1>6

LEMMA RevokeTyped ==
  ASSUME TypeOK, NEW k \in Keys, Revoke(k), UNCHANGED <<create, request, failures>>
  PROVE  /\ TypeOK'
         /\ connections'[k].revoked /\ connections'[k].secret = connections[k].secret
         /\ \A l \in Keys \ {k} : connections'[l] = connections[l]
<1>1. connections[k] \in Row BY DEF TypeOK
<1>2. connections' =
        [connections EXCEPT ![k] = [connections[k] EXCEPT !.revoked = TRUE, !.status = "revoked"]]
  BY <1>1 DEF Revoke, TypeOK, Row
<1>3. [connections[k] EXCEPT !.revoked = TRUE, !.status = "revoked"] \in Row
  BY <1>1 DEF Row, Status
<1>4. /\ [connections[k] EXCEPT !.revoked = TRUE, !.status = "revoked"].revoked
      /\ [connections[k] EXCEPT !.revoked = TRUE, !.status = "revoked"].secret
           = connections[k].secret
  BY <1>1 DEF Row
<1>5. connections' \in [Keys -> Row] BY <1>2, <1>3 DEF TypeOK
<1>6. withdrawn' \subseteq Creates BY <1>1 DEF Revoke, TypeOK, Row
<1>. QED BY <1>2, <1>4, <1>5, <1>6 DEF Revoke, TypeOK

LEMMA FailuresTyped ==
  ASSUME TypeOK, Connect
  PROVE  failures' \in 0..MaxFailures
BY ConnectionsAssumption DEF TypeOK, Connect, Failing

LEMMA StepTyped == TypeOK /\ [Next]_vars => TypeOK'
<1>. SUFFICES ASSUME TypeOK, [Next]_vars PROVE TypeOK'
  OBVIOUS
<1>1. CASE Connect
  <2>1. PICK c \in Creates :
          CreateStep(c) \/ CreateFails(c) \/ WriteUnanswered(c) \/ CreateDies(c)
    BY <1>1 DEF Connect
  <2>2. /\ create' \in [Creates -> Create] /\ connections' \in [Keys -> Row]
        /\ owned' \subseteq Keys /\ shared' \subseteq Names /\ secrets' \subseteq Creates
        /\ approvals' \in [Approvals -> [key : Keys, consumed : BOOLEAN]]
    BY <2>1, CreatesProgress DEF KeepsCreates
  <2>. QED BY <1>1, <2>2, FailuresTyped DEF Connect, TypeOK
<1>2. CASE Resolve BY <1>2, ResolveTyped
<1>3. CASE Disconnect BY <1>3, RevokeTyped DEF Disconnect
<1>4. CASE UNCHANGED vars BY <1>4 DEF vars, TypeOK
<1>. QED BY <1>1, <1>2, <1>3, <1>4 DEF Next

(* Every table and every local state keeps its shape. *)
THEOREM ConnectionsTypeOK == Spec => []TypeOK
<1>1. Init => TypeOK
  <2>. SUFFICES ASSUME Init PROVE TypeOK OBVIOUS
  <2>1. connections \in [Keys -> Row] BY DEF Init, Row, Status
  <2>2. approvals \in [Approvals -> [key : Keys, consumed : BOOLEAN]] BY DEF Init
  <2>3. create \in [Creates -> Create] /\ request \in [Requests -> Request]
    BY IdleTyped DEF Init
  <2>4. failures \in 0..MaxFailures BY ConnectionsAssumption DEF Init
  <2>. QED BY <2>1, <2>2, <2>3, <2>4 DEF Init, TypeOK
<1>. QED BY <1>1, StepTyped, PTL DEF Spec

-----------------------------------------------------------------------------
(* An approval that some create carries was consumed; so it is carried by  *)
(* no other.                                                               *)
ApprovalInv ==
  /\ \A c \in Creates :
       create[c].approval # NoSecret =>
         create[c].approval \in Approvals /\ approvals[create[c].approval].consumed
  /\ OneCredentialPerApproval

LEMMA ApprovalsCarried ==
  ASSUME TypeOK, NEW c \in Creates,
         \/ StoreSecret(c) \/ FindDefinition(c) \/ InsertDefinition(c) \/ FindRevoked(c)
         \/ WriteConnection(c) \/ UndoSecret(c)
         \/ CreateFails(c) \/ WriteUnanswered(c) \/ CreateDies(c)
  PROVE  UNCHANGED approvals /\ \A d \in Creates : create'[d].approval = create[d].approval
<1>1. create[c] \in Create BY DEF TypeOK
<1>2. UNCHANGED approvals
  BY DEF StoreSecret, FindDefinition, InsertDefinition, FindRevoked, WriteConnection,
     UndoSecret, CreateFails, WriteUnanswered, CreateDies, tables
<1>3. CASE FindRevoked(c)
  <2>1. PICK b : create' = [create EXCEPT ![c].revive = b, ![c].pc = "write"]
    BY <1>3 DEF FindRevoked
  <2>2. create'[c].approval = create[c].approval BY <2>1, <1>1 DEF TypeOK, Create
  <2>. QED BY <2>1, <2>2, <1>2 DEF TypeOK
<1>4. CASE ~FindRevoked(c)
  <2>1. PICK pc \in {"store", "define", "insert_definition", "find", "write", "undo", "done"} :
          CreateTo(c, pc)
    BY <1>4 DEF StoreSecret, FindDefinition, InsertDefinition, WriteConnection,
       UndoSecret, CreateFails, WriteUnanswered, CreateDies
  <2>. QED BY <2>1, <1>2, CreateToTyped
<1>. QED BY <1>3, <1>4

LEMMA ApprovalsStay ==
  ASSUME TypeOK, ApprovalInv, [Next]_vars
  PROVE  ApprovalInv'
<1>1. ASSUME UNCHANGED approvals, \A d \in Creates : create'[d].approval = create[d].approval
      PROVE  ApprovalInv'
  BY <1>1 DEF ApprovalInv, OneCredentialPerApproval
<1>2. ASSUME NEW c \in Creates, PasteKey(c) PROVE ApprovalInv'
  <2>1. /\ \A d \in Creates \ {c} : create'[d] = create[d]
        /\ create'[c].approval = NoSecret /\ UNCHANGED approvals
    BY <1>2, ProbedTyped DEF PasteKey, tables
  <2>. QED BY <2>1 DEF ApprovalInv, OneCredentialPerApproval
<1>3. ASSUME NEW c \in Creates, ConsumeApproval(c) PROVE ApprovalInv'
  <2>1. PICK a \in Approvals :
          /\ ~approvals[a].consumed
          /\ approvals' = [approvals EXCEPT ![a].consumed = TRUE]
          /\ Probed(c, approvals[a].key, TRUE, a)
    BY <1>3 DEF ConsumeApproval
  <2>2. approvals[a] \in [key : Keys, consumed : BOOLEAN] BY DEF TypeOK
  <2>3. /\ \A d \in Creates \ {c} : create'[d] = create[d]
        /\ create'[c].approval = a
    BY ZenonT(60), <2>1, <2>2, ProbedTyped
  <2>4. \A b \in Approvals : approvals[b].consumed => approvals'[b].consumed
    BY <2>1, <2>2 DEF TypeOK
  <2>5. approvals'[a].consumed BY <2>1, <2>2 DEF TypeOK
  <2>6. \A d \in Creates : create[d].approval # NoSecret => create[d].approval # a
    BY <2>1 DEF ApprovalInv
  <2>. QED BY <2>3, <2>4, <2>5, <2>6 DEF ApprovalInv, OneCredentialPerApproval
<1>4. CASE Connect
  <2>1. PICK c \in Creates :
          CreateStep(c) \/ CreateFails(c) \/ WriteUnanswered(c) \/ CreateDies(c)
    BY <1>4 DEF Connect
  <2>2. CASE PasteKey(c) \/ ConsumeApproval(c) BY <2>2, <1>2, <1>3
  <2>3. CASE ~(PasteKey(c) \/ ConsumeApproval(c))
    <3>1. UNCHANGED approvals /\ \A d \in Creates : create'[d].approval = create[d].approval
      BY <2>1, <2>3, ApprovalsCarried DEF CreateStep
    <3>. QED BY <3>1, <1>1
  <2>. QED BY <2>2, <2>3
<1>5. CASE Resolve BY <1>5, <1>1, ResolveTyped
<1>6. CASE Disconnect BY <1>6, <1>1 DEF Disconnect, Revoke
<1>7. CASE UNCHANGED vars BY <1>7, <1>1 DEF vars
<1>. QED BY <1>4, <1>5, <1>6, <1>7 DEF Next

(* A callback that is delivered again finds its approval consumed, however *)
(* many creates run at once (callback/route.ts 44-55).                     *)
THEOREM ApprovalsUsedOnce == Spec => []OneCredentialPerApproval
<1>1. Init => ApprovalInv
  <2>. SUFFICES ASSUME Init PROVE ApprovalInv OBVIOUS
  <2>1. IdleCreate.approval = NoSecret BY DEF IdleCreate
  <2>2. \A c \in Creates : create[c].approval = NoSecret BY <2>1 DEF Init
  <2>. QED BY <2>2 DEF ApprovalInv, OneCredentialPerApproval
<1>2. TypeOK /\ ApprovalInv /\ [Next]_vars => ApprovalInv' BY ApprovalsStay
<1>3. ApprovalInv => OneCredentialPerApproval BY DEF ApprovalInv
<1>. QED BY <1>1, <1>2, <1>3, ConnectionsTypeOK, PTL DEF Spec

-----------------------------------------------------------------------------
(* No live row names a withdrawn credential, no two rows name one, and the *)
(* credential of a create that has not written its row is named by none.   *)
CredentialInv ==
  /\ \A k \in Keys :
       connections[k].exists /\ ~connections[k].revoked /\ connections[k].secret # NoSecret
         => connections[k].secret \notin withdrawn
  /\ \A k, l \in Keys :
       connections[k].secret # NoSecret /\ connections[k].secret = connections[l].secret => k = l
  /\ \A c \in Creates : create[c].pc \in Early =>
       c \notin withdrawn /\ \A k \in Keys : connections[k].secret # c

(* A create writes the row, takes its secret back, or leaves the rows; and *)
(* none is early again.                                                    *)
LEMMA CreatesEffect ==
  ASSUME TypeOK, NEW c \in Creates,
         CreateStep(c) \/ CreateFails(c) \/ WriteUnanswered(c) \/ CreateDies(c)
  PROVE  /\ \A d \in Creates : create'[d].pc \in Early => create[d].pc \in Early
         /\ \/ UNCHANGED connections
            \/ DeleteSecret(c)
            \/ create[c].pc \in Early /\ create'[c].pc \notin Early /\ Written(c)
<1>1. KeepsCreates(c) BY CreatesProgress
<1>2. create[c] \in Create BY DEF TypeOK
<1>3. \A d \in Creates \ {c} : create'[d] = create[d] BY <1>1 DEF KeepsCreates
<1>4. CASE CreateStep(c) /\ ~WriteConnection(c) /\ ~UndoSecret(c)
  <2>1. create[c].pc \in Early /\ UNCHANGED connections
    BY <1>4 DEF CreateStep, PasteKey, ConsumeApproval, StoreSecret, FindDefinition,
       InsertDefinition, FindRevoked, CreateAt, Early, tables
  <2>. QED BY <2>1, <1>3
<1>5. CASE WriteConnection(c)
  <2>1. create[c].pc \in Early BY <1>5 DEF WriteConnection, CreateAt, Early
  <2>2. CreateTo(c, "undo") \/ CreateTo(c, "done") BY <1>5 DEF WriteConnection
  <2>3. create'[c].pc \notin Early BY <2>2, CreateToTyped DEF Early
  <2>4. UNCHANGED connections \/ Written(c) BY <1>5 DEF WriteConnection
  <2>. QED BY <2>1, <2>3, <2>4, <1>3
<1>6. CASE UndoSecret(c)
  <2>1. create'[c].pc \notin Early BY <1>6, CreateToTyped DEF UndoSecret, Early
  <2>. QED BY <1>6, <2>1, <1>3 DEF UndoSecret
<1>7. CASE WriteUnanswered(c)
  <2>1. create[c].pc \in Early BY <1>7 DEF WriteUnanswered, CreateAt, Early
  <2>2. create'[c].pc \notin Early BY <1>7, CreateToTyped DEF WriteUnanswered, Early
  <2>. QED BY <1>7, <2>1, <2>2, <1>3 DEF WriteUnanswered
<1>8. CASE CreateFails(c) \/ CreateDies(c)
  <2>1. CreateTo(c, "undo") \/ CreateTo(c, "done") BY <1>8 DEF CreateFails, CreateDies
  <2>2. create'[c].pc \notin Early BY <2>1, CreateToTyped DEF Early
  <2>3. UNCHANGED connections BY <1>8 DEF CreateFails, CreateDies, tables
  <2>. QED BY <2>2, <2>3, <1>3
<1>. QED BY <1>4, <1>5, <1>6, <1>7, <1>8

LEMMA CredentialsStay ==
  ASSUME TypeOK, CredentialInv, [Next]_vars
  PROVE  CredentialInv'
<1>1. ASSUME NEW c \in Creates, UNCHANGED withdrawn,
             CreateStep(c) \/ CreateFails(c) \/ WriteUnanswered(c) \/ CreateDies(c)
      PROVE  CredentialInv'
  <2>1. /\ \A d \in Creates : create'[d].pc \in Early => create[d].pc \in Early
        /\ \/ UNCHANGED connections
           \/ DeleteSecret(c)
           \/ create[c].pc \in Early /\ create'[c].pc \notin Early /\ Written(c)
    BY <1>1, CreatesEffect
  <2>2. CASE UNCHANGED connections BY <1>1, <2>1, <2>2 DEF CredentialInv
  <2>3. CASE DeleteSecret(c)
    <3>1. \A k \in Keys :
            /\ connections'[k].exists = connections[k].exists
            /\ connections'[k].revoked = connections[k].revoked
            /\ connections'[k].secret \in {connections[k].secret, NoSecret}
      BY <2>3, DeleteTyped
    <3>. QED BY <1>1, <2>1, <3>1, ConnectionsAssumption DEF CredentialInv
  <2>4. CASE create[c].pc \in Early /\ create'[c].pc \notin Early /\ Written(c)
    <3>1. c \notin withdrawn /\ \A k \in Keys : connections[k].secret # c
      BY <2>4 DEF CredentialInv
    <3>2. /\ create[c].key \in Keys
          /\ connections'[create[c].key].secret = c
          /\ \A k \in Keys \ {create[c].key} : connections'[k] = connections[k]
      BY <2>4, WrittenTyped
    <3>3. \A k \in Keys :
            connections'[k].exists /\ ~connections'[k].revoked /\ connections'[k].secret # NoSecret
              => connections'[k].secret \notin withdrawn'
      BY <1>1, <3>1, <3>2 DEF CredentialInv
    <3>4. \A k, l \in Keys :
            connections'[k].secret # NoSecret /\ connections'[k].secret = connections'[l].secret
              => k = l
      BY <3>1, <3>2 DEF CredentialInv
    <3>5. \A d \in Creates : create'[d].pc \in Early =>
            d \notin withdrawn' /\ \A k \in Keys : connections'[k].secret # d
      BY <1>1, <2>1, <2>4, <3>2 DEF CredentialInv
    <3>. QED BY <3>3, <3>4, <3>5 DEF CredentialInv
  <2>. QED BY <2>1, <2>2, <2>3, <2>4
<1>2. CASE Connect BY <1>2, <1>1 DEF Connect
<1>3. CASE Resolve
  <2>1. /\ \A k \in Keys :
             /\ connections'[k].exists = connections[k].exists
             /\ connections'[k].revoked = connections[k].revoked
             /\ connections'[k].secret = connections[k].secret
        /\ create' = create /\ withdrawn' = withdrawn
    BY <1>3, ResolveTyped
  <2>. QED BY <2>1 DEF CredentialInv
<1>4. CASE Disconnect
  <2>1. PICK k \in Keys : Revoke(k) BY <1>4 DEF Disconnect
  <2>2. UNCHANGED <<create, request, failures>> BY <1>4 DEF Disconnect
  <2>3. /\ connections'[k].revoked /\ connections'[k].secret = connections[k].secret
        /\ \A l \in Keys \ {k} : connections'[l] = connections[l]
    BY <2>1, <2>2, RevokeTyped
  <2>4. withdrawn' = withdrawn \cup ({connections[k].secret} \ {NoSecret})
    BY <2>1 DEF Revoke
  <2>5. \A l \in Keys :
          connections'[l].exists /\ ~connections'[l].revoked /\ connections'[l].secret # NoSecret
            => connections'[l].secret \notin withdrawn'
    BY <2>3, <2>4 DEF CredentialInv
  <2>6. \A l, n \in Keys :
          connections'[l].secret # NoSecret /\ connections'[l].secret = connections'[n].secret
            => l = n
    BY <2>3 DEF CredentialInv
  <2>7. \A d \in Creates : create'[d].pc \in Early =>
          d \notin withdrawn' /\ \A l \in Keys : connections'[l].secret # d
    BY <2>2, <2>3, <2>4 DEF CredentialInv
  <2>. QED BY <2>5, <2>6, <2>7 DEF CredentialInv
<1>5. CASE UNCHANGED vars BY <1>5 DEF vars, CredentialInv
<1>. QED BY <1>2, <1>3, <1>4, <1>5 DEF Next

(* A request that starts reads a live row, and so no withdrawn credential. *)
LEMMA StartsWithLiveCredential ==
  ASSUME TypeOK, CredentialInv, [Next]_vars, NEW r \in Requests,
         RequestAt(r, "idle"), request'[r].pc = "read"
  PROVE  request'[r].secret \notin withdrawn
<1>1. request[r].pc = "idle" BY DEF RequestAt
<1>2. Resolve BY <1>1 DEF Next, Connect, Disconnect, vars
<1>3. PICK q \in Requests : ReadRow(q) \/ ReadCredential(q) \/ Route(q) \/ Revalidate(q)
  BY <1>2 DEF Resolve
<1>4. CASE ReadRow(q)
  <2>1. PICK k \in Keys :
          /\ connections[k].exists /\ ~connections[k].revoked /\ connections[k].secret # NoSecret
          /\ request' = [request EXCEPT ![q] =
                [pc |-> "read", key |-> k, secret |-> connections[k].secret]]
    BY <1>4 DEF ReadRow
  <2>2. q = r BY <1>1, <2>1 DEF TypeOK
  <2>3. request'[r].secret = connections[k].secret BY <2>1, <2>2 DEF TypeOK
  <2>. QED BY <2>1, <2>3 DEF CredentialInv
<1>5. CASE ReadCredential(q) \/ Route(q) \/ Revalidate(q)
  <2>1. request[q].pc # "idle"
    BY <1>5 DEF ReadCredential, Route, Revalidate, RequestAt
  <2>2. q # r BY <1>1, <2>1
  <2>3. PICK new : request' = [request EXCEPT ![q] = new]
    BY <1>5 DEF ReadCredential, Route, Revalidate
  <2>. QED BY <1>1, <2>2, <2>3 DEF TypeOK
<1>. QED BY <1>3, <1>4, <1>5

(* Revoking is final for the credential: a test in flight may write a      *)
(* working status over it, and the row may be revived, but no request that *)
(* starts later gets it (connections.ts 306-312, 384-396, 519-521).        *)
THEOREM RevokedNeverUsed == Spec => RevokedCredentialNeverUsed
<1>. DEFINE Starts == \A r \in Requests :
       RequestAt(r, "idle") /\ request'[r].pc = "read" => request'[r].secret \notin withdrawn
<1>1. Init => CredentialInv
  <2>. SUFFICES ASSUME Init PROVE CredentialInv OBVIOUS
  <2>1. \A k \in Keys : connections[k].secret = NoSecret BY DEF Init
  <2>2. withdrawn = {} BY DEF Init
  <2>. QED BY <2>1, <2>2, ConnectionsAssumption DEF CredentialInv
<1>2. TypeOK /\ CredentialInv /\ [Next]_vars => CredentialInv' BY CredentialsStay
<1>3. TypeOK /\ CredentialInv /\ [Next]_vars => [Starts]_vars
  BY StartsWithLiveCredential
<1>4. RevokedCredentialNeverUsed <=> [][Starts]_vars BY DEF RevokedCredentialNeverUsed
<1>. QED BY <1>1, <1>2, <1>3, <1>4, ConnectionsTypeOK, PTL DEF Spec

-----------------------------------------------------------------------------
(* What a row names is stored, and so is what a create is about to name.   *)
Storing == {"define", "insert_definition", "find", "write"}

SecretsKept ==
  /\ \A k \in Keys :
       connections[k].secret # NoSecret => connections[k].secret \in secrets
  /\ \A c \in Creates : create[c].pc \in Storing => c \in secrets

(* A live row has lost its credential, or names one that a create whose    *)
(* write went unanswered is about to take back.                            *)
LosesCredential(k) ==
  /\ connections[k].exists /\ ~connections[k].revoked
  /\ \/ connections[k].secret = NoSecret
     \/ create[connections[k].secret].pc = "undo"

AtRisk == {k \in Keys : LosesCredential(k)}

RiskBounded == IsFiniteSet(AtRisk) /\ Cardinality(AtRisk) <= failures

LEMMA KeptByQuietStep ==
  ASSUME SecretsKept, secrets' = secrets,
         \A k \in Keys : connections'[k].secret = connections[k].secret,
         \A d \in Creates : create'[d].pc \in Storing => create[d].pc \in Storing
  PROVE  SecretsKept'
BY DEF SecretsKept

LEMMA CreatesKeepSecrets ==
  ASSUME TypeOK, SecretsKept, NEW c \in Creates,
         CreateStep(c) \/ CreateFails(c) \/ WriteUnanswered(c) \/ CreateDies(c)
  PROVE  SecretsKept'
<1>1. \A d \in Creates \ {c} : create'[d] = create[d] BY CreatesProgress DEF KeepsCreates
<1>2. CASE PasteKey(c) \/ ConsumeApproval(c)
  <2>1. create'[c].pc = "store"
    BY <1>2, ProbedTyped DEF PasteKey, ConsumeApproval, TypeOK
  <2>2. UNCHANGED <<secrets, connections>> BY <1>2 DEF PasteKey, ConsumeApproval, tables
  <2>. QED BY <1>1, <2>1, <2>2, KeptByQuietStep DEF Storing
<1>3. CASE StoreSecret(c)
  <2>1. secrets' = secrets \cup {c} /\ UNCHANGED connections BY <1>3 DEF StoreSecret
  <2>. QED BY <2>1, <1>1 DEF SecretsKept
<1>4. CASE \/ FindDefinition(c) \/ InsertDefinition(c) \/ FindRevoked(c)
           \/ (WriteConnection(c) /\ Refused(c)) \/ CreateFails(c) \/ CreateDies(c)
  <2>1. UNCHANGED <<secrets, connections>>
    BY <1>4 DEF FindDefinition, InsertDefinition, FindRevoked, WriteConnection, CreateFails,
       CreateDies, tables
  <2>2. create'[c].pc \in Storing => create[c].pc \in Storing
    <3>1. CASE FindDefinition(c) \/ InsertDefinition(c) \/ FindRevoked(c) \/ WriteConnection(c)
      BY <3>1 DEF FindDefinition, InsertDefinition, FindRevoked, WriteConnection, CreateAt, Storing
    <3>2. CASE CreateFails(c) \/ CreateDies(c)
      <4>1. CreateTo(c, "undo") \/ CreateTo(c, "done") BY <3>2 DEF CreateFails, CreateDies
      <4>. QED BY <4>1, CreateToTyped DEF Storing
    <3>. QED BY <1>4, <3>1, <3>2
  <2>. QED BY <1>1, <2>1, <2>2, KeptByQuietStep
<1>5. CASE (WriteConnection(c) /\ ~Refused(c)) \/ WriteUnanswered(c)
  <2>1. Written(c) /\ secrets' = secrets /\ create[c].pc = "write"
    BY <1>5 DEF WriteConnection, WriteUnanswered, CreateAt
  <2>2. c \in secrets BY <2>1 DEF SecretsKept, Storing
  <2>3. /\ connections'[create[c].key].secret = c
        /\ \A k \in Keys \ {create[c].key} : connections'[k] = connections[k]
    BY <2>1, WrittenTyped
  <2>. QED BY <2>1, <2>2, <2>3, <1>1 DEF SecretsKept, Storing
<1>6. CASE UndoSecret(c)
  <2>1. create'[c].pc = "done" BY <1>6, CreateToTyped DEF UndoSecret
  <2>2. DeleteSecret(c) BY <1>6 DEF UndoSecret
  <2>3. \A k \in Keys : connections'[k].secret # NoSecret =>
          connections'[k].secret = connections[k].secret /\ connections[k].secret # c
    <3>. SUFFICES ASSUME NEW k \in Keys, connections'[k].secret # NoSecret
                  PROVE  connections'[k].secret = connections[k].secret /\ connections[k].secret # c
      OBVIOUS
    <3>1. connections[k] \in Row BY DEF TypeOK
    <3>. QED BY <2>2, <3>1 DEF DeleteSecret, Row
  <2>4. secrets' = secrets \ {c} BY <2>2 DEF DeleteSecret
  <2>. QED BY <2>1, <2>3, <2>4, <1>1 DEF SecretsKept, Storing
<1>. QED BY <1>2, <1>3, <1>4, <1>5, <1>6 DEF CreateStep

LEMMA SecretsStay ==
  ASSUME TypeOK, SecretsKept, [Next]_vars
  PROVE  SecretsKept'
<1>1. CASE Connect BY <1>1, CreatesKeepSecrets DEF Connect
<1>2. CASE Resolve BY <1>2, ResolveTyped, KeptByQuietStep
<1>3. CASE Disconnect
  <2>1. PICK k \in Keys : Revoke(k) BY <1>3 DEF Disconnect
  <2>2. UNCHANGED <<create, request, failures>> BY <1>3 DEF Disconnect
  <2>3. \A l \in Keys : connections'[l].secret = connections[l].secret
    BY <2>1, <2>2, RevokeTyped
  <2>4. secrets' = secrets BY <2>1 DEF Revoke
  <2>. QED BY <2>2, <2>3, <2>4, KeptByQuietStep
<1>4. CASE UNCHANGED vars BY <1>4, KeptByQuietStep DEF vars
<1>. QED BY <1>1, <1>2, <1>3, <1>4 DEF Next

(* A create that heard what became of its write puts no row at risk: it    *)
(* takes back only what no row names, or what was at risk already.         *)
LEMMA HeardCreatesAreSafe ==
  ASSUME TypeOK, CredentialInv, NEW c \in Creates,
         CreateStep(c) \/ CreateFails(c) \/ CreateDies(c)
  PROVE  AtRisk' \subseteq AtRisk
<1>1. \A d \in Creates \ {c} : create'[d] = create[d] BY CreatesProgress DEF KeepsCreates
<1>2. \A k \in Keys : connections[k] \in Row BY DEF TypeOK
<1>3. ASSUME UNCHANGED connections, create[c].pc \in Early \/ create'[c].pc = "done"
      PROVE  AtRisk' \subseteq AtRisk
  <2>. SUFFICES ASSUME NEW k \in Keys, LosesCredential(k)' PROVE LosesCredential(k)
    BY DEF AtRisk
  <2>1. connections[k].secret = c => create'[c].pc = "done"
    BY <1>3 DEF CredentialInv
  <2>. QED BY <2>1, <1>1, <1>2, <1>3 DEF LosesCredential, Row
<1>4. CASE UndoSecret(c)
  <2>. SUFFICES ASSUME NEW k \in Keys, LosesCredential(k)' PROVE LosesCredential(k)
    BY DEF AtRisk
  <2>1. create[c].pc = "undo" /\ create'[c].pc = "done"
    BY <1>4, CreateToTyped DEF UndoSecret, CreateAt
  <2>2. connections' = [l \in Keys |-> IF connections[l].secret = c
                                       THEN [connections[l] EXCEPT !.secret = NoSecret]
                                       ELSE connections[l]]
    BY <1>4 DEF UndoSecret, DeleteSecret
  <2>3. CASE connections[k].secret = c
    BY <2>1, <2>2, <2>3, <1>2 DEF LosesCredential, Row
  <2>4. CASE connections[k].secret # c
    BY <2>2, <2>4, <1>1, <1>2 DEF LosesCredential, Row
  <2>. QED BY <2>3, <2>4
<1>5. CASE WriteConnection(c) /\ ~Refused(c)
  <2>. SUFFICES ASSUME NEW k \in Keys, LosesCredential(k)' PROVE LosesCredential(k)
    BY DEF AtRisk
  <2>1. Written(c) /\ create[c].pc = "write" /\ CreateTo(c, "done")
    BY <1>5 DEF WriteConnection, CreateAt
  <2>2. create'[c].pc = "done" BY <2>1, CreateToTyped
  <2>3. /\ connections'[create[c].key].secret = c
        /\ \A l \in Keys \ {create[c].key} : connections'[l] = connections[l]
    BY <2>1, WrittenTyped
  <2>4. k # create[c].key
    BY <2>2, <2>3, ConnectionsAssumption DEF LosesCredential
  <2>5. connections[k].secret # c BY <2>1 DEF CredentialInv, Early
  <2>. QED BY <2>3, <2>4, <2>5, <1>1, <1>2 DEF LosesCredential, Row
<1>6. CASE WriteConnection(c) /\ Refused(c)
  <2>1. UNCHANGED connections /\ create[c].pc \in Early
    BY <1>6 DEF WriteConnection, CreateAt, Early
  <2>. QED BY <2>1, <1>3
<1>7. CASE CreateStep(c) /\ ~WriteConnection(c) /\ ~UndoSecret(c)
  <2>1. create[c].pc \in Early /\ UNCHANGED connections
    BY <1>7 DEF CreateStep, PasteKey, ConsumeApproval, StoreSecret, FindDefinition,
       InsertDefinition, FindRevoked, CreateAt, Early, tables
  <2>. QED BY <2>1, <1>3
<1>8. CASE CreateFails(c)
  <2>1. UNCHANGED connections BY <1>8 DEF CreateFails, tables
  <2>2. CASE create[c].pc \in {"find", "write"} BY <2>1, <2>2, <1>3 DEF Early
  <2>3. CASE create[c].pc \notin {"find", "write"}
    <3>1. CreateTo(c, "done") BY <1>8, <2>3 DEF CreateFails
    <3>2. create'[c].pc = "done" BY <3>1, CreateToTyped
    <3>. QED BY <2>1, <3>2, <1>3
  <2>. QED BY <2>2, <2>3
<1>9. CASE CreateDies(c)
  <2>1. CreateTo(c, "done") /\ UNCHANGED connections BY <1>9 DEF CreateDies, tables
  <2>2. create'[c].pc = "done" BY <2>1, CreateToTyped
  <2>. QED BY <2>1, <2>2, <1>3
<1>. QED BY <1>4, <1>5, <1>6, <1>7, <1>8, <1>9

(* One whose answer is lost puts the row it wrote at risk. *)
LEMMA UnansweredRisksOne ==
  ASSUME TypeOK, CredentialInv, NEW c \in Creates, WriteUnanswered(c)
  PROVE  AtRisk' \subseteq AtRisk \cup {create[c].key}
<1>. SUFFICES ASSUME NEW k \in Keys, k # create[c].key, LosesCredential(k)'
              PROVE  LosesCredential(k)
  BY DEF AtRisk
<1>1. \A d \in Creates \ {c} : create'[d] = create[d] BY CreatesProgress DEF KeepsCreates
<1>2. Written(c) /\ create[c].pc = "write" BY DEF WriteUnanswered, CreateAt
<1>3. connections'[k] = connections[k] BY <1>2, WrittenTyped
<1>4. connections[k].secret # c BY <1>2 DEF CredentialInv, Early
<1>5. connections[k] \in Row BY DEF TypeOK
<1>. QED BY <1>1, <1>3, <1>4, <1>5 DEF LosesCredential, Row

LEMMA RiskStays ==
  ASSUME TypeOK, CredentialInv, RiskBounded, [Next]_vars
  PROVE  RiskBounded'
<1>. failures \in Nat BY DEF TypeOK
<1>1. Cardinality(AtRisk) \in Nat BY FS_CardinalityType DEF RiskBounded
<1>2. ASSUME AtRisk' \subseteq AtRisk, failures' = failures \/ failures' = failures + 1
      PROVE  RiskBounded'
  <2>1. IsFiniteSet(AtRisk') /\ Cardinality(AtRisk') <= Cardinality(AtRisk)
    BY <1>2, FS_Subset DEF RiskBounded
  <2>2. Cardinality(AtRisk') \in Nat BY <2>1, FS_CardinalityType
  <2>. QED BY <1>1, <1>2, <2>1, <2>2 DEF RiskBounded
<1>3. CASE Connect
  <2>1. CASE \E c \in Creates : CreateStep(c) /\ UNCHANGED failures
    BY <2>1, <1>2, HeardCreatesAreSafe
  <2>2. CASE \E c \in Creates : (CreateFails(c) \/ CreateDies(c)) /\ Failing
    BY <2>2, <1>2, HeardCreatesAreSafe DEF Failing
  <2>3. CASE \E c \in Creates : WriteUnanswered(c) /\ Failing
    <3>1. PICK c \in Creates : WriteUnanswered(c) /\ Failing BY <2>3
    <3>. DEFINE Risked == AtRisk \cup {create[c].key}
    <3>2. AtRisk' \subseteq Risked BY <3>1, UnansweredRisksOne
    <3>3. IsFiniteSet(Risked) /\ Cardinality(Risked) <= Cardinality(AtRisk) + 1
      BY <1>1, FS_AddElement DEF RiskBounded
    <3>. HIDE DEF Risked
    <3>4. IsFiniteSet(AtRisk') /\ Cardinality(AtRisk') <= Cardinality(Risked)
      BY <3>2, <3>3, FS_Subset
    <3>5. Cardinality(AtRisk') \in Nat /\ Cardinality(Risked) \in Nat
      BY <3>3, <3>4, FS_CardinalityType
    <3>6. failures' = failures + 1 BY <3>1 DEF Failing
    <3>. QED BY <1>1, <3>3, <3>4, <3>5, <3>6 DEF RiskBounded
  <2>. QED BY <1>3, <2>1, <2>2, <2>3 DEF Connect
<1>4. CASE Resolve
  <2>1. AtRisk' \subseteq AtRisk BY <1>4, ResolveTyped DEF AtRisk, LosesCredential
  <2>. QED BY <1>4, <2>1, <1>2 DEF Resolve
<1>5. CASE Disconnect
  <2>1. PICK k \in Keys : Revoke(k) BY <1>5 DEF Disconnect
  <2>2. UNCHANGED <<create, request, failures>> BY <1>5 DEF Disconnect
  <2>3. connections'[k].revoked /\ \A l \in Keys \ {k} : connections'[l] = connections[l]
    BY <2>1, <2>2, RevokeTyped
  <2>4. AtRisk' \subseteq AtRisk BY <2>2, <2>3 DEF AtRisk, LosesCredential
  <2>. QED BY <2>2, <2>4, <1>2
<1>6. CASE UNCHANGED vars
  BY <1>6, <1>2 DEF vars, AtRisk, LosesCredential
<1>. QED BY <1>3, <1>4, <1>5, <1>6 DEF Next

(* A live connection has the credential it names, but for one each time    *)
(* something fails: what a create takes back is named by no row, unless    *)
(* its write was made and not answered (connections.ts 291-317).           *)
THEOREM LiveHasCredential == Spec => []LiveConnectionHasCredential
<1>. DEFINE Good == CredentialInv /\ SecretsKept /\ RiskBounded
<1>1. Init => Good
  <2>. SUFFICES ASSUME Init PROVE Good OBVIOUS
  <2>1. \A k \in Keys : ~connections[k].exists /\ connections[k].secret = NoSecret BY DEF Init
  <2>2. withdrawn = {} /\ failures = 0 BY DEF Init
  <2>3. \A c \in Creates : create[c].pc = "idle" BY DEF Init, IdleCreate
  <2>4. AtRisk = {} BY <2>1 DEF AtRisk, LosesCredential
  <2>5. CredentialInv BY <2>1, <2>2, ConnectionsAssumption DEF CredentialInv
  <2>6. SecretsKept BY <2>1, <2>3 DEF SecretsKept, Storing
  <2>7. RiskBounded BY <2>2, <2>4, FS_EmptySet DEF RiskBounded
  <2>. QED BY <2>5, <2>6, <2>7
<1>2. TypeOK /\ Good /\ [Next]_vars => Good' BY CredentialsStay, SecretsStay, RiskStays
<1>3. TypeOK /\ Good => LiveConnectionHasCredential
  <2>. SUFFICES ASSUME TypeOK, Good PROVE LiveConnectionHasCredential OBVIOUS
  <2>. DEFINE Broken == {k \in Keys : /\ connections[k].exists /\ ~connections[k].revoked
                                      /\ connections[k].secret \notin secrets}
  <2>1. Broken \subseteq AtRisk BY DEF SecretsKept, AtRisk, LosesCredential
  <2>2. IsFiniteSet(Broken) /\ Cardinality(Broken) <= Cardinality(AtRisk)
    BY <2>1, FS_Subset DEF RiskBounded
  <2>3. Cardinality(Broken) \in Nat /\ Cardinality(AtRisk) \in Nat /\ failures \in Nat
    BY <2>2, FS_CardinalityType DEF RiskBounded, TypeOK
  <2>. HIDE DEF Broken
  <2>4. Cardinality(Broken) <= failures BY <2>2, <2>3 DEF RiskBounded
  <2>. QED BY <2>4 DEF LiveConnectionHasCredential, Broken
<1>. QED BY <1>1, <1>2, <1>3, ConnectionsTypeOK, PTL DEF Spec
=============================================================================
