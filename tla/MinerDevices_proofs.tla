------------------------- MODULE MinerDevices_proofs ---------------------------
(***************************************************************************)
(* For any users, machines, pairing attempts and numbers of concurrent     *)
(* calls: a pairing or rotation token is handed out at most once, reaches  *)
(* the user who approved, is not lost unless something fails, and takes    *)
(* the place of what a machine holds only once it is there itself.  A      *)
(* token is in one place at a time (Inv: with the approval or rotation     *)
(* that minted it, on the request where it is parked, or with the          *)
(* machine), is its user's wherever it goes (OwnInv), and the places it    *)
(* comes by are of one machine (ThereInv).                                 *)
(***************************************************************************)
EXTENDS MinerDevices, FiniteSetTheorems, TLAPS

(* The approvals that have a token they have not parked, the ones among    *)
(* them that took the request, and the rotations that have one.            *)
Claimed == {"find", "point", "insert", "bind", "park"}
Carries(a) == approval[a].pc \in Claimed \cup {"claim", "abandon"}
Renewing(r) == rotation[r].pc \in {"retire", "read", "bind", "point", "respond"}

InApproval ==
  \A a \in Approvals : Carries(a) =>
    /\ approval[a].token \in Tokens
    /\ Minted(approval[a].token)
    /\ handed[approval[a].token] = 0
    /\ \A q \in Requests : requests[q].parked # approval[a].token
    /\ \A r \in Rotations : Renewing(r) => rotation[r].new # approval[a].token
    /\ \A b \in Approvals : Carries(b) /\ approval[b].token = approval[a].token
         => b = a

(* A rotation replaces a credential that exists.                           *)
ReplacesMinted ==
  \A r \in Rotations : rotation[r].pc # "idle" =>
    rotation[r].old \in Tokens /\ Minted(rotation[r].old)

(* The machines hold credentials that exist, and only they are handed out. *)
HeldMinted ==
  /\ \A m \in Machines : held[m] # NoToken => Minted(held[m])
  /\ \A t \in Tokens : ~Minted(t) => handed[t] = 0

InRotation ==
  \A r \in Rotations : Renewing(r) =>
    /\ rotation[r].new \in Tokens
    /\ Minted(rotation[r].new)
    /\ handed[rotation[r].new] = 0
    /\ \A q \in Requests : requests[q].parked # rotation[r].new
    /\ \A s \in Rotations : Renewing(s) /\ rotation[s].new = rotation[r].new
         => s = r

OnRequest ==
  \A q \in Requests : requests[q].parked # NoToken =>
    /\ Minted(requests[q].parked)
    /\ handed[requests[q].parked] = 0
    /\ ~requests[q].collected
    /\ \A p \in Requests : requests[p].parked = requests[q].parked => p = q

(* The one approval that took a request has it to itself until it parks.   *)
ClaimedAlone ==
  /\ \A a \in Approvals : approval[a].pc \in Claimed =>
       /\ requests[approval[a].request].approver # NoUser
       /\ requests[approval[a].request].parked = NoToken
       /\ ~requests[approval[a].request].collected
       /\ \A p \in Polls :
            poll[p].pc = "claim" => poll[p].request # approval[a].request
       /\ \A b \in Approvals :
            approval[b].pc \in Claimed /\ approval[b].request = approval[a].request
              => b = a
  /\ \A q \in Requests : requests[q].approver = NoUser =>
       /\ requests[q].parked = NoToken
       /\ ~requests[q].collected
       /\ \A p \in Polls : poll[p].pc = "claim" => poll[p].request # q

(* What a poll read is what the request still has, until it is collected.  *)
PollsCurrent ==
  \A p \in Polls : poll[p].pc # "idle" =>
    /\ poll[p].token \in Tokens
    /\ Minted(poll[p].token)
    /\ poll[p].pc = "claim" =>
         \/ requests[poll[p].request].collected
         \/ requests[poll[p].request].parked = poll[p].token

Inv ==
  /\ TypeOK
  /\ HandedOutOnce
  /\ HeldMinted
  /\ ReplacesMinted
  /\ InApproval
  /\ InRotation
  /\ OnRequest
  /\ ClaimedAlone
  /\ PollsCurrent

-----------------------------------------------------------------------------
(* Types.                                                                  *)

LEMMA IdleTypes == IdleApproval \in Approval /\ IdlePoll \in Poll /\ IdleRotation \in Rotation
  BY DeviceAssumption DEF IdleApproval, Approval, ApprovalPc, IdlePoll, Poll,
     IdleRotation, Rotation

LEMMA InitType == Init => TypeOK
<1> SUFFICES ASSUME Init PROVE TypeOK
  OBVIOUS
<1>1. TablesTypeOK
  BY DeviceAssumption DEF Init, TablesInit, TablesTypeOK, RequestRow,
     DeviceRow, CredentialRow
<1>2. PairingTypeOK
  BY IdleTypes, PairingAssumption DEF Init, PairingInit, PairingTypeOK
<1>3. CredentialsTypeOK
  BY IdleTypes DEF Init, CredentialsInit, CredentialsTypeOK, Revocation
<1>4. withdrew \subseteq Users
  BY DEF Init
<1> QED BY <1>1, <1>2, <1>3, <1>4 DEF TypeOK

(* The types of the tables and of the calls' local states.                 *)
RowsTyped == TablesTypeOK /\ PairingTypeOK /\ CredentialsTypeOK

LEMMA RowsStep == TypeOK /\ ReplacesMinted /\ [Next]_vars => RowsTyped'
<1> SUFFICES ASSUME TypeOK, ReplacesMinted, [Next]_vars PROVE RowsTyped'
  OBVIOUS
<1> USE DEF tables
<1>0. /\ requests \in [Requests -> RequestRow]
      /\ devices \in [Devices -> DeviceRow]
      /\ credentials \in [Tokens -> CredentialRow]
      /\ held \in [Machines -> Tokens \cup {NoToken}]
      /\ handed \in [Tokens -> Nat]
      /\ approval \in [Approvals -> Approval]
      /\ poll \in [Polls -> Poll]
      /\ failures \in 0 .. MaxFailures
      /\ rotation \in [Rotations -> Rotation]
      /\ revocation \in [Revocations -> Revocation]
  BY DEF TypeOK, TablesTypeOK, PairingTypeOK, CredentialsTypeOK
<1>a. \A a \in Approvals :
        /\ approval[a].request \in Requests /\ approval[a].user \in Users
        /\ approval[a].token \in Tokens \cup {NoToken}
        /\ approval[a].device \in Devices \cup {NoDevice}
  BY <1>0 DEF Approval
<1>b. \A p \in Polls : poll[p].request \in Requests
                         /\ poll[p].token \in Tokens \cup {NoToken}
  BY <1>0 DEF Poll
<1>c. \A r \in Rotations :
        /\ rotation[r].machine \in Machines
        /\ rotation[r].new \in Tokens \cup {NoToken}
        /\ rotation[r].device \in Devices \cup {NoDevice}
  BY <1>0 DEF Rotation
<1>d. \A d \in Devices : devices[d].credential \in Tokens \cup {NoToken}
  BY <1>0 DEF DeviceRow
<1>e. ASSUME NEW d \in Devices, NEW t \in Tokens \cup {NoToken}
      PROVE  [devices[d] EXCEPT !.credential = t] \in DeviceRow
  <2>1. devices[d] \in DeviceRow
    BY <1>0
  <2> QED BY <2>1 DEF DeviceRow
<1>1. ASSUME NEW q \in Requests, StartPairing(q),
          UNCHANGED <<held, poll, handed, rotation, revocation, failures>>
     PROVE  RowsTyped'
  <2>1. (requests \in [Requests -> RequestRow])'
    BY ZenonT(60), <1>0, <1>1 DEF StartPairing, RequestRow
  <2> QED
    BY <1>0, <1>1, <2>1 DEF StartPairing, RowsTyped, TablesTypeOK,
       PairingTypeOK, CredentialsTypeOK
<1>2. ASSUME NEW q \in Requests, ExpireRequest(q),
          UNCHANGED <<held, poll, handed, rotation, revocation, failures>>
     PROVE  RowsTyped'
  <2>1. (requests \in [Requests -> RequestRow])'
    BY ZenonT(60), <1>0, <1>2 DEF ExpireRequest, RequestRow, Approvable
  <2> QED
    BY <1>0, <1>2, <2>1 DEF ExpireRequest, RowsTyped, TablesTypeOK,
       PairingTypeOK, CredentialsTypeOK
<1>3. ASSUME NEW q \in Requests, Deny(q),
          UNCHANGED <<held, poll, handed, rotation, revocation, failures>>
     PROVE  RowsTyped'
  <2>1. (requests \in [Requests -> RequestRow])'
    BY ZenonT(60), <1>0, <1>3 DEF Deny, RequestRow
  <2> QED
    BY <1>0, <1>3, <2>1 DEF Deny, RowsTyped, TablesTypeOK,
       PairingTypeOK, CredentialsTypeOK
<1>4. ASSUME NEW a \in Approvals, LookUp(a),
          UNCHANGED <<held, poll, handed, rotation, revocation>>, UNCHANGED failures
     PROVE  RowsTyped'
  <2>0. PICK q \in Requests, u \in Users :
           approval' = [approval EXCEPT ![a] =
              [IdleApproval EXCEPT !.pc = "mint", !.request = q, !.user = u]]
    BY <1>4 DEF LookUp
  <2>1. (approval \in [Approvals -> Approval])'
    BY <1>0, <1>4, <2>0, IdleTypes DEF Approval, ApprovalPc
  <2> QED
    BY <1>0, <1>4, <2>1 DEF LookUp, RowsTyped, TablesTypeOK,
       PairingTypeOK, CredentialsTypeOK
<1>5. ASSUME NEW a \in Approvals, MintCredential(a),
          UNCHANGED <<held, poll, handed, rotation, revocation>>, UNCHANGED failures
     PROVE  RowsTyped'
  <2>0. PICK t \in Tokens :
           /\ credentials' = [credentials EXCEPT ![t].user = approval[a].user]
           /\ approval' = [approval EXCEPT ![a].pc = "claim", ![a].token = t]
    BY <1>5 DEF MintCredential, Mint
  <2>1. (credentials \in [Tokens -> CredentialRow])'
    BY SMTT(30), <1>0, <1>5, <2>0, <1>a DEF CredentialRow
  <2>2. (approval \in [Approvals -> Approval])'
    BY ZenonT(60), <1>0, <1>5, <2>0, IdleTypes DEF Approval, ApprovalPc
  <2> QED
    BY <1>0, <1>5, <2>1, <2>2 DEF MintCredential, RowsTyped, TablesTypeOK,
       PairingTypeOK, CredentialsTypeOK
<1>6. ASSUME NEW a \in Approvals, ClaimRequest(a),
          UNCHANGED <<held, poll, handed, rotation, revocation>>, UNCHANGED failures
     PROVE  RowsTyped'
  <2>1. (requests \in [Requests -> RequestRow])'
    BY SMTT(30), <1>0, <1>6, <1>a DEF ClaimRequest, RequestRow
  <2>2. (approval \in [Approvals -> Approval])'
    <3>1. PICK pc \in {"find", "insert", "abandon"} :
             approval' = [approval EXCEPT ![a].pc = pc]
      BY <1>6 DEF ClaimRequest, ApprovalTo
    <3> QED BY <1>0, <3>1 DEF Approval, ApprovalPc
  <2> QED
    BY <1>0, <1>6, <2>1, <2>2 DEF ClaimRequest, RowsTyped, TablesTypeOK,
       PairingTypeOK, CredentialsTypeOK
<1>7. ASSUME NEW a \in Approvals, FindDevice(a),
          UNCHANGED <<held, poll, handed, rotation, revocation>>, UNCHANGED failures
     PROVE  RowsTyped'
  <2>1. (approval \in [Approvals -> Approval])'
    <3>1. \/ approval' = [approval EXCEPT ![a].pc = "insert"]
          \/ \E d \in Devices : approval' = [approval EXCEPT
                ![a].pc = "point", ![a].device = d,
                ![a].replaced = devices[d].credential]
      BY <1>7 DEF FindDevice, ApprovalTo
    <3>2. CASE approval' = [approval EXCEPT ![a].pc = "insert"]
      BY <1>0, <3>2 DEF Approval, ApprovalPc
    <3>3. ASSUME NEW d \in Devices, approval' = [approval EXCEPT
                ![a].pc = "point", ![a].device = d,
                ![a].replaced = devices[d].credential]
          PROVE  (approval \in [Approvals -> Approval])'
      <4>1. approval[a] \in Approval /\ devices[d].credential \in Tokens \cup {NoToken}
        BY <1>0, <1>d
      <4>2. [approval[a] EXCEPT !.pc = "point", !.device = d,
               !.replaced = devices[d].credential] \in Approval
        BY <4>1 DEF Approval, ApprovalPc
      <4>3. approval' = [approval EXCEPT ![a] =
              [approval[a] EXCEPT !.pc = "point", !.device = d,
                                  !.replaced = devices[d].credential]]
        BY <1>0, <3>3
      <4> QED BY <1>0, <4>2, <4>3
    <3> QED BY <3>1, <3>2, <3>3
  <2> QED
    BY <1>0, <1>7, <2>1 DEF FindDevice, RowsTyped, TablesTypeOK,
       PairingTypeOK, CredentialsTypeOK
<1>8. ASSUME NEW a \in Approvals, PointDevice(a),
          UNCHANGED <<held, poll, handed, rotation, revocation>>, UNCHANGED failures
     PROVE  RowsTyped'
  <2>1. (devices \in [Devices -> DeviceRow])'
    <3>1. devices' = [devices EXCEPT
            ![approval[a].device].credential = approval[a].token]
      BY <1>8 DEF PointDevice
    <3>2. approval[a].token \in Tokens \cup {NoToken}
      BY <1>a
    <3> QED BY <1>0, <1>e, <3>1, <3>2
  <2>2. (approval \in [Approvals -> Approval])'
    BY SMTT(30), <1>0, <1>8, IdleTypes
       DEF PointDevice, Approval, ApprovalPc, ApprovalAt, ApprovalTo,
           ApprovalEnds
  <2> QED
    BY <1>0, <1>8, <2>1, <2>2 DEF PointDevice, RowsTyped, TablesTypeOK,
       PairingTypeOK, CredentialsTypeOK
<1>9. ASSUME NEW a \in Approvals, InsertDevice(a),
          UNCHANGED <<held, poll, handed, rotation, revocation>>, UNCHANGED failures
     PROVE  RowsTyped'
  <2>1. (devices \in [Devices -> DeviceRow])'
    <3>1. \/ devices' = devices
          \/ \E d \in Devices : devices' = [devices EXCEPT ![d] =
                [exists |-> TRUE, user |-> approval[a].user,
                 identified |-> approval[a].request \in Identified,
                 machine |-> MachineOf[approval[a].request],
                 credential |-> approval[a].token, revoked |-> FALSE]]
      BY <1>9 DEF InsertDevice
    <3>2. MachineOf[approval[a].request] \in Machines
      BY <1>a, DeviceAssumption
    <3>3. CASE devices' = devices
      BY <1>0, <3>3
    <3>4. ASSUME NEW d \in Devices, devices' = [devices EXCEPT ![d] =
                [exists |-> TRUE, user |-> approval[a].user,
                 identified |-> approval[a].request \in Identified,
                 machine |-> MachineOf[approval[a].request],
                 credential |-> approval[a].token, revoked |-> FALSE]]
          PROVE  (devices \in [Devices -> DeviceRow])'
      <4>1. [exists |-> TRUE, user |-> approval[a].user,
             identified |-> approval[a].request \in Identified,
             machine |-> MachineOf[approval[a].request],
             credential |-> approval[a].token, revoked |-> FALSE] \in DeviceRow
        BY <1>a, <3>2 DEF DeviceRow
      <4> QED BY <1>0, <3>4, <4>1
    <3> QED BY <3>1, <3>3, <3>4
  <2>2. (approval \in [Approvals -> Approval])'
    BY <1>0, <1>9, IdleTypes
       DEF InsertDevice, Approval, ApprovalPc, ApprovalAt, ApprovalTo,
           ApprovalEnds
  <2> QED
    BY <1>0, <1>9, <2>1, <2>2 DEF InsertDevice, RowsTyped, TablesTypeOK,
       PairingTypeOK, CredentialsTypeOK
<1>10. ASSUME NEW a \in Approvals, BindCredential(a),
          UNCHANGED <<held, poll, handed, rotation, revocation>>, UNCHANGED failures
     PROVE  RowsTyped'
  <2>1. (credentials \in [Tokens -> CredentialRow])'
    BY ZenonT(60), <1>0, <1>10, <1>a DEF BindCredential, CredentialRow, Mint, Revoke
  <2>2. (approval \in [Approvals -> Approval])'
    BY <1>0, <1>10, IdleTypes
       DEF BindCredential, Approval, ApprovalPc, ApprovalAt, ApprovalTo,
           ApprovalEnds
  <2> QED
    BY <1>0, <1>10, <2>1, <2>2 DEF BindCredential, RowsTyped, TablesTypeOK,
       PairingTypeOK, CredentialsTypeOK
<1>11. ASSUME NEW a \in Approvals, ParkToken(a),
          UNCHANGED <<held, poll, handed, rotation, revocation>>, UNCHANGED failures
     PROVE  RowsTyped'
  <2>1. (requests \in [Requests -> RequestRow])'
    BY SMTT(30), <1>0, <1>11, <1>a DEF ParkToken, RequestRow
  <2>2. (approval \in [Approvals -> Approval])'
    BY SMTT(30), <1>0, <1>11, IdleTypes
       DEF ParkToken, Approval, ApprovalPc, ApprovalAt, ApprovalTo,
           ApprovalEnds
  <2> QED
    BY <1>0, <1>11, <2>1, <2>2 DEF ParkToken, RowsTyped, TablesTypeOK,
       PairingTypeOK, CredentialsTypeOK
<1>12. ASSUME NEW a \in Approvals, RetireReplaced(a),
          UNCHANGED <<held, poll, handed, rotation, revocation>>, UNCHANGED failures
     PROVE  RowsTyped'
  <2>1. (credentials \in [Tokens -> CredentialRow])'
    BY <1>0, <1>12 DEF RetireReplaced, CredentialRow, Mint, Revoke
  <2>2. (approval \in [Approvals -> Approval])'
    BY <1>0, <1>12, IdleTypes
       DEF RetireReplaced, Approval, ApprovalPc, ApprovalAt, ApprovalTo,
           ApprovalEnds
  <2> QED
    BY <1>0, <1>12, <2>1, <2>2 DEF RetireReplaced, RowsTyped, TablesTypeOK,
       PairingTypeOK, CredentialsTypeOK
<1>13. ASSUME NEW a \in Approvals, Abandon(a),
          UNCHANGED <<held, poll, handed, rotation, revocation>>, UNCHANGED failures
     PROVE  RowsTyped'
  <2>1. (credentials \in [Tokens -> CredentialRow])'
    BY <1>0, <1>13 DEF Abandon, CredentialRow, Mint, Revoke
  <2>2. (approval \in [Approvals -> Approval])'
    BY <1>0, <1>13, IdleTypes
       DEF Abandon, Approval, ApprovalPc, ApprovalAt, ApprovalTo, ApprovalEnds
  <2> QED
    BY <1>0, <1>13, <2>1, <2>2 DEF Abandon, RowsTyped, TablesTypeOK,
       PairingTypeOK, CredentialsTypeOK
<1>14. ASSUME NEW a \in Approvals, ApprovalFails(a),
          UNCHANGED <<held, poll, handed, rotation, revocation>>, Failing
     PROVE  RowsTyped'
  <2>1. (approval \in [Approvals -> Approval])'
    BY <1>0, <1>14, IdleTypes
       DEF ApprovalFails, Approval, ApprovalPc, ApprovalAt, ApprovalTo,
           ApprovalEnds
  <2>2. (failures \in 0 .. MaxFailures)'
    BY <1>0, <1>14, PairingAssumption DEF ApprovalFails, Failing
  <2> QED
    BY <1>0, <1>14, <2>1, <2>2 DEF ApprovalFails, RowsTyped, TablesTypeOK,
       PairingTypeOK, CredentialsTypeOK
<1>15. ASSUME NEW a \in Approvals, ApprovalDies(a),
          UNCHANGED <<held, poll, handed, rotation, revocation>>, Failing
     PROVE  RowsTyped'
  <2>1. (approval \in [Approvals -> Approval])'
    BY <1>0, <1>15, IdleTypes
       DEF ApprovalDies, Approval, ApprovalPc, ApprovalAt, ApprovalTo,
           ApprovalEnds
  <2>2. (failures \in 0 .. MaxFailures)'
    BY <1>0, <1>15, PairingAssumption DEF ApprovalDies, Failing
  <2> QED
    BY <1>0, <1>15, <2>1, <2>2 DEF ApprovalDies, RowsTyped, TablesTypeOK,
       PairingTypeOK, CredentialsTypeOK
<1>16. ASSUME NEW p \in Polls, ReadRequest(p),
          UNCHANGED <<devices, credentials, approval, rotation, revocation>>, UNCHANGED <<held, failures>>
     PROVE  RowsTyped'
  <2>1. (poll \in [Polls -> Poll])'
    BY <1>0, <1>16, IdleTypes DEF ReadRequest, Poll, RequestRow, Approvable
  <2> QED
    BY <1>0, <1>16, <2>1 DEF ReadRequest, RowsTyped, TablesTypeOK,
       PairingTypeOK, CredentialsTypeOK
<1>17. ASSUME NEW p \in Polls, Collect(p),
          UNCHANGED <<devices, credentials, approval, rotation, revocation>>, UNCHANGED <<held, failures>>
     PROVE  RowsTyped'
  <2>1. (requests \in [Requests -> RequestRow])'
    <3>1. \/ requests' = requests
          \/ requests' = [requests EXCEPT ![poll[p].request].collected = TRUE,
                                         ![poll[p].request].parked = NoToken]
      BY <1>17 DEF Collect
    <3>2. CASE requests' = requests
      BY <1>0, <3>2
    <3>3. CASE requests' = [requests EXCEPT ![poll[p].request].collected = TRUE,
                                           ![poll[p].request].parked = NoToken]
      <4>1. requests[poll[p].request] \in RequestRow
        BY <1>0, <1>b
      <4>2. [requests[poll[p].request] EXCEPT !.collected = TRUE, !.parked = NoToken]
              \in RequestRow
        BY <4>1 DEF RequestRow
      <4>3. requests' = [requests EXCEPT ![poll[p].request] =
              [requests[poll[p].request] EXCEPT !.collected = TRUE,
                                                !.parked = NoToken]]
        BY <1>0, <1>b, <3>3
      <4> QED BY <1>0, <4>2, <4>3
    <3> QED BY <3>1, <3>2, <3>3
  <2>2. (poll \in [Polls -> Poll])'
    BY <1>0, <1>17, IdleTypes DEF Collect, Poll
  <2>3. (handed \in [Tokens -> Nat])'
    BY <1>0, <1>17, <1>b DEF Collect, HandOut
  <2> QED
    BY <1>0, <1>17, <2>1, <2>2, <2>3 DEF Collect, RowsTyped, TablesTypeOK,
       PairingTypeOK, CredentialsTypeOK
<1>18. ASSUME NEW p \in Polls, Deliver(p),
          UNCHANGED <<devices, credentials, approval, rotation, revocation>>, UNCHANGED failures
     PROVE  RowsTyped'
  <2>1. (held \in [Machines -> Tokens \cup {NoToken}])'
    BY <1>0, <1>18, <1>b DEF Deliver
  <2>2. (poll \in [Polls -> Poll])'
    BY <1>0, <1>18, IdleTypes DEF Deliver, Poll
  <2> QED
    BY <1>0, <1>18, <2>1, <2>2 DEF Deliver, RowsTyped, TablesTypeOK,
       PairingTypeOK, CredentialsTypeOK
<1>19. ASSUME NEW p \in Polls, PollDies(p),
          UNCHANGED <<devices, credentials, approval, rotation, revocation>>, Failing, UNCHANGED held
     PROVE  RowsTyped'
  <2>1. (poll \in [Polls -> Poll])'
    BY <1>0, <1>19, IdleTypes DEF PollDies, Poll
  <2>2. (failures \in 0 .. MaxFailures)'
    BY <1>0, <1>19, PairingAssumption DEF PollDies, Failing
  <2> QED
    BY <1>0, <1>19, <2>1, <2>2 DEF PollDies, RowsTyped, TablesTypeOK,
       PairingTypeOK, CredentialsTypeOK
<1>20. ASSUME NEW r \in Rotations, Authenticate(r),
          UNCHANGED <<approval, poll, revocation>>, UNCHANGED failures
     PROVE  RowsTyped'
  <2>0. PICK m \in Machines :
           /\ held[m] # NoToken
           /\ rotation' = [rotation EXCEPT ![r] =
                [IdleRotation EXCEPT !.pc = "create", !.machine = m, !.old = held[m]]]
    BY <1>20 DEF Authenticate
  <2>1. (rotation \in [Rotations -> Rotation])'
    BY <1>0, <1>20, <2>0, IdleTypes DEF Rotation
  <2> QED
    BY <1>0, <1>20, <2>1 DEF Authenticate, RowsTyped, TablesTypeOK,
       PairingTypeOK, CredentialsTypeOK
<1>21. ASSUME NEW r \in Rotations, CreateReplacement(r),
          UNCHANGED <<approval, poll, revocation>>, UNCHANGED failures
     PROVE  RowsTyped'
  <2>0. PICK t \in Tokens :
           /\ credentials' = [credentials EXCEPT
                               ![t].user = credentials[rotation[r].old].user]
           /\ rotation' = [rotation EXCEPT ![r].pc = "retire", ![r].new = t]
    BY <1>21 DEF CreateReplacement, Mint
  <2>1. (credentials \in [Tokens -> CredentialRow])'
    <3>1. credentials[rotation[r].old].user \in Users \cup {NoUser}
      BY <1>0, <1>21 DEF CreateReplacement, RotationAt, ReplacesMinted,
         CredentialRow
    <3> QED BY <1>0, <2>0, <3>1 DEF CredentialRow
  <2>2. (rotation \in [Rotations -> Rotation])'
    BY ZenonT(60), <1>0, <1>21, <2>0, IdleTypes DEF Rotation
  <2> QED
    BY <1>0, <1>21, <2>1, <2>2 DEF CreateReplacement, RowsTyped, TablesTypeOK,
       PairingTypeOK, CredentialsTypeOK
<1>22. ASSUME NEW r \in Rotations, RetireOld(r),
          UNCHANGED <<approval, poll, revocation>>, UNCHANGED failures
     PROVE  RowsTyped'
  <2>1. (credentials \in [Tokens -> CredentialRow])'
    BY <1>0, <1>22 DEF RetireOld, CredentialRow, Mint, Revoke
  <2>2. (rotation \in [Rotations -> Rotation])'
    BY <1>0, <1>22, IdleTypes
       DEF RetireOld, Rotation, RotationAt, RotationTo, RotationEnds
  <2> QED
    BY <1>0, <1>22, <2>1, <2>2 DEF RetireOld, RowsTyped, TablesTypeOK,
       PairingTypeOK, CredentialsTypeOK
<1>23. ASSUME NEW r \in Rotations, ReadBinding(r),
          UNCHANGED <<approval, poll, revocation>>, UNCHANGED failures
     PROVE  RowsTyped'
  <2>1. (rotation \in [Rotations -> Rotation])'
    BY <1>0, <1>23, IdleTypes
       DEF ReadBinding, Rotation, RotationAt, RotationTo, RotationEnds,
           CredentialRow, ReplacesMinted, Minted
  <2> QED
    BY <1>0, <1>23, <2>1 DEF ReadBinding, RowsTyped, TablesTypeOK,
       PairingTypeOK, CredentialsTypeOK
<1>24. ASSUME NEW r \in Rotations, BindReplacement(r),
          UNCHANGED <<approval, poll, revocation>>, UNCHANGED failures
     PROVE  RowsTyped'
  <2>1. (credentials \in [Tokens -> CredentialRow])'
    BY ZenonT(60), <1>0, <1>24, <1>c DEF BindReplacement, CredentialRow, Mint, Revoke
  <2>2. (rotation \in [Rotations -> Rotation])'
    BY <1>0, <1>24, IdleTypes
       DEF BindReplacement, Rotation, RotationAt, RotationTo, RotationEnds
  <2> QED
    BY <1>0, <1>24, <2>1, <2>2 DEF BindReplacement, RowsTyped, TablesTypeOK,
       PairingTypeOK, CredentialsTypeOK
<1>25. ASSUME NEW r \in Rotations, RepointDevice(r),
          UNCHANGED <<approval, poll, revocation>>, UNCHANGED failures
     PROVE  RowsTyped'
  <2>1. (devices \in [Devices -> DeviceRow])'
    <3>1. devices' = [devices EXCEPT
            ![rotation[r].device].credential = rotation[r].new]
      BY <1>25 DEF RepointDevice
    <3>2. rotation[r].new \in Tokens \cup {NoToken}
      BY <1>c
    <3> QED BY <1>0, <1>e, <3>1, <3>2
  <2>2. (rotation \in [Rotations -> Rotation])'
    BY <1>0, <1>25, IdleTypes
       DEF RepointDevice, Rotation, RotationAt, RotationTo, RotationEnds
  <2> QED
    BY <1>0, <1>25, <2>1, <2>2 DEF RepointDevice, RowsTyped, TablesTypeOK,
       PairingTypeOK, CredentialsTypeOK
<1>26. ASSUME NEW r \in Rotations, SaveReplacement(r),
          UNCHANGED <<approval, poll, revocation>>, UNCHANGED failures
     PROVE  RowsTyped'
  <2>1. (handed \in [Tokens -> Nat])'
    <3>1. handed' = [handed EXCEPT ![rotation[r].new] =
                                   handed[rotation[r].new] + 1]
      BY <1>26 DEF SaveReplacement, HandOut
    <3>2. \A t \in Tokens : handed[t] + 1 \in Nat /\ handed[t] \in Nat
      BY <1>0
    <3> QED BY <1>0, <3>1, <3>2
  <2>2. (held \in [Machines -> Tokens \cup {NoToken}])'
    BY <1>0, <1>26, <1>c DEF SaveReplacement
  <2>3. (rotation \in [Rotations -> Rotation])'
    BY <1>0, <1>26, IdleTypes
       DEF SaveReplacement, Rotation, RotationAt, RotationTo, RotationEnds
  <2> QED
    BY <1>0, <1>26, <2>1, <2>2, <2>3 DEF SaveReplacement, RowsTyped, TablesTypeOK,
       PairingTypeOK, CredentialsTypeOK
<1>27. ASSUME NEW r \in Rotations, RotationFails(r),
          UNCHANGED <<approval, poll, revocation>>, Failing
     PROVE  RowsTyped'
  <2>1. (rotation \in [Rotations -> Rotation])'
    BY <1>0, <1>27, IdleTypes
       DEF RotationFails, Rotation, RotationAt, RotationTo, RotationEnds
  <2>2. (failures \in 0 .. MaxFailures)'
    BY <1>0, <1>27, PairingAssumption DEF RotationFails, Failing
  <2> QED
    BY <1>0, <1>27, <2>1, <2>2 DEF RotationFails, RowsTyped, TablesTypeOK,
       PairingTypeOK, CredentialsTypeOK
<1>28. ASSUME NEW r \in Rotations, RotationDies(r),
          UNCHANGED <<approval, poll, revocation>>, Failing
     PROVE  RowsTyped'
  <2>1. (rotation \in [Rotations -> Rotation])'
    BY <1>0, <1>28, IdleTypes
       DEF RotationDies, Rotation, RotationAt, RotationTo, RotationEnds
  <2>2. (failures \in 0 .. MaxFailures)'
    BY <1>0, <1>28, PairingAssumption DEF RotationDies, Failing
  <2> QED
    BY <1>0, <1>28, <2>1, <2>2 DEF RotationDies, RowsTyped, TablesTypeOK,
       PairingTypeOK, CredentialsTypeOK
<1>29. ASSUME NEW v \in Revocations, RevokeDevice(v),
          UNCHANGED <<approval, poll, rotation>>, UNCHANGED failures
     PROVE  RowsTyped'
  <2>0. PICK d \in Devices :
           /\ devices' = [devices EXCEPT ![d].revoked = TRUE]
           /\ revocation' = [revocation EXCEPT ![v] = devices[d].credential]
    BY <1>29 DEF RevokeDevice
  <2>1. (devices \in [Devices -> DeviceRow])'
    BY ZenonT(60), <1>0, <1>29, <2>0 DEF DeviceRow
  <2>2. (revocation \in [Revocations -> Revocation])'
    BY <1>0, <1>29, <2>0, <1>d DEF Revocation
  <2> QED
    BY <1>0, <1>29, <2>1, <2>2 DEF RevokeDevice, RowsTyped, TablesTypeOK,
       PairingTypeOK, CredentialsTypeOK
<1>30. ASSUME NEW v \in Revocations, RevokeDeviceCredential(v),
          UNCHANGED <<approval, poll, rotation>>, UNCHANGED failures
     PROVE  RowsTyped'
  <2>1. (credentials \in [Tokens -> CredentialRow])'
    BY <1>0, <1>30 DEF RevokeDeviceCredential, CredentialRow, Mint, Revoke
  <2>2. (revocation \in [Revocations -> Revocation])'
    BY <1>0, <1>30 DEF RevokeDeviceCredential, Revocation
  <2> QED
    BY <1>0, <1>30, <2>1, <2>2 DEF RevokeDeviceCredential, RowsTyped, TablesTypeOK,
       PairingTypeOK, CredentialsTypeOK
<1>31. ASSUME NEW v \in Revocations, RevokeCredential(v),
          UNCHANGED <<approval, poll, rotation>>, UNCHANGED failures
     PROVE  RowsTyped'
  <2>1. (credentials \in [Tokens -> CredentialRow])'
    BY ZenonT(60), <1>0, <1>31 DEF RevokeCredential, CredentialRow, Mint, Revoke
  <2> QED
    BY <1>0, <1>31, <2>1 DEF RevokeCredential, RowsTyped, TablesTypeOK,
       PairingTypeOK, CredentialsTypeOK
<1>32. ASSUME NEW v \in Revocations, RevocationFails(v),
          UNCHANGED <<approval, poll, rotation>>, Failing
     PROVE  RowsTyped'
  <2>1. (revocation \in [Revocations -> Revocation])'
    BY <1>0, <1>32 DEF RevocationFails, Revocation
  <2>2. (failures \in 0 .. MaxFailures)'
    BY <1>0, <1>32, PairingAssumption DEF RevocationFails, Failing
  <2> QED
    BY <1>0, <1>32, <2>1, <2>2 DEF RevocationFails, RowsTyped, TablesTypeOK,
       PairingTypeOK, CredentialsTypeOK
<1>33. CASE UNCHANGED vars
  BY <1>0, <1>33 DEF vars, RowsTyped, TablesTypeOK, PairingTypeOK, CredentialsTypeOK
<1> QED
  BY <1>1, <1>2, <1>3, <1>4, <1>5, <1>6, <1>7, <1>8, <1>9, <1>10, <1>11, <1>12,
     <1>13, <1>14, <1>15, <1>16, <1>17, <1>18, <1>19, <1>20, <1>21, <1>22, <1>23,
     <1>24, <1>25, <1>26, <1>27, <1>28, <1>29, <1>30, <1>31, <1>32, <1>33
     DEF Next, AskOrAnswer, Approve, ApprovalStep, CollectToken, Rotate,
         RotationStep, RevokeByUser, Failing

LEMMA TypeStep == TypeOK /\ ReplacesMinted /\ [Next]_vars => TypeOK'
<1> SUFFICES ASSUME TypeOK, ReplacesMinted, [Next]_vars PROVE TypeOK'
  OBVIOUS
<1>0. credentials \in [Tokens -> CredentialRow] /\ withdrew \subseteq Users
  BY DEF TypeOK, TablesTypeOK
<1>1. \A t \in Tokens : Minted(t) => credentials[t].user \in Users
  BY <1>0 DEF Minted, CredentialRow
<1>2. CASE UNCHANGED withdrew
  BY <1>0, <1>2, RowsStep DEF TypeOK, RowsTyped
<1>3. ASSUME NEW r \in Rotations, RotationFails(r) \/ RotationDies(r),
             withdrew' = withdrew \cup {credentials[rotation[r].old].user}
      PROVE  withdrew' \subseteq Users
  <2>1. rotation[r].pc # "idle"
    BY <1>3 DEF RotationFails, RotationDies, RotationAt
  <2>. QED  BY <1>0, <1>1, <1>3, <2>1 DEF ReplacesMinted
<1>4. ASSUME RevokeByUser PROVE withdrew' \subseteq Users
  BY <1>0, <1>1, <1>4 DEF RevokeByUser, Live
<1> QED
  BY <1>2, <1>3, <1>4, RowsStep DEF Next, AskOrAnswer, Approve, CollectToken, Rotate, vars,
     TypeOK, RowsTyped


-----------------------------------------------------------------------------
(* Steps that move no token.                                               *)

(* What the invariant sees is as it was, or calls have ended.              *)
Quiet ==
  /\ \A q \in Requests :
       /\ requests'[q].parked = requests[q].parked
       /\ requests'[q].collected = requests[q].collected
       /\ requests'[q].approver = requests[q].approver
  /\ \A t \in Tokens : Minted(t)' <=> Minted(t)
  /\ handed' = handed
  /\ \A m \in Machines : held'[m] # NoToken => Minted(held'[m])
  /\ \A a \in Approvals :
       /\ Carries(a)' => Carries(a) /\ approval'[a].token = approval[a].token
       /\ approval'[a].pc \in Claimed =>
            approval[a].pc \in Claimed /\ approval'[a].request = approval[a].request
  /\ \A r \in Rotations :
       /\ Renewing(r)' => Renewing(r) /\ rotation'[r].new = rotation[r].new
       /\ rotation'[r].pc # "idle" =>
            rotation'[r].old \in Tokens /\ Minted(rotation'[r].old)
  /\ \A p \in Polls :
       /\ poll'[p].pc # "idle" => poll[p].pc # "idle" /\ poll'[p] = poll[p]

LEMMA QuietStep == Inv /\ TypeOK' /\ Quiet => Inv'
<1> SUFFICES ASSUME Inv, TypeOK', Quiet PROVE Inv'
  OBVIOUS
<1>0. /\ \A r \in Rotations : rotation'[r] \in Rotation /\ rotation[r] \in Rotation
      /\ \A a \in Approvals : approval'[a] \in Approval /\ approval[a] \in Approval
      /\ \A m \in Machines : held'[m] \in Tokens \cup {NoToken}
      /\ \A q \in Requests : requests[q].parked \in Tokens \cup {NoToken}
      /\ \A p \in Polls : poll[p].request \in Requests
  BY
     DEF Poll, Inv, TypeOK, TablesTypeOK, PairingTypeOK, CredentialsTypeOK,
         RequestRow
<1>1. HandedOutOnce'
  BY DEF Inv, HandedOutOnce, Quiet
<1>2. HeldMinted'
  BY <1>0 DEF Inv, HeldMinted, Quiet
<1>3. ReplacesMinted'
  BY DEF Inv, ReplacesMinted, Quiet
<1>4. InApproval'
  BY DEF Inv, InApproval, Quiet
<1>5. InRotation'
  BY DEF Inv, InRotation, Quiet
<1>6. OnRequest'
  BY <1>0 DEF Inv, OnRequest, Quiet
<1>7. ClaimedAlone'
  BY <1>0 DEF Inv, ClaimedAlone, Quiet, Approval
<1>8. PollsCurrent'
  BY <1>0 DEF Inv, PollsCurrent, Quiet
<1> QED BY <1>1, <1>2, <1>3, <1>4, <1>5, <1>6, <1>7, <1>8 DEF Inv

(* The seven steps that do. *)
TokenStep ==
  \/ \E a \in Approvals :
       /\ MintCredential(a) \/ ClaimRequest(a) \/ ParkToken(a)
       /\ UNCHANGED failures
       /\ UNCHANGED <<held, poll, handed, rotation, revocation>>
  \/ \E p \in Polls :
       /\ ReadRequest(p) \/ Collect(p)
       /\ UNCHANGED <<held, failures>>
       /\ UNCHANGED <<devices, credentials, approval, rotation, revocation>>
  \/ \E r \in Rotations :
       /\ CreateReplacement(r) \/ SaveReplacement(r)
       /\ UNCHANGED failures
       /\ UNCHANGED <<approval, poll, revocation>>

LEMMA QuietSteps ==
  ASSUME Inv, TypeOK', (Next /\ ~TokenStep) \/ UNCHANGED vars
  PROVE  Quiet
<1> USE DEF tables
<1>0. /\ requests \in [Requests -> RequestRow]
      /\ credentials \in [Tokens -> CredentialRow]
      /\ held \in [Machines -> Tokens \cup {NoToken}]
      /\ approval \in [Approvals -> Approval]
      /\ poll \in [Polls -> Poll]
      /\ rotation \in [Rotations -> Rotation]
  BY DEF Inv, TypeOK, TablesTypeOK, PairingTypeOK, CredentialsTypeOK
<1>h. /\ \A m \in Machines : held[m] # NoToken => Minted(held[m])
      /\ \A r \in Rotations : rotation[r].pc # "idle" =>
           rotation[r].old \in Tokens /\ Minted(rotation[r].old)
  BY DEF Inv, HeldMinted, ReplacesMinted
<1>1. ASSUME NEW q \in Requests, StartPairing(q),
          UNCHANGED <<held, poll, handed, rotation, revocation, failures>>
     PROVE  Quiet
  BY <1>0, <1>h, <1>1
     DEF StartPairing, RequestRow, Approvable, Quiet, Minted, Carries, Renewing
<1>2. ASSUME NEW q \in Requests, ExpireRequest(q),
          UNCHANGED <<held, poll, handed, rotation, revocation, failures>>
     PROVE  Quiet
  BY <1>0, <1>h, <1>2
     DEF ExpireRequest, RequestRow, Approvable, Quiet, Minted, Carries,
         Renewing
<1>3. ASSUME NEW q \in Requests, Deny(q),
          UNCHANGED <<held, poll, handed, rotation, revocation, failures>>
     PROVE  Quiet
  BY <1>0, <1>h, <1>3
     DEF Deny, RequestRow, Approvable, Quiet, Minted, Carries, Renewing
<1>4. ASSUME NEW a \in Approvals, LookUp(a),
          UNCHANGED <<held, poll, handed, rotation, revocation>>, UNCHANGED failures
     PROVE  Quiet
  BY <1>0, <1>h, <1>4 DEF LookUp, IdleApproval, ApprovalAt, ApprovalTo, ApprovalEnds,
         Carries, Claimed, Quiet, Minted, Renewing
<1>5. ASSUME NEW a \in Approvals, FindDevice(a),
          UNCHANGED <<held, poll, handed, rotation, revocation>>, UNCHANGED failures
     PROVE  Quiet
  <2>1. \/ approval' = [approval EXCEPT ![a].pc = "insert"]
        \/ \E d \in Devices : approval' = [approval EXCEPT
              ![a].pc = "point", ![a].device = d,
              ![a].replaced = devices[d].credential]
    BY <1>5 DEF FindDevice, ApprovalTo
  <2>2. \A b \in Approvals :
          \/ approval'[b] = approval[b]
          \/ /\ b = a /\ approval'[b].pc \in {"insert", "point"}
             /\ approval'[b].token = approval[b].token
             /\ approval'[b].request = approval[b].request
    <3>1. CASE approval' = [approval EXCEPT ![a].pc = "insert"]
      BY <1>0, <3>1 DEF Approval
    <3>2. ASSUME NEW d \in Devices, approval' = [approval EXCEPT
              ![a].pc = "point", ![a].device = d,
              ![a].replaced = devices[d].credential]
          PROVE  \A b \in Approvals :
                   \/ approval'[b] = approval[b]
                   \/ /\ b = a /\ approval'[b].pc \in {"insert", "point"}
                      /\ approval'[b].token = approval[b].token
                      /\ approval'[b].request = approval[b].request
      BY <1>0, <3>2 DEF Approval
    <3> QED BY <2>1, <3>1, <3>2
  <2> QED
    BY <1>0, <1>h, <1>5, <2>2
       DEF FindDevice, Quiet, Minted, Carries, Claimed, Renewing, ApprovalAt
<1>6. ASSUME NEW a \in Approvals, PointDevice(a),
          UNCHANGED <<held, poll, handed, rotation, revocation>>, UNCHANGED failures
     PROVE  Quiet
  BY <1>0, <1>h, <1>6
  DEF PointDevice, IdleApproval, ApprovalAt, ApprovalTo, ApprovalEnds,
         Carries, Claimed, Quiet, Minted, Renewing
<1>7. ASSUME NEW a \in Approvals, InsertDevice(a),
          UNCHANGED <<held, poll, handed, rotation, revocation>>, UNCHANGED failures
     PROVE  Quiet
  <2>1. \/ approval' = [approval EXCEPT ![a].pc = "abandon"]
        \/ \E d \in Devices : approval' = [approval EXCEPT
              ![a].pc = "bind", ![a].device = d]
    BY <1>7 DEF InsertDevice, ApprovalTo
  <2>2. \A b \in Approvals :
          \/ approval'[b] = approval[b]
          \/ /\ b = a /\ approval'[b].pc \in {"abandon", "bind"}
             /\ approval'[b].token = approval[b].token
             /\ approval'[b].request = approval[b].request
    <3>1. CASE approval' = [approval EXCEPT ![a].pc = "abandon"]
      BY <1>0, <3>1 DEF Approval
    <3>2. ASSUME NEW d \in Devices, approval' = [approval EXCEPT
              ![a].pc = "bind", ![a].device = d]
          PROVE  \A b \in Approvals :
                   \/ approval'[b] = approval[b]
                   \/ /\ b = a /\ approval'[b].pc \in {"abandon", "bind"}
                      /\ approval'[b].token = approval[b].token
                      /\ approval'[b].request = approval[b].request
      BY <1>0, <3>2 DEF Approval
    <3> QED BY <2>1, <3>1, <3>2
  <2> QED
    BY <1>0, <1>h, <1>7, <2>2
       DEF InsertDevice, Quiet, Minted, Carries, Claimed, Renewing, ApprovalAt
<1>8. ASSUME NEW a \in Approvals, BindCredential(a),
          UNCHANGED <<held, poll, handed, rotation, revocation>>, UNCHANGED failures
     PROVE  Quiet
  BY <1>0, <1>h, <1>8
     DEF BindCredential, IdleApproval, Carries, Claimed, ApprovalAt,
         ApprovalTo, ApprovalEnds, CredentialRow, Revoke, Quiet, Minted,
         Renewing
<1>9. ASSUME NEW a \in Approvals, RetireReplaced(a),
          UNCHANGED <<held, poll, handed, rotation, revocation>>, UNCHANGED failures
     PROVE  Quiet
  BY <1>0, <1>h, <1>9
     DEF RetireReplaced, IdleApproval, Carries, Claimed, ApprovalAt,
         ApprovalTo, ApprovalEnds, CredentialRow, Revoke, Quiet, Minted,
         Renewing
<1>10. ASSUME NEW a \in Approvals, Abandon(a),
          UNCHANGED <<held, poll, handed, rotation, revocation>>, UNCHANGED failures
     PROVE  Quiet
  BY <1>0, <1>h, <1>10
     DEF Abandon, IdleApproval, Carries, Claimed, ApprovalAt, ApprovalTo,
         ApprovalEnds, CredentialRow, Revoke, Quiet, Minted, Renewing
<1>11. ASSUME NEW a \in Approvals, ApprovalFails(a),
          UNCHANGED <<held, poll, handed, rotation, revocation>>, Failing
     PROVE  Quiet
  BY <1>0, <1>h, <1>11
  DEF ApprovalFails, IdleApproval, ApprovalAt, ApprovalTo, ApprovalEnds,
         Carries, Claimed, Quiet, Minted, Renewing
<1>12. ASSUME NEW a \in Approvals, ApprovalDies(a),
          UNCHANGED <<held, poll, handed, rotation, revocation>>, Failing
     PROVE  Quiet
  BY <1>0, <1>h, <1>12
  DEF ApprovalDies, IdleApproval, ApprovalAt, ApprovalTo, ApprovalEnds,
         Carries, Claimed, Quiet, Minted, Renewing
<1>13. ASSUME NEW p \in Polls, Deliver(p),
          UNCHANGED <<devices, credentials, approval, rotation, revocation>>, UNCHANGED failures
     PROVE  Quiet
  BY <1>0, <1>h, <1>13
     DEF Deliver, IdlePoll, PollsCurrent, Inv, Quiet, Minted, Carries, Renewing
<1>14. ASSUME NEW p \in Polls, PollDies(p),
          UNCHANGED <<devices, credentials, approval, rotation, revocation>>, Failing, UNCHANGED held
     PROVE  Quiet
  BY <1>0, <1>h, <1>14 DEF PollDies, IdlePoll, Quiet, Minted, Carries, Renewing
<1>15. ASSUME NEW r \in Rotations, Authenticate(r),
          UNCHANGED <<approval, poll, revocation>>, UNCHANGED failures
     PROVE  Quiet
  BY <1>0, <1>h, <1>15
  DEF Authenticate, IdleRotation, RotationAt, RotationTo, RotationEnds,
         Renewing, Quiet, Minted, Carries
<1>16. ASSUME NEW r \in Rotations, RetireOld(r),
          UNCHANGED <<approval, poll, revocation>>, UNCHANGED failures
     PROVE  Quiet
  BY <1>0, <1>h, <1>16
     DEF RetireOld, IdleRotation, Renewing, RotationAt, RotationTo,
         RotationEnds, CredentialRow, Revoke, Quiet, Minted, Carries
<1>17. ASSUME NEW r \in Rotations, ReadBinding(r),
          UNCHANGED <<approval, poll, revocation>>, UNCHANGED failures
     PROVE  Quiet
  <2>1. PICK d, pc :
          /\ pc \in {"respond", "bind"}
          /\ rotation' = [rotation EXCEPT ![r].device = d, ![r].pc = pc]
    BY <1>17 DEF ReadBinding
  <2>2. rotation[r].pc = "read" /\ UNCHANGED <<tables, held, handed>>
    BY <1>17 DEF ReadBinding, RotationAt
  <2>3. /\ rotation'[r].pc \in {"respond", "bind"}
        /\ rotation'[r].old = rotation[r].old /\ rotation'[r].new = rotation[r].new
        /\ rotation'[r].machine = rotation[r].machine
        /\ \A x \in Rotations \ {r} : rotation'[x] = rotation[x]
    BY <1>0, <2>1 DEF Rotation
  <2>. QED  BY <1>0, <1>h, <1>17, <2>2, <2>3 DEF Renewing, Quiet, Minted, Carries
<1>18. ASSUME NEW r \in Rotations, BindReplacement(r),
          UNCHANGED <<approval, poll, revocation>>, UNCHANGED failures
     PROVE  Quiet
  BY <1>0, <1>h, <1>18
     DEF BindReplacement, IdleRotation, Renewing, RotationAt, RotationTo,
         RotationEnds, CredentialRow, Revoke, Quiet, Minted, Carries
<1>19. ASSUME NEW r \in Rotations, RepointDevice(r),
          UNCHANGED <<approval, poll, revocation>>, UNCHANGED failures
     PROVE  Quiet
  BY <1>0, <1>h, <1>19
  DEF RepointDevice, IdleRotation, RotationAt, RotationTo, RotationEnds,
         Renewing, Quiet, Minted, Carries
<1>20. ASSUME NEW r \in Rotations, RotationFails(r),
          UNCHANGED <<approval, poll, revocation>>, Failing
     PROVE  Quiet
  <2>1. \/ rotation' = [rotation EXCEPT ![r] = IdleRotation]
        \/ /\ rotation[r].pc \in {"read", "bind", "point"}
           /\ \E pc \in {"point", "respond"} :
                rotation' = [rotation EXCEPT ![r].pc = pc]
    BY <1>20 DEF RotationFails, RotationAt, RotationTo, RotationEnds
  <2>2. CASE rotation' = [rotation EXCEPT ![r] = IdleRotation]
    BY <1>0, <1>h, <1>20, <2>2
       DEF RotationFails, IdleRotation, Quiet, Minted, Carries, Renewing
  <2>3. ASSUME NEW pc \in {"point", "respond"},
               rotation[r].pc \in {"read", "bind", "point"},
               rotation' = [rotation EXCEPT ![r].pc = pc]
        PROVE  Quiet
    BY <1>0, <1>h, <1>20, <2>3
       DEF RotationFails, Rotation, Quiet, Minted, Carries, Renewing
  <2> QED BY <2>1, <2>2, <2>3
<1>21. ASSUME NEW r \in Rotations, RotationDies(r),
          UNCHANGED <<approval, poll, revocation>>, Failing
     PROVE  Quiet
  BY <1>0, <1>h, <1>21
  DEF RotationDies, IdleRotation, RotationAt, RotationTo, RotationEnds,
         Renewing, Quiet, Minted, Carries
<1>22. ASSUME NEW v \in Revocations, RevokeDevice(v),
          UNCHANGED <<approval, poll, rotation>>, UNCHANGED failures
     PROVE  Quiet
  BY <1>0, <1>h, <1>22 DEF RevokeDevice, Quiet, Minted, Carries, Renewing
<1>23. ASSUME NEW v \in Revocations, RevokeDeviceCredential(v),
          UNCHANGED <<approval, poll, rotation>>, UNCHANGED failures
     PROVE  Quiet
  BY <1>0, <1>h, <1>23
     DEF RevokeDeviceCredential, CredentialRow, Revoke, Quiet, Minted, Carries,
         Renewing
<1>24. ASSUME NEW v \in Revocations, RevokeCredential(v),
          UNCHANGED <<approval, poll, rotation>>, UNCHANGED failures
     PROVE  Quiet
  BY <1>0, <1>h, <1>24
     DEF RevokeCredential, CredentialRow, Revoke, Quiet, Minted, Carries,
         Renewing
<1>25. ASSUME NEW v \in Revocations, RevocationFails(v),
          UNCHANGED <<approval, poll, rotation>>, Failing
     PROVE  Quiet
  BY <1>0, <1>h, <1>25 DEF RevocationFails, Quiet, Minted, Carries, Renewing
<1>26. CASE UNCHANGED vars
  BY <1>h, <1>26 DEF vars, Quiet, Minted, Carries, Renewing
<1> QED
  BY <1>1, <1>2, <1>3, <1>4, <1>5, <1>6, <1>7, <1>8, <1>9, <1>10, <1>11, <1>12,
     <1>13, <1>14, <1>15, <1>16, <1>17, <1>18, <1>19, <1>20, <1>21, <1>22, <1>23,
     <1>24, <1>25, <1>26
     DEF TokenStep, Next, AskOrAnswer, Approve, ApprovalStep, CollectToken, Rotate,
         RotationStep, RevokeByUser, Failing

-----------------------------------------------------------------------------
(* The seven steps that move a token or a claim.                           *)

LEMMA Rows ==
  ASSUME TypeOK
  PROVE  /\ requests \in [Requests -> RequestRow]
         /\ credentials \in [Tokens -> CredentialRow]
         /\ held \in [Machines -> Tokens \cup {NoToken}]
         /\ handed \in [Tokens -> Nat]
         /\ approval \in [Approvals -> Approval]
         /\ poll \in [Polls -> Poll]
         /\ rotation \in [Rotations -> Rotation]
         /\ \A q \in Requests : requests[q].parked \in Tokens \cup {NoToken}
         /\ \A a \in Approvals : /\ approval[a].request \in Requests
                                 /\ approval[a].user \in Users
         /\ \A p \in Polls : poll[p].request \in Requests
  BY DEF TypeOK, TablesTypeOK, PairingTypeOK, CredentialsTypeOK, RequestRow,
     Approval, Poll

LEMMA MintStep ==
  ASSUME Inv, TypeOK', NEW a \in Approvals, MintCredential(a),
         UNCHANGED <<held, poll, handed, rotation, revocation>>
  PROVE  Inv'
<1> USE DEF tables
<1>0. TypeOK
  BY DEF Inv
<1>1. PICK t \in Tokens :
        /\ ~Minted(t)
        /\ \A u \in Tokens : Minted(u)' <=> Minted(u) \/ u = t
        /\ approval'[a].pc = "claim" /\ approval'[a].token = t
        /\ \A b \in Approvals \ {a} : approval'[b] = approval[b]
        /\ UNCHANGED <<requests, held, poll, handed, rotation>>
  <2>1. PICK t \in Tokens :
          /\ Mint(t, approval[a].user)
          /\ approval' = [approval EXCEPT ![a].pc = "claim", ![a].token = t]
    BY DEF MintCredential
  <2>2. approval[a].user \in Users
    BY <1>0, Rows
  <2>3. \A u \in Tokens : Minted(u)' <=> Minted(u) \/ u = t
    BY <1>0, <2>1, <2>2, Rows, DeviceAssumption DEF Mint, Minted, CredentialRow
  <2> QED
    BY <1>0, <2>1, <2>3, Rows DEF Mint, MintCredential, Approval
<1>10. HandedOutOnce'
  BY <1>0, <1>1, Rows
     DEF Inv, HandedOutOnce, Minted, Carries, Claimed, Renewing
<1>11. HeldMinted'
  BY <1>0, <1>1, Rows DEF Inv, HeldMinted, Minted, Carries, Claimed, Renewing
<1>12. ReplacesMinted'
  BY <1>0, <1>1, Rows
     DEF Inv, ReplacesMinted, Minted, Carries, Claimed, Renewing
<1>13. InApproval'
  <2>1. /\ handed[t] = 0
        /\ \A q \in Requests : requests[q].parked # t
        /\ \A r \in Rotations : Renewing(r) => rotation[r].new # t
        /\ \A b \in Approvals : Carries(b) => approval[b].token # t
    BY <1>0, <1>1, DeviceAssumption
       DEF Inv, HeldMinted, OnRequest, InRotation, InApproval
  <2>2. \A b \in Approvals \ {a} : (Carries(b)' <=> Carries(b))
    BY <1>1 DEF Carries
  <2>3. /\ \A r \in Rotations : (Renewing(r)' <=> Renewing(r))
        /\ \A u \in Tokens : Minted(u) => Minted(u)'
        /\ Minted(t)'
    BY <1>1 DEF Renewing
  <2> QED
    BY <1>1, <2>1, <2>2, <2>3 DEF Inv, InApproval
<1>14. InRotation'
  BY <1>0, <1>1, Rows DEF Inv, InRotation, Minted, Carries, Claimed, Renewing
<1>15. OnRequest'
  BY <1>0, <1>1, Rows
     DEF Inv, OnRequest, InApproval, Minted, Carries, Claimed, Renewing
<1>16. ClaimedAlone'
  BY <1>0, <1>1, Rows DEF Inv, ClaimedAlone, Minted, Carries, Claimed, Renewing
<1>17. PollsCurrent'
  BY <1>0, <1>1, Rows DEF Inv, PollsCurrent, Minted, Carries, Claimed, Renewing
<1> QED BY <1>10, <1>11, <1>12, <1>13, <1>14, <1>15, <1>16, <1>17 DEF Inv

LEMMA ClaimStep ==
  ASSUME Inv, TypeOK', NEW a \in Approvals, ClaimRequest(a),
         UNCHANGED <<held, poll, handed, rotation, revocation>>
  PROVE  Inv'
<1> USE DEF tables
<1>0. TypeOK
  BY DEF Inv
<1>1. /\ UNCHANGED <<credentials, held, poll, handed, rotation>>
      /\ \A b \in Approvals \ {a} : approval'[b] = approval[b]
      /\ approval[a].pc = "claim"
      /\ approval'[a].token = approval[a].token
      /\ approval'[a].request = approval[a].request
      /\ \/ approval'[a].pc = "abandon" /\ requests' = requests
         \/ /\ approval'[a].pc \in Claimed
            /\ requests[approval[a].request].approver = NoUser
            /\ requests'[approval[a].request].approver # NoUser
            /\ \A q \in Requests :
                 /\ requests'[q].parked = requests[q].parked
                 /\ requests'[q].collected = requests[q].collected
                 /\ q # approval[a].request => requests'[q] = requests[q]
  BY <1>0, Rows, DeviceAssumption
     DEF ClaimRequest, ApprovalAt, ApprovalTo, Claimed, RequestRow, Approval
<1>10. HandedOutOnce'
  BY <1>0, <1>1, Rows
     DEF Inv, HandedOutOnce, Minted, Carries, Claimed, Renewing
<1>11. HeldMinted'
  BY <1>0, <1>1, Rows DEF Inv, HeldMinted, Minted, Carries, Claimed, Renewing
<1>12. ReplacesMinted'
  BY <1>0, <1>1, Rows
     DEF Inv, ReplacesMinted, Minted, Carries, Claimed, Renewing
<1>13. InApproval'
  BY <1>0, <1>1, Rows DEF Inv, InApproval, Minted, Carries, Claimed, Renewing
<1>14. InRotation'
  BY <1>0, <1>1, Rows DEF Inv, InRotation, Minted, Carries, Claimed, Renewing
<1>15. OnRequest'
  BY <1>0, <1>1, Rows DEF Inv, OnRequest, Minted, Carries, Claimed, Renewing
<1>16. ClaimedAlone'
  BY SMTT(30), <1>0, <1>1, Rows
     DEF Inv, ClaimedAlone, PollsCurrent, Minted, Carries, Claimed, Renewing
<1>17. PollsCurrent'
  BY <1>0, <1>1, Rows DEF Inv, PollsCurrent, Minted, Carries, Claimed, Renewing
<1> QED BY <1>10, <1>11, <1>12, <1>13, <1>14, <1>15, <1>16, <1>17 DEF Inv

LEMMA ParkStep ==
  ASSUME Inv, TypeOK', NEW a \in Approvals, ParkToken(a),
         UNCHANGED <<held, poll, handed, rotation, revocation>>
  PROVE  Inv'
<1> USE DEF tables
<1>0. TypeOK
  BY DEF Inv
<1>1. /\ UNCHANGED <<credentials, held, poll, handed, rotation>>
      /\ \A b \in Approvals \ {a} : approval'[b] = approval[b]
      /\ approval[a].pc = "park" /\ approval'[a].pc \in {"retire", "idle"}
      /\ \A q \in Requests :
           /\ requests'[q].collected = requests[q].collected
           /\ requests'[q].approver = requests[q].approver
           /\ requests'[q].parked = IF q = approval[a].request
                THEN approval[a].token ELSE requests[q].parked
  BY <1>0, Rows
     DEF ParkToken, ApprovalAt, ApprovalTo, ApprovalEnds, IdleApproval,
         RequestRow, Approval
<1>10. HandedOutOnce'
  BY <1>0, <1>1, Rows
     DEF Inv, HandedOutOnce, Minted, Carries, Claimed, Renewing
<1>11. HeldMinted'
  BY <1>0, <1>1, Rows DEF Inv, HeldMinted, Minted, Carries, Claimed, Renewing
<1>12. ReplacesMinted'
  BY <1>0, <1>1, Rows
     DEF Inv, ReplacesMinted, Minted, Carries, Claimed, Renewing
<1>13. InApproval'
  BY <1>0, <1>1, Rows DEF Inv, InApproval, Minted, Carries, Claimed, Renewing
<1>14. InRotation'
  BY <1>0, <1>1, Rows
     DEF Inv, InRotation, InApproval, Minted, Carries, Claimed, Renewing
<1>15. OnRequest'
  BY <1>0, <1>1, Rows
     DEF Inv, OnRequest, InApproval, ClaimedAlone, Minted, Carries, Claimed,
         Renewing
<1>16. ClaimedAlone'
  BY <1>0, <1>1, Rows DEF Inv, ClaimedAlone, Minted, Carries, Claimed, Renewing
<1>17. PollsCurrent'
  BY <1>0, <1>1, Rows
     DEF Inv, PollsCurrent, ClaimedAlone, Minted, Carries, Claimed, Renewing
<1> QED BY <1>10, <1>11, <1>12, <1>13, <1>14, <1>15, <1>16, <1>17 DEF Inv

LEMMA ReadStep ==
  ASSUME Inv, TypeOK', NEW p \in Polls, ReadRequest(p), UNCHANGED <<held, failures>>,
         UNCHANGED <<devices, credentials, approval, rotation, revocation>>
  PROVE  Inv'
<1> USE DEF tables
<1>0. TypeOK
  BY DEF Inv
<1>1. /\ UNCHANGED <<requests, credentials, held, approval, handed, rotation>>
      /\ \A o \in Polls \ {p} : poll'[o] = poll[o]
      /\ \E q \in Requests :
           /\ ~requests[q].collected /\ requests[q].approver # NoUser
           /\ requests[q].parked # NoToken
           /\ poll'[p] = [pc |-> "claim", request |-> q,
                          token |-> requests[q].parked]
  BY <1>0, Rows DEF ReadRequest, Approvable
<1>10. HandedOutOnce'
  BY <1>0, <1>1, Rows
     DEF Inv, HandedOutOnce, Minted, Carries, Claimed, Renewing
<1>11. HeldMinted'
  BY <1>0, <1>1, Rows DEF Inv, HeldMinted, Minted, Carries, Claimed, Renewing
<1>12. ReplacesMinted'
  BY <1>0, <1>1, Rows
     DEF Inv, ReplacesMinted, Minted, Carries, Claimed, Renewing
<1>13. InApproval'
  BY <1>0, <1>1, Rows DEF Inv, InApproval, Minted, Carries, Claimed, Renewing
<1>14. InRotation'
  BY <1>0, <1>1, Rows DEF Inv, InRotation, Minted, Carries, Claimed, Renewing
<1>15. OnRequest'
  BY <1>0, <1>1, Rows DEF Inv, OnRequest, Minted, Carries, Claimed, Renewing
<1>16. ClaimedAlone'
  BY <1>0, <1>1, Rows DEF Inv, ClaimedAlone, Minted, Carries, Claimed, Renewing
<1>17. PollsCurrent'
  BY <1>0, <1>1, Rows
     DEF Inv, PollsCurrent, OnRequest, Minted, Carries, Claimed, Renewing
<1> QED BY <1>10, <1>11, <1>12, <1>13, <1>14, <1>15, <1>16, <1>17 DEF Inv

LEMMA CollectStep ==
  ASSUME Inv, TypeOK', NEW p \in Polls, Collect(p), UNCHANGED <<held, failures>>,
         UNCHANGED <<devices, credentials, approval, rotation, revocation>>
  PROVE  Inv'
<1> USE DEF tables
<1>0. TypeOK
  BY DEF Inv
<1>1. /\ UNCHANGED <<credentials, held, approval, rotation>>
      /\ \A o \in Polls \ {p} : poll'[o] = poll[o]
      /\ poll[p].pc = "claim"
      /\ \/ UNCHANGED <<requests, handed>> /\ poll'[p].pc = "idle"
         \/ LET q == poll[p].request
                t == poll[p].token IN
            /\ ~requests[q].collected
            /\ requests'[q].collected /\ requests'[q].parked = NoToken
            /\ requests'[q].approver = requests[q].approver
            /\ \A x \in Requests \ {q} : requests'[x] = requests[x]
            /\ \A u \in Tokens : handed'[u] = IF u = t THEN handed[u] + 1
                                                      ELSE handed[u]
            /\ poll'[p].pc = "respond" /\ poll'[p].token = t
  BY <1>0, Rows DEF Collect, HandOut, IdlePoll, RequestRow, Poll
<1>2. \/ handed' = handed /\ requests' = requests
      \/ \E t \in Tokens, q \in Requests :
           /\ handed[t] = 0 /\ Minted(t) /\ requests[q].parked = t
           /\ \A x \in Requests : requests'[x].parked =
                IF x = q THEN NoToken ELSE requests[x].parked
           /\ \A u \in Tokens : handed'[u] = IF u = t THEN 1 ELSE handed[u]
  <2> DEFINE q == poll[p].request
             t == poll[p].token
  <2>1. CASE ~requests[q].collected
    <3>1. /\ t \in Tokens /\ q \in Requests
          /\ requests[q].parked = t /\ t # NoToken
      BY <1>0, <1>1, <2>1, Rows, DeviceAssumption DEF Inv, PollsCurrent
    <3>2. handed[t] = 0 /\ Minted(t)
      BY <3>1 DEF Inv, OnRequest
    <3> QED BY <1>1, <3>1, <3>2
  <2>2. CASE requests[q].collected
    BY <1>1, <2>2
  <2> QED BY <2>1, <2>2
<1>10. HandedOutOnce'
  BY <1>0, <1>1, Rows, <1>2
     DEF Inv, HandedOutOnce, Minted, Carries, Claimed, Renewing
<1>11. HeldMinted'
  BY <1>0, <1>1, Rows
     DEF Inv, HeldMinted, PollsCurrent, Minted, Carries, Claimed, Renewing
<1>12. ReplacesMinted'
  BY <1>0, <1>1, Rows
     DEF Inv, ReplacesMinted, Minted, Carries, Claimed, Renewing
<1>13. InApproval'
  <2>1. UNCHANGED <<credentials, approval, rotation>>
    BY <1>1
  <2>2. \A a \in Approvals : Carries(a) =>
          /\ handed'[approval[a].token] = 0
          /\ \A q \in Requests : requests'[q].parked # approval[a].token
    <3>1. CASE handed' = handed /\ requests' = requests
      BY <3>1 DEF Inv, InApproval
    <3>2. ASSUME NEW t \in Tokens, NEW q \in Requests,
                 requests[q].parked = t,
                 \A x \in Requests : requests'[x].parked =
                   IF x = q THEN NoToken ELSE requests[x].parked,
                 \A u \in Tokens : handed'[u] = IF u = t THEN 1 ELSE handed[u],
                 NEW a \in Approvals, Carries(a)
          PROVE  /\ handed'[approval[a].token] = 0
                 /\ \A x \in Requests : requests'[x].parked # approval[a].token
      BY <3>2, DeviceAssumption DEF Inv, InApproval
    <3> QED BY <1>2, <3>1, <3>2
  <2> QED
    BY <2>1, <2>2 DEF Inv, InApproval, Minted, Carries, Renewing
<1>14. InRotation'
  <2>1. UNCHANGED <<credentials, approval, rotation>>
    BY <1>1
  <2>2. \A r \in Rotations : Renewing(r) =>
          /\ handed'[rotation[r].new] = 0
          /\ \A q \in Requests : requests'[q].parked # rotation[r].new
    <3>1. CASE handed' = handed /\ requests' = requests
      BY <3>1 DEF Inv, InRotation
    <3>2. ASSUME NEW t \in Tokens, NEW q \in Requests,
                 requests[q].parked = t,
                 \A x \in Requests : requests'[x].parked =
                   IF x = q THEN NoToken ELSE requests[x].parked,
                 \A u \in Tokens : handed'[u] = IF u = t THEN 1 ELSE handed[u],
                 NEW r \in Rotations, Renewing(r)
          PROVE  /\ handed'[rotation[r].new] = 0
                 /\ \A x \in Requests : requests'[x].parked # rotation[r].new
      BY <3>2, DeviceAssumption DEF Inv, InRotation
    <3> QED BY <1>2, <3>1, <3>2
  <2> QED
    BY <2>1, <2>2 DEF Inv, InRotation, Minted, Carries, Renewing
<1>15. OnRequest'
  BY <1>0, <1>1, Rows
     DEF Inv, OnRequest, PollsCurrent, Minted, Carries, Claimed, Renewing
<1>16. ClaimedAlone'
  BY <1>0, <1>1, Rows
     DEF Inv, ClaimedAlone, PollsCurrent, Minted, Carries, Claimed, Renewing
<1>17. PollsCurrent'
  BY SMTT(30), <1>0, <1>1, Rows DEF Inv, PollsCurrent, Minted, Carries, Claimed, Renewing
<1> QED BY <1>10, <1>11, <1>12, <1>13, <1>14, <1>15, <1>16, <1>17 DEF Inv

LEMMA CreateStep ==
  ASSUME Inv, TypeOK', NEW r \in Rotations, CreateReplacement(r), UNCHANGED failures,
         UNCHANGED <<approval, poll, revocation>>
  PROVE  Inv'
<1> USE DEF tables
<1>0. TypeOK
  BY DEF Inv
<1>1. PICK t \in Tokens :
        /\ ~Minted(t)
        /\ \A u \in Tokens : Minted(u)' <=> Minted(u) \/ u = t
        /\ rotation[r].pc = "create" /\ rotation'[r].old = rotation[r].old
        /\ rotation'[r].pc = "retire" /\ rotation'[r].new = t
        /\ \A s \in Rotations \ {r} : rotation'[s] = rotation[s]
        /\ UNCHANGED <<requests, held, poll, handed, approval>>
  <2>1. PICK t \in Tokens :
          /\ Mint(t, credentials[rotation[r].old].user)
          /\ rotation' = [rotation EXCEPT ![r].pc = "retire", ![r].new = t]
    BY DEF CreateReplacement
  <2>2. credentials[rotation[r].old].user # NoUser
    BY DEF CreateReplacement, RotationAt, Inv, ReplacesMinted, Minted
  <2>3. \A u \in Tokens : Minted(u)' <=> Minted(u) \/ u = t
    BY <1>0, <2>1, <2>2, Rows DEF Mint, Minted, CredentialRow
  <2> QED
    BY <1>0, <2>1, <2>3, Rows
       DEF Mint, CreateReplacement, RotationAt, Rotation
<1>10. HandedOutOnce'
  BY <1>0, <1>1, Rows
     DEF Inv, HandedOutOnce, Minted, Carries, Claimed, Renewing
<1>11. HeldMinted'
  BY <1>0, <1>1, Rows DEF Inv, HeldMinted, Minted, Carries, Claimed, Renewing
<1>12. ReplacesMinted'
  BY <1>0, <1>1, Rows
     DEF Inv, ReplacesMinted, Minted, Carries, Claimed, Renewing
<1>13. InApproval'
  BY <1>0, <1>1, Rows
     DEF Inv, InApproval, InRotation, Minted, Carries, Claimed, Renewing
<1>14. InRotation'
  <2>1. /\ handed[t] = 0
        /\ \A q \in Requests : requests[q].parked # t
        /\ \A s \in Rotations : Renewing(s) => rotation[s].new # t
    BY <1>0, <1>1, DeviceAssumption DEF Inv, HeldMinted, OnRequest, InRotation
  <2>2. \A s \in Rotations \ {r} : (Renewing(s)' <=> Renewing(s))
    BY <1>1 DEF Renewing
  <2>3. (\A u \in Tokens : Minted(u) => Minted(u)') /\ Minted(t)'
    BY <1>1
  <2> QED
    BY <1>1, <2>1, <2>2, <2>3 DEF Inv, InRotation
<1>15. OnRequest'
  BY <1>0, <1>1, Rows DEF Inv, OnRequest, Minted, Carries, Claimed, Renewing
<1>16. ClaimedAlone'
  BY <1>0, <1>1, Rows DEF Inv, ClaimedAlone, Minted, Carries, Claimed, Renewing
<1>17. PollsCurrent'
  BY <1>0, <1>1, Rows DEF Inv, PollsCurrent, Minted, Carries, Claimed, Renewing
<1> QED BY <1>10, <1>11, <1>12, <1>13, <1>14, <1>15, <1>16, <1>17 DEF Inv

LEMMA SaveStep ==
  ASSUME Inv, TypeOK', NEW r \in Rotations, SaveReplacement(r), UNCHANGED failures,
         UNCHANGED <<approval, poll, revocation>>
  PROVE  Inv'
<1> USE DEF tables
<1>0. TypeOK
  BY DEF Inv
<1>1. /\ UNCHANGED <<requests, credentials, approval, poll>>
      /\ \A s \in Rotations \ {r} : rotation'[s] = rotation[s]
      /\ rotation[r].pc = "respond" /\ rotation'[r].pc = "idle"
      /\ \A u \in Tokens : handed'[u] = IF u = rotation[r].new
           THEN handed[u] + 1 ELSE handed[u]
      /\ \A m \in Machines : held'[m] \in {held[m], rotation[r].new}
  BY <1>0, Rows
     DEF SaveReplacement, HandOut, RotationAt, RotationEnds, IdleRotation
<1>10. HandedOutOnce'
  BY <1>0, <1>1, Rows
     DEF Inv, HandedOutOnce, InRotation, Minted, Carries, Claimed, Renewing
<1>11. HeldMinted'
  BY <1>0, <1>1, Rows
     DEF Inv, HeldMinted, InRotation, Minted, Carries, Claimed, Renewing
<1>12. ReplacesMinted'
  BY <1>0, <1>1, Rows
     DEF Inv, ReplacesMinted, Minted, Carries, Claimed, Renewing
<1>13. InApproval'
  BY <1>0, <1>1, Rows DEF Inv, InApproval, Minted, Carries, Claimed, Renewing
<1>14. InRotation'
  BY <1>0, <1>1, Rows DEF Inv, InRotation, Minted, Carries, Claimed, Renewing
<1>15. OnRequest'
  BY <1>0, <1>1, Rows
     DEF Inv, OnRequest, InRotation, Minted, Carries, Claimed, Renewing
<1>16. ClaimedAlone'
  BY <1>0, <1>1, Rows DEF Inv, ClaimedAlone, Minted, Carries, Claimed, Renewing
<1>17. PollsCurrent'
  BY <1>0, <1>1, Rows DEF Inv, PollsCurrent, Minted, Carries, Claimed, Renewing
<1> QED BY <1>10, <1>11, <1>12, <1>13, <1>14, <1>15, <1>16, <1>17 DEF Inv

-----------------------------------------------------------------------------
LEMMA InitInv == Init => Inv
<1> SUFFICES ASSUME Init PROVE Inv
  OBVIOUS
<1>1. TypeOK
  BY InitType
<1>2. /\ \A t \in Tokens : ~Minted(t) /\ handed[t] = 0
      /\ \A q \in Requests : requests[q].parked = NoToken
                            /\ ~requests[q].collected
      /\ \A m \in Machines : held[m] = NoToken
      /\ \A a \in Approvals : approval[a].pc = "idle"
      /\ \A p \in Polls : poll[p].pc = "idle"
      /\ \A r \in Rotations : rotation[r].pc = "idle"
  BY DEF Init, TablesInit, PairingInit, CredentialsInit, IdleApproval, IdlePoll,
     IdleRotation, Minted
<1> QED
  BY <1>1, <1>2 DEF Inv, HandedOutOnce, HeldMinted, ReplacesMinted, InApproval,
     InRotation, OnRequest, ClaimedAlone, PollsCurrent, Carries, Claimed, Renewing

LEMMA StepInv == Inv /\ [Next]_vars => Inv'
<1> SUFFICES ASSUME Inv, [Next]_vars PROVE Inv'
  OBVIOUS
<1>1. TypeOK'
  BY TypeStep DEF Inv
<1>2. CASE TokenStep
  BY <1>1, <1>2, MintStep, ClaimStep, ParkStep, ReadStep, CollectStep,
     CreateStep, SaveStep DEF TokenStep
<1>3. CASE (Next /\ ~TokenStep) \/ UNCHANGED vars
  BY <1>1, <1>3, QuietSteps, QuietStep
<1> QED
  BY <1>2, <1>3

(* However many approvals, polls, rotations and revocations run together,  *)
(* and whichever of their requests fail or answers are lost, no token is   *)
(* returned twice (pairing.ts 279-286, rotate in credentials.ts).          *)
THEOREM HandedOnce == Spec => []HandedOutOnce
<1>1. Inv => HandedOutOnce
  BY DEF Inv
<1> QED
  BY InitInv, StepInv, <1>1, PTL DEF Spec

(* Every table and every call's memory keeps its type.                     *)
THEOREM DevicesTyped == Spec => []TypeOK
<1>1. Inv => TypeOK
  BY DEF Inv
<1> QED
  BY InitInv, StepInv, <1>1, PTL DEF Spec

-----------------------------------------------------------------------------
(* Who a token is for.                                                     *)
(*                                                                         *)
(* A call holds a token from the step that mints it to the step that hands *)
(* it on; the token is its user's, the device row it is bound to is the    *)
(* same user's, and all the places it comes by are of one machine.         *)

EmptyHands ==
  /\ \A a \in Approvals :
       ~Carries(a) /\ approval[a].pc # "retire" => approval[a].token = NoToken
  /\ \A r \in Rotations : ~Renewing(r) => rotation[r].new = NoToken
  /\ \A p \in Polls : poll[p].pc = "idle" => poll[p].token = NoToken

(* What a machine holds, a rotation replaces or a poll brings was handed   *)
(* out; what an approval parked still waits or was.                        *)
Delivered ==
  /\ \A m \in Machines : held[m] # NoToken => handed[held[m]] > 0
  /\ \A r \in Rotations : rotation[r].pc # "idle" => handed[rotation[r].old] > 0
  /\ \A p \in Polls :
       (\/ poll[p].pc = "respond"
        \/ poll[p].pc = "claim" /\ requests[poll[p].request].collected)
         => handed[poll[p].token] > 0
  /\ \A a \in Approvals : approval[a].pc = "retire" =>
       /\ approval[a].token \in Tokens
       /\ \/ requests[approval[a].request].parked = approval[a].token
          \/ handed[approval[a].token] > 0

OwnRow(d, u) ==
  d \in Devices /\ devices[d].exists /\ devices[d].user = u /\ u # NoUser

ApprovalsOwn ==
  \A a \in Approvals :
    /\ approval[a].token # NoToken =>
         credentials[approval[a].token].user = approval[a].user
    /\ approval[a].pc \in Claimed =>
         requests[approval[a].request].approver = approval[a].user
    /\ approval[a].device # NoDevice => OwnRow(approval[a].device, approval[a].user)
    /\ approval[a].pc \in {"point", "bind"} => approval[a].device # NoDevice
    /\ approval[a].pc = "park" => credentials[approval[a].token].device # NoDevice

RequestsOwn ==
  /\ \A q \in Requests : requests[q].parked # NoToken =>
       /\ credentials[requests[q].parked].user = requests[q].approver
       /\ credentials[requests[q].parked].device # NoDevice
  /\ \A p \in Polls :
       poll[p].token # NoToken => credentials[poll[p].token].device # NoDevice

RotationsOwn ==
  \A r \in Rotations :
    /\ Renewing(r) =>
         credentials[rotation[r].new].user = credentials[rotation[r].old].user
    /\ rotation[r].device # NoDevice =>
         Renewing(r) /\ OwnRow(rotation[r].device, credentials[rotation[r].new].user)

BoundOwn ==
  \A t \in Tokens :
    credentials[t].device # NoDevice => OwnRow(credentials[t].device, credentials[t].user)

OwnInv ==
  /\ EmptyHands /\ Delivered
  /\ ApprovalsOwn /\ RequestsOwn /\ RotationsOwn /\ BoundOwn

(* Steps that hand no token on: rows keep what the invariant sees, calls   *)
(* start, end, or go on with what they have.                               *)
Still ==
  /\ \A q \in Requests :
       /\ requests'[q].parked = requests[q].parked
       /\ requests'[q].collected = requests[q].collected
       /\ requests'[q].approver = requests[q].approver
  /\ \A d \in Devices :
       /\ devices'[d].exists = devices[d].exists
       /\ devices'[d].user = devices[d].user
       /\ devices'[d].machine = devices[d].machine
       /\ devices'[d].credential = devices[d].credential
  /\ \A t \in Tokens :
       /\ credentials'[t].user = credentials[t].user
       /\ credentials'[t].device = credentials[t].device
  /\ held' = held
  /\ handed' = handed
  /\ \A a \in Approvals :
       \/ approval'[a] = approval[a]
       \/ /\ approval'[a].pc \in {"idle", "mint"}
          /\ approval'[a].token = NoToken
          /\ approval'[a].device = NoDevice
          /\ approval'[a].replaced = NoToken
       \/ /\ Carries(a) /\ approval'[a].pc = "abandon"
          /\ approval'[a].request = approval[a].request
          /\ approval'[a].user = approval[a].user
          /\ approval'[a].token = approval[a].token
          /\ approval'[a].device = approval[a].device
          /\ approval'[a].replaced = approval[a].replaced
  /\ \A r \in Rotations :
       \/ rotation'[r] = rotation[r]
       \/ rotation'[r] = IdleRotation
       \/ /\ Renewing(r) /\ Renewing(r)'
          /\ rotation'[r].machine = rotation[r].machine
          /\ rotation'[r].old = rotation[r].old
          /\ rotation'[r].new = rotation[r].new
          /\ rotation'[r].device = rotation[r].device
  /\ \A p \in Polls : poll'[p] \in {poll[p], IdlePoll}

LEMMA Shapes ==
  ASSUME TypeOK
  PROVE  /\ requests \in [Requests -> RequestRow]
         /\ devices \in [Devices -> DeviceRow]
         /\ credentials \in [Tokens -> CredentialRow]
         /\ approval \in [Approvals -> Approval]
         /\ poll \in [Polls -> Poll]
         /\ rotation \in [Rotations -> Rotation]
         /\ \A q \in Requests : requests[q].parked \in Tokens \cup {NoToken}
         /\ \A a \in Approvals : /\ approval[a].request \in Requests
                                 /\ approval[a].user \in Users
                                 /\ approval[a].token \in Tokens \cup {NoToken}
                                 /\ approval[a].device \in Devices \cup {NoDevice}
                                 /\ approval[a].replaced \in Tokens \cup {NoToken}
         /\ \A p \in Polls : /\ poll[p].request \in Requests
                             /\ poll[p].token \in Tokens \cup {NoToken}
         /\ \A r \in Rotations : /\ rotation[r].machine \in Machines
                                 /\ rotation[r].old \in Tokens \cup {NoToken}
                                 /\ rotation[r].new \in Tokens \cup {NoToken}
                                 /\ rotation[r].device \in Devices \cup {NoDevice}
         /\ \A d \in Devices : devices[d].credential \in Tokens \cup {NoToken}
         /\ \A t \in Tokens : credentials[t].device \in Devices \cup {NoDevice}
  BY DEF TypeOK, TablesTypeOK, PairingTypeOK, CredentialsTypeOK, RequestRow,
     DeviceRow, CredentialRow, Approval, Poll, Rotation

(* The other steps. *)
HandsOn ==
  \/ \E a \in Approvals :
       /\ \/ MintCredential(a) \/ ClaimRequest(a) \/ FindDevice(a) \/ PointDevice(a)
          \/ InsertDevice(a) \/ BindCredential(a) \/ ParkToken(a)
       /\ UNCHANGED <<held, poll, handed, rotation, revocation>>
  \/ \E p \in Polls :
       /\ \/ (ReadRequest(p) \/ Collect(p)) /\ UNCHANGED held
          \/ Deliver(p)
       /\ UNCHANGED <<devices, credentials, approval, rotation, revocation>>
  \/ \E r \in Rotations :
       /\ \/ Authenticate(r) \/ CreateReplacement(r) \/ ReadBinding(r)
          \/ BindReplacement(r) \/ RepointDevice(r) \/ SaveReplacement(r)
       /\ UNCHANGED <<approval, poll, revocation>>

LEMMA StillSteps ==
  ASSUME Inv, [Next]_vars, ~HandsOn
  PROVE  Still
<1>. USE DEF tables
<1>0. /\ requests \in [Requests -> RequestRow]
      /\ devices \in [Devices -> DeviceRow]
      /\ credentials \in [Tokens -> CredentialRow]
      /\ approval \in [Approvals -> Approval]
      /\ poll \in [Polls -> Poll]
      /\ rotation \in [Rotations -> Rotation]
  BY Shapes DEF Inv
<1>1. ASSUME NEW q \in Requests, StartPairing(q), UNCHANGED <<held, poll, handed, rotation, revocation>>
      PROVE  Still
  BY <1>0, <1>1
  DEF StartPairing, RequestRow, Still
<1>2. ASSUME NEW q \in Requests, ExpireRequest(q), UNCHANGED <<held, poll, handed, rotation, revocation>>
      PROVE  Still
  BY <1>0, <1>2
  DEF ExpireRequest, RequestRow, Still
<1>3. ASSUME NEW q \in Requests, Deny(q), UNCHANGED <<held, poll, handed, rotation, revocation>>
      PROVE  Still
  BY <1>0, <1>3
  DEF Deny, RequestRow, Still
<1>4. ASSUME NEW a \in Approvals, LookUp(a), UNCHANGED <<held, poll, handed, rotation, revocation>>
      PROVE  Still
  BY <1>0, <1>4
  DEF LookUp, Approval, IdleApproval, Still
<1>5. ASSUME NEW a \in Approvals, RetireReplaced(a), UNCHANGED <<held, poll, handed, rotation, revocation>>
      PROVE  Still
  BY <1>0, <1>5
  DEF RetireReplaced, ApprovalEnds, Revoke, Approval, IdleApproval,
      CredentialRow, Still
<1>6. ASSUME NEW a \in Approvals, Abandon(a), UNCHANGED <<held, poll, handed, rotation, revocation>>
      PROVE  Still
  BY <1>0, <1>6
  DEF Abandon, ApprovalEnds, Revoke, Approval, IdleApproval, CredentialRow,
      Still
<1>7. ASSUME NEW a \in Approvals, ApprovalFails(a), UNCHANGED <<held, poll, handed, rotation, revocation>>
      PROVE  Still
  BY <1>0, <1>7
  DEF ApprovalFails, ApprovalTo, Carries, Claimed, Approval, Still
<1>8. ASSUME NEW a \in Approvals, ApprovalDies(a), UNCHANGED <<held, poll, handed, rotation, revocation>>
      PROVE  Still
  BY <1>0, <1>8
  DEF ApprovalDies, ApprovalEnds, Approval, IdleApproval, Still
<1>9. ASSUME NEW p \in Polls, PollDies(p), UNCHANGED <<held, devices, credentials, approval, rotation, revocation>>
      PROVE  Still
  BY <1>0, <1>9
  DEF PollDies, Still
<1>10. ASSUME NEW r \in Rotations, RetireOld(r), UNCHANGED <<approval, poll, revocation>>
      PROVE  Still
  BY <1>0, <1>10
  DEF RetireOld, RotationAt, RotationTo, Revoke, Renewing, Rotation,
      CredentialRow, Still
<1>11. ASSUME NEW r \in Rotations, RotationFails(r), UNCHANGED <<approval, poll, revocation>>
      PROVE  Still
  BY <1>0, <1>11
  DEF RotationFails, RotationAt, RotationTo, RotationEnds, Renewing,
      Rotation, Still
<1>12. ASSUME NEW r \in Rotations, RotationDies(r), UNCHANGED <<approval, poll, revocation>>
      PROVE  Still
  BY <1>0, <1>12
  DEF RotationDies, RotationEnds, Still
<1>13. ASSUME NEW v \in Revocations, RevokeDevice(v), UNCHANGED <<approval, poll, rotation>>
      PROVE  Still
  BY <1>0, <1>13
  DEF RevokeDevice, DeviceRow, Still
<1>14. ASSUME NEW v \in Revocations, RevokeDeviceCredential(v), UNCHANGED <<approval, poll, rotation>>
      PROVE  Still
  BY <1>0, <1>14
  DEF RevokeDeviceCredential, Revoke, CredentialRow, Still
<1>15. ASSUME NEW v \in Revocations, RevokeCredential(v), UNCHANGED <<approval, poll, rotation>>
      PROVE  Still
  BY <1>0, <1>15
  DEF RevokeCredential, Revoke, CredentialRow, Still
<1>16. ASSUME NEW v \in Revocations, RevocationFails(v), UNCHANGED <<approval, poll, rotation>>
      PROVE  Still
  BY <1>0, <1>16
  DEF RevocationFails, Still
<1>20. CASE UNCHANGED vars
  BY <1>20 DEF vars, Still
<1>. QED
  BY <1>1, <1>2, <1>3, <1>4, <1>5, <1>6, <1>7, <1>8, <1>9, <1>10, <1>11,
     <1>12, <1>13, <1>14, <1>15, <1>16, <1>20
  DEF HandsOn, Next, AskOrAnswer, Approve, ApprovalStep, CollectToken, Rotate,
      RotationStep, RevokeByUser, Failing

LEMMA StillOwn == ASSUME Inv, OwnInv, TypeOK', Still PROVE OwnInv'
<1>. USE DEF OwnInv
<1>0. TypeOK
  BY DEF Inv
<1>1. \A d, u : OwnRow(d, u)' <=> OwnRow(d, u)
  BY DEF Still, OwnRow
<1>2. /\ IdleRotation.pc = "idle" /\ IdleRotation.new = NoToken
      /\ IdleRotation.device = NoDevice
      /\ IdlePoll.pc = "idle" /\ IdlePoll.token = NoToken
  BY DEF IdleRotation, IdlePoll
<1>3. EmptyHands'
  BY SMTT(30), <1>0, <1>2, Shapes DEF Still, EmptyHands, Carries, Renewing, Claimed
<1>4. Delivered'
  <2>1. \A m \in Machines : held'[m] # NoToken => handed'[held'[m]] > 0
    BY DEF Still, Delivered
  <2>2. \A r \in Rotations : rotation'[r].pc # "idle" => handed'[rotation'[r].old] > 0
    BY <1>2 DEF Still, Delivered, Renewing
  <2>3. \A p \in Polls :
          (\/ poll'[p].pc = "respond"
           \/ poll'[p].pc = "claim" /\ requests'[poll'[p].request].collected)
            => handed'[poll'[p].token] > 0
    BY <1>0, <1>2, Shapes DEF Still, Delivered
  <2>4. \A a \in Approvals : approval'[a].pc = "retire" => approval'[a] = approval[a]
    BY DEF Still
  <2>5. \A a \in Approvals : approval'[a].pc = "retire" =>
          /\ approval'[a].token \in Tokens
          /\ \/ requests'[approval'[a].request].parked = approval'[a].token
             \/ handed'[approval'[a].token] > 0
    BY <1>0, <2>4, Shapes DEF Still, Delivered
  <2>. QED  BY <2>1, <2>2, <2>3, <2>5 DEF Delivered
<1>5. ApprovalsOwn'
  <2>1. \A t \in Tokens : credentials'[t].user = credentials[t].user
                         /\ credentials'[t].device = credentials[t].device
    BY DEF Still
  <2>2. \A q \in Requests : requests'[q].approver = requests[q].approver
    BY DEF Still
  <2>. SUFFICES ASSUME NEW a \in Approvals
                PROVE  (/\ approval[a].token # NoToken =>
                             credentials[approval[a].token].user = approval[a].user
                        /\ approval[a].pc \in Claimed =>
                             requests[approval[a].request].approver = approval[a].user
                        /\ approval[a].device # NoDevice =>
                             OwnRow(approval[a].device, approval[a].user)
                        /\ approval[a].pc \in {"point", "bind"} =>
                             approval[a].device # NoDevice
                        /\ approval[a].pc = "park" =>
                             credentials[approval[a].token].device # NoDevice)'
    BY DEF ApprovalsOwn
  <2>3. CASE approval'[a] = approval[a]
    <3>1. approval[a].pc = "park" => approval[a].token \in Tokens
      BY DEF Inv, InApproval, Carries, Claimed
    <3>. QED  BY <1>0, <1>1, <2>1, <2>2, <2>3, <3>1, Shapes DEF ApprovalsOwn
  <2>4. CASE approval'[a] # approval[a]
    BY <1>0, <1>1, <2>1, <2>4, Shapes DEF Still, ApprovalsOwn, Claimed
  <2>. QED  BY <2>3, <2>4
<1>6. RequestsOwn'
  BY <1>0, <1>2, Shapes DEF Still, RequestsOwn
<1>7. RotationsOwn'
  BY <1>0, <1>1, <1>2, Shapes
  DEF Still, RotationsOwn, Renewing, Inv, ReplacesMinted, InRotation
<1>8. BoundOwn'
  BY <1>0, <1>1, Shapes DEF Still, BoundOwn
<1>. QED  BY <1>3, <1>4, <1>5, <1>6, <1>7, <1>8

(* What the other steps move. *)
Others(a) == \A b \in Approvals \ {a} : approval'[b] = approval[b]

Onward(a) ==
  /\ approval'[a].request = approval[a].request
  /\ approval'[a].user = approval[a].user

LEMMA MintMoves ==
  ASSUME Inv, NEW a \in Approvals, MintCredential(a)
  PROVE  /\ UNCHANGED <<requests, devices>> /\ Others(a) /\ Onward(a)
         /\ approval[a].pc = "mint" /\ approval'[a].pc = "claim"
         /\ approval'[a].device = approval[a].device
         /\ approval'[a].replaced = approval[a].replaced
         /\ \E t \in Tokens :
              /\ ~Minted(t) /\ approval'[a].token = t
              /\ \A u \in Tokens :
                   /\ credentials'[u].device = credentials[u].device
                   /\ credentials'[u].user =
                        IF u = t THEN approval[a].user ELSE credentials[u].user
<1>1. PICK t \in Tokens :
        /\ Mint(t, approval[a].user)
        /\ approval' = [approval EXCEPT ![a].pc = "claim", ![a].token = t]
  BY DEF MintCredential
<1>. QED
  BY <1>1, Shapes
  DEF MintCredential, Mint, Inv, ApprovalAt, Others, Onward, Approval, CredentialRow

LEMMA ClaimMoves ==
  ASSUME Inv, NEW a \in Approvals, ClaimRequest(a)
  PROVE  /\ UNCHANGED <<devices, credentials>> /\ Others(a) /\ Onward(a)
         /\ approval[a].pc = "claim"
         /\ approval'[a].token = approval[a].token
         /\ approval'[a].device = approval[a].device
         /\ approval'[a].replaced = approval[a].replaced
         /\ \A q \in Requests :
              /\ requests'[q].parked = requests[q].parked
              /\ requests'[q].collected = requests[q].collected
              /\ q # approval[a].request => requests'[q].approver = requests[q].approver
         /\ \/ /\ approval'[a].pc = "abandon"
               /\ requests' = requests
            \/ /\ approval'[a].pc \in {"find", "insert"}
               /\ requests[approval[a].request].approver = NoUser
               /\ requests'[approval[a].request].approver = approval[a].user
BY Shapes
DEF ClaimRequest, Inv, ApprovalAt, ApprovalTo, Others, Onward, Approval, RequestRow

LEMMA FindMoves ==
  ASSUME Inv, NEW a \in Approvals, FindDevice(a)
  PROVE  /\ UNCHANGED <<requests, devices, credentials>> /\ Others(a) /\ Onward(a)
         /\ approval[a].pc = "find"
         /\ approval'[a].token = approval[a].token
         /\ \/ /\ approval'[a].pc = "insert"
               /\ approval'[a].device = approval[a].device
               /\ approval'[a].replaced = approval[a].replaced
            \/ /\ approval'[a].pc = "point"
               /\ \E d \in Devices :
                    /\ LiveRow(d, approval[a].user, approval[a].request)
                    /\ approval'[a].device = d
                    /\ approval'[a].replaced = devices[d].credential
<1>. USE DEF tables
<1>0. approval \in [Approvals -> Approval]
  BY Shapes DEF Inv
<1>1. ASSUME approval' = [approval EXCEPT ![a].pc = "insert"]
      PROVE  /\ Others(a) /\ Onward(a)
             /\ approval'[a].pc = "insert"
             /\ approval'[a].token = approval[a].token
             /\ approval'[a].device = approval[a].device
             /\ approval'[a].replaced = approval[a].replaced
  BY <1>0, <1>1 DEF Others, Onward, Approval
<1>2. ASSUME NEW d \in Devices, LiveRow(d, approval[a].user, approval[a].request),
             approval' = [approval EXCEPT ![a].pc = "point", ![a].device = d,
                            ![a].replaced = devices[d].credential]
      PROVE  /\ UNCHANGED <<requests, devices, credentials>> /\ Others(a) /\ Onward(a)
             /\ approval[a].pc = "find"
             /\ approval'[a].token = approval[a].token
             /\ approval'[a].pc = "point"
             /\ approval'[a].device = d
             /\ approval'[a].replaced = devices[d].credential
  <2>. DEFINE old == approval[a]
              new == [old EXCEPT !.pc = "point", !.device = d,
                                 !.replaced = devices[d].credential]
  <2>1. old \in Approval /\ approval' = [approval EXCEPT ![a] = new]
    BY <1>0, <1>2
  <2>2. /\ new.pc = "point" /\ new.device = d
        /\ new.replaced = devices[d].credential
        /\ new.request = old.request /\ new.user = old.user /\ new.token = old.token
    BY <2>1 DEF Approval
  <2>3. approval'[a] = new /\ Others(a)
    <3>. HIDE DEF new
    <3>. QED  BY <1>0, <2>1 DEF Others
  <2>. QED  BY <2>2, <2>3 DEF FindDevice, ApprovalAt, Onward
<1>3. UNCHANGED <<requests, devices, credentials>> /\ approval[a].pc = "find"
  BY DEF FindDevice, ApprovalAt
<1>4. \/ approval' = [approval EXCEPT ![a].pc = "insert"]
      \/ \E d \in Devices :
           /\ LiveRow(d, approval[a].user, approval[a].request)
           /\ approval' = [approval EXCEPT ![a].pc = "point", ![a].device = d,
                             ![a].replaced = devices[d].credential]
  BY DEF FindDevice, ApprovalTo
<1>5. CASE approval' = [approval EXCEPT ![a].pc = "insert"]
  BY <1>1, <1>3, <1>5
<1>6. CASE \E d \in Devices :
             /\ LiveRow(d, approval[a].user, approval[a].request)
             /\ approval' = [approval EXCEPT ![a].pc = "point", ![a].device = d,
                               ![a].replaced = devices[d].credential]
  <2>1. PICK d \in Devices :
             /\ LiveRow(d, approval[a].user, approval[a].request)
             /\ approval' = [approval EXCEPT ![a].pc = "point", ![a].device = d,
                               ![a].replaced = devices[d].credential]
    BY <1>6
  <2>2. /\ Others(a) /\ Onward(a)
        /\ approval'[a].token = approval[a].token
        /\ approval'[a].pc = "point"
        /\ approval'[a].device = d
        /\ approval'[a].replaced = devices[d].credential
    BY <1>2, <2>1
  <2>. QED  BY <1>3, <2>1, <2>2
<1>. QED  BY <1>4, <1>5, <1>6

LEMMA PointMoves ==
  ASSUME Inv, NEW a \in Approvals, PointDevice(a)
  PROVE  /\ UNCHANGED <<requests, credentials>> /\ Others(a) /\ Onward(a)
         /\ approval[a].pc = "point" /\ approval'[a].pc = "bind"
         /\ approval'[a].token = approval[a].token
         /\ approval'[a].device = approval[a].device
         /\ approval'[a].replaced = approval[a].replaced
         /\ \A d \in Devices :
              /\ devices'[d].exists = devices[d].exists
              /\ devices'[d].user = devices[d].user
              /\ devices'[d].machine = devices[d].machine
              /\ devices'[d].credential = IF d = approval[a].device
                   THEN approval[a].token ELSE devices[d].credential
BY Shapes
DEF PointDevice, Inv, ApprovalAt, ApprovalTo, Others, Onward, Approval, DeviceRow

LEMMA InsertMoves ==
  ASSUME Inv, NEW a \in Approvals, InsertDevice(a)
  PROVE  /\ UNCHANGED <<requests, credentials>> /\ Others(a) /\ Onward(a)
         /\ approval[a].pc = "insert"
         /\ approval'[a].token = approval[a].token
         /\ approval'[a].replaced = approval[a].replaced
         /\ \/ /\ approval'[a].pc = "abandon"
               /\ devices' = devices
               /\ approval'[a].device = approval[a].device
            \/ /\ approval'[a].pc = "bind"
               /\ \E d \in Devices :
                    /\ ~devices[d].exists
                    /\ approval'[a].device = d
                    /\ devices'[d].exists /\ devices'[d].user = approval[a].user
                    /\ devices'[d].machine = MachineOf[approval[a].request]
                    /\ devices'[d].credential = approval[a].token
                    /\ \A e \in Devices \ {d} : devices'[e] = devices[e]
<1>0. approval \in [Approvals -> Approval] /\ devices \in [Devices -> DeviceRow]
  BY Shapes DEF Inv
<1>1. /\ UNCHANGED <<requests, credentials>>
      /\ approval[a].pc = "insert"
  BY DEF InsertDevice, ApprovalAt
<1>2. CASE ApprovalTo(a, "abandon") /\ devices' = devices
  <2>1. /\ Others(a) /\ Onward(a)
        /\ approval'[a].pc = "abandon"
        /\ approval'[a].token = approval[a].token
        /\ approval'[a].replaced = approval[a].replaced
        /\ approval'[a].device = approval[a].device
    BY <1>0, <1>2 DEF ApprovalTo, Others, Onward, Approval
  <2>. QED  BY <1>1, <1>2, <2>1
<1>3. ASSUME NEW d \in Devices, ~devices[d].exists,
             devices' = [devices EXCEPT ![d] =
                 [exists |-> TRUE, user |-> approval[a].user,
                  identified |-> approval[a].request \in Identified,
                  machine |-> MachineOf[approval[a].request],
                  credential |-> approval[a].token, revoked |-> FALSE]],
             approval' = [approval EXCEPT ![a].pc = "bind", ![a].device = d]
      PROVE  /\ Others(a) /\ Onward(a)
             /\ approval'[a].token = approval[a].token
             /\ approval'[a].replaced = approval[a].replaced
             /\ approval'[a].pc = "bind"
             /\ approval'[a].device = d
             /\ devices'[d].exists /\ devices'[d].user = approval[a].user
             /\ devices'[d].machine = MachineOf[approval[a].request]
             /\ devices'[d].credential = approval[a].token
             /\ \A e \in Devices \ {d} : devices'[e] = devices[e]
  <2>1. /\ Others(a) /\ Onward(a)
        /\ approval'[a].token = approval[a].token
        /\ approval'[a].replaced = approval[a].replaced
        /\ approval'[a].pc = "bind"
        /\ approval'[a].device = d
    BY <1>0, <1>3 DEF Others, Onward, Approval
  <2>2. PICK named : devices' = [devices EXCEPT ![d] =
                 [exists |-> TRUE, user |-> approval[a].user,
                  identified |-> named,
                  machine |-> MachineOf[approval[a].request],
                  credential |-> approval[a].token, revoked |-> FALSE]]
    BY <1>3
  <2>. QED  BY <1>0, <2>1, <2>2
<1>. QED  BY <1>1, <1>2, <1>3 DEF InsertDevice

LEMMA BindMoves ==
  ASSUME Inv, NEW a \in Approvals, BindCredential(a)
  PROVE  /\ UNCHANGED <<requests, devices>> /\ Others(a) /\ Onward(a)
         /\ approval[a].pc = "bind" /\ approval'[a].pc = "park"
         /\ approval'[a].token = approval[a].token
         /\ approval'[a].device = approval[a].device
         /\ approval'[a].replaced = approval[a].replaced
         /\ \A t \in Tokens :
              /\ credentials'[t].user = credentials[t].user
              /\ credentials'[t].device = IF t = approval[a].token
                   THEN approval[a].device ELSE credentials[t].device
BY Shapes
DEF BindCredential, Inv, ApprovalAt, ApprovalTo, Others, Onward, Approval, CredentialRow

LEMMA ParkMoves ==
  ASSUME Inv, NEW a \in Approvals, ParkToken(a)
  PROVE  /\ UNCHANGED <<devices, credentials>> /\ Others(a)
         /\ approval[a].pc = "park"
         /\ \A q \in Requests :
              /\ requests'[q].collected = requests[q].collected
              /\ requests'[q].approver = requests[q].approver
              /\ requests'[q].parked = IF q = approval[a].request
                   THEN approval[a].token ELSE requests[q].parked
         /\ \/ approval'[a] = IdleApproval
            \/ /\ approval'[a].pc = "retire" /\ Onward(a)
               /\ approval[a].replaced \notin {NoToken, approval[a].token}
               /\ approval'[a].token = approval[a].token
               /\ approval'[a].device = approval[a].device
               /\ approval'[a].replaced = approval[a].replaced
BY Shapes
DEF ParkToken, Inv, ApprovalAt, ApprovalTo, ApprovalEnds, Others, Onward, Approval,
    RequestRow

LEMMA ReadMoves ==
  ASSUME Inv, NEW p \in Polls, ReadRequest(p)
  PROVE  /\ UNCHANGED <<requests, handed>>
         /\ poll[p].pc = "idle" /\ poll'[p].pc = "claim"
         /\ \A o \in Polls \ {p} : poll'[o] = poll[o]
         /\ poll'[p].request \in Requests
         /\ poll'[p].token = requests[poll'[p].request].parked
         /\ poll'[p].token \in Tokens
         /\ ~requests[poll'[p].request].collected
BY Shapes DEF ReadRequest, Inv, Approvable, Poll

(* Only what is parked is collected, and it is cleared as it goes. *)
LEMMA CollectMoves ==
  ASSUME Inv, NEW p \in Polls, Collect(p)
  PROVE  /\ poll[p].pc = "claim"
         /\ \A o \in Polls \ {p} : poll'[o] = poll[o]
         /\ \/ /\ UNCHANGED <<requests, handed>>
               /\ requests[poll[p].request].collected
               /\ poll'[p] = IdlePoll
            \/ /\ ~requests[poll[p].request].collected
               /\ poll'[p].pc = "respond"
               /\ poll'[p].request = poll[p].request
               /\ poll'[p].token = poll[p].token
               /\ poll[p].token = requests[poll[p].request].parked
               /\ poll[p].token \in Tokens
               /\ \A q \in Requests :
                    /\ requests'[q].approver = requests[q].approver
                    /\ requests'[q].parked =
                         IF q = poll[p].request THEN NoToken ELSE requests[q].parked
                    /\ requests'[q].collected <=>
                         q = poll[p].request \/ requests[q].collected
               /\ \A t \in Tokens :
                    handed'[t] = IF t = poll[p].token THEN handed[t] + 1 ELSE handed[t]
<1>1. CASE requests[poll[p].request].collected
  BY <1>1, Shapes DEF Collect, Inv
<1>2. CASE ~requests[poll[p].request].collected
  <2>1. /\ poll[p].pc = "claim"
        /\ poll[p].token \in Tokens
        /\ poll[p].token = requests[poll[p].request].parked
        /\ handed \in [Tokens -> Nat]
    BY <1>2, Rows DEF Collect, Inv, PollsCurrent
  <2>2. /\ requests' = [requests EXCEPT ![poll[p].request].collected = TRUE,
                                       ![poll[p].request].parked = NoToken]
        /\ poll' = [poll EXCEPT ![p].pc = "respond"]
        /\ handed' = [handed EXCEPT ![poll[p].token] = @ + 1]
    BY <1>2 DEF Collect, HandOut
  <2>3. /\ requests \in [Requests -> RequestRow] /\ poll \in [Polls -> Poll]
        /\ poll[p].request \in Requests
    BY Shapes DEF Inv
  <2>4. \A q \in Requests :
          /\ requests'[q].approver = requests[q].approver
          /\ requests'[q].parked =
               IF q = poll[p].request THEN NoToken ELSE requests[q].parked
          /\ requests'[q].collected =
               IF q = poll[p].request THEN TRUE ELSE requests[q].collected
    BY <2>2, <2>3 DEF RequestRow
  <2>5. /\ poll'[p].pc = "respond"
        /\ poll'[p].request = poll[p].request
        /\ poll'[p].token = poll[p].token
        /\ \A o \in Polls \ {p} : poll'[o] = poll[o]
    BY <2>2, <2>3 DEF Poll
  <2>. QED
    BY <1>2, <2>1, <2>2, <2>4, <2>5
<1>. QED  BY <1>1, <1>2

LEMMA DeliverMoves ==
  ASSUME Inv, NEW p \in Polls, Deliver(p)
  PROVE  /\ UNCHANGED <<requests, handed>>
         /\ poll[p].pc = "respond" /\ poll'[p] = IdlePoll
         /\ \A o \in Polls \ {p} : poll'[o] = poll[o]
         /\ \A m \in Machines : held'[m] =
              IF m = MachineOf[poll[p].request] THEN poll[p].token ELSE held[m]
BY Shapes, Rows, DeviceAssumption DEF Deliver, Inv

LEMMA AuthenticateMoves ==
  ASSUME Inv, NEW r \in Rotations, Authenticate(r)
  PROVE  /\ UNCHANGED <<requests, devices, credentials, held, handed>>
         /\ \A s \in Rotations \ {r} : rotation'[s] = rotation[s]
         /\ rotation'[r].pc = "create"
         /\ rotation'[r].machine \in Machines
         /\ rotation'[r].old = held[rotation'[r].machine]
         /\ rotation'[r].old \in Tokens
         /\ rotation'[r].new = NoToken
         /\ rotation'[r].device = NoDevice
BY Shapes, Rows DEF Authenticate, Inv, IdleRotation, tables

Along(r) ==
  /\ rotation'[r].machine = rotation[r].machine
  /\ rotation'[r].old = rotation[r].old
  /\ \A s \in Rotations \ {r} : rotation'[s] = rotation[s]

LEMMA CreateMoves ==
  ASSUME Inv, NEW r \in Rotations, CreateReplacement(r)
  PROVE  /\ UNCHANGED <<requests, devices, held, handed>> /\ Along(r)
         /\ rotation[r].pc = "create" /\ rotation'[r].pc = "retire"
         /\ rotation'[r].device = rotation[r].device
         /\ \E t \in Tokens :
              /\ ~Minted(t) /\ rotation'[r].new = t
              /\ \A u \in Tokens :
                   /\ credentials'[u].device = credentials[u].device
                   /\ credentials'[u].user = IF u = t
                        THEN credentials[rotation[r].old].user ELSE credentials[u].user
<1>1. PICK t \in Tokens :
        /\ Mint(t, credentials[rotation[r].old].user)
        /\ rotation' = [rotation EXCEPT ![r].pc = "retire", ![r].new = t]
  BY DEF CreateReplacement
<1>. QED
  BY <1>1, Shapes
  DEF CreateReplacement, Mint, Inv, RotationAt, Along, Rotation, CredentialRow

LEMMA ReadBindingMoves ==
  ASSUME Inv, NEW r \in Rotations, ReadBinding(r)
  PROVE  /\ UNCHANGED <<requests, devices, credentials, held, handed>> /\ Along(r)
         /\ rotation[r].pc = "read" /\ rotation'[r].pc \in {"respond", "bind"}
         /\ rotation'[r].new = rotation[r].new
         /\ rotation'[r].device = credentials[rotation[r].old].device
<1>1. PICK pc \in {"respond", "bind"} :
        rotation' = [rotation EXCEPT ![r].device = credentials[rotation[r].old].device,
                                     ![r].pc = pc]
  BY DEF ReadBinding
<1>. QED
  BY <1>1, Shapes DEF ReadBinding, Inv, RotationAt, Along, Rotation, tables

LEMMA BindReplacementMoves ==
  ASSUME Inv, NEW r \in Rotations, BindReplacement(r)
  PROVE  /\ UNCHANGED <<requests, devices, held, handed>> /\ Along(r)
         /\ rotation[r].pc = "bind" /\ rotation'[r].pc = "point"
         /\ rotation'[r].new = rotation[r].new
         /\ rotation'[r].device = rotation[r].device
         /\ \A t \in Tokens :
              /\ credentials'[t].user = credentials[t].user
              /\ credentials'[t].device = IF t = rotation[r].new
                   THEN rotation[r].device ELSE credentials[t].device
BY Shapes
DEF BindReplacement, Inv, RotationAt, RotationTo, Along, Rotation, CredentialRow

LEMMA RepointMoves ==
  ASSUME Inv, NEW r \in Rotations, RepointDevice(r)
  PROVE  /\ UNCHANGED <<requests, credentials, held, handed>> /\ Along(r)
         /\ rotation[r].pc = "point" /\ rotation'[r].pc = "respond"
         /\ rotation'[r].new = rotation[r].new
         /\ rotation'[r].device = rotation[r].device
         /\ \A d \in Devices :
              /\ devices'[d].exists = devices[d].exists
              /\ devices'[d].user = devices[d].user
              /\ devices'[d].machine = devices[d].machine
              /\ devices'[d].credential = IF d = rotation[r].device
                   THEN rotation[r].new ELSE devices[d].credential
BY Shapes
DEF RepointDevice, Inv, RotationAt, RotationTo, Along, Rotation, DeviceRow

LEMMA SaveMoves ==
  ASSUME Inv, NEW r \in Rotations, SaveReplacement(r)
  PROVE  /\ UNCHANGED <<requests, devices, credentials>>
         /\ rotation[r].pc = "respond" /\ rotation'[r] = IdleRotation
         /\ \A s \in Rotations \ {r} : rotation'[s] = rotation[s]
         /\ \A t \in Tokens :
              handed'[t] = IF t = rotation[r].new THEN handed[t] + 1 ELSE handed[t]
         /\ \A m \in Machines : held'[m] =
              IF m = rotation[r].machine THEN rotation[r].new ELSE held[m]
BY Shapes, Rows DEF SaveReplacement, Inv, HandOut, RotationAt, RotationEnds, tables

(* A token that is minted only now is nowhere yet; one that a call carries *)
(* is nowhere else.                                                        *)
LEMMA FreshApart ==
  ASSUME Inv, OwnInv, NEW t \in Tokens, ~Minted(t)
  PROVE  /\ \A a \in Approvals : approval[a].token # t
         /\ \A p \in Polls : poll[p].token # t
         /\ \A q \in Requests : requests[q].parked # t
         /\ \A r \in Rotations : rotation[r].new # t
         /\ \A r \in Rotations : rotation[r].pc # "idle" => rotation[r].old # t
         /\ credentials[t].device = NoDevice
<1>0. t # NoToken /\ credentials[t].user = NoUser
  BY DeviceAssumption DEF Minted
<1>1. \A a \in Approvals : approval[a].token # t
  BY <1>0, Shapes, DeviceAssumption DEF Inv, OwnInv, ApprovalsOwn
<1>2. \A q \in Requests : requests[q].parked # t
  BY <1>0 DEF Inv, OnRequest
<1>3. \A p \in Polls : poll[p].token # t
  BY <1>0 DEF Inv, PollsCurrent, OwnInv, EmptyHands
<1>4. \A r \in Rotations : /\ rotation[r].new # t
                           /\ rotation[r].pc # "idle" => rotation[r].old # t
  BY <1>0 DEF Inv, InRotation, ReplacesMinted, OwnInv, EmptyHands
<1>5. credentials[t].device = NoDevice
  BY <1>0 DEF OwnInv, BoundOwn, OwnRow
<1>. QED  BY <1>1, <1>2, <1>3, <1>4, <1>5

LEMMA CarriedApart ==
  ASSUME Inv, OwnInv, NEW a \in Approvals, Carries(a)
  PROVE  /\ approval[a].token \in Tokens
         /\ \A b \in Approvals \ {a} : approval[b].token # approval[a].token
         /\ \A p \in Polls : poll[p].token # approval[a].token
         /\ \A q \in Requests : requests[q].parked # approval[a].token
         /\ \A r \in Rotations : rotation[r].new # approval[a].token
         /\ \A r \in Rotations :
              rotation[r].pc # "idle" => rotation[r].old # approval[a].token
         /\ \A m \in Machines : held[m] # approval[a].token
<1>0. /\ approval[a].token \in Tokens /\ approval[a].token # NoToken
      /\ handed[approval[a].token] = 0
      /\ ~(handed[approval[a].token] > 0)
      /\ \A q \in Requests : requests[q].parked # approval[a].token
  BY DeviceAssumption DEF Inv, InApproval
<1>1. ASSUME NEW b \in Approvals \ {a} PROVE approval[b].token # approval[a].token
  <2>1. CASE Carries(b)
    BY <2>1 DEF Inv, InApproval
  <2>2. CASE approval[b].pc = "retire"
    BY <1>0, <2>2, Shapes DEF Inv, OwnInv, Delivered
  <2>3. CASE ~Carries(b) /\ approval[b].pc # "retire"
    BY <1>0, <2>3 DEF OwnInv, EmptyHands
  <2>. QED  BY <2>1, <2>2, <2>3
<1>2. ASSUME NEW p \in Polls PROVE poll[p].token # approval[a].token
  <2>1. CASE poll[p].pc = "idle"
    BY <1>0, <2>1 DEF OwnInv, EmptyHands
  <2>2. CASE poll[p].pc = "respond"
    BY <1>0, <2>2 DEF OwnInv, Delivered
  <2>3. CASE poll[p].pc = "claim"
    BY <1>0, <2>3, Shapes DEF Inv, PollsCurrent, OwnInv, Delivered
  <2>4. poll[p].pc \in {"idle", "claim", "respond"}
    BY Shapes DEF Inv, Poll
  <2>. QED  BY <2>1, <2>2, <2>3, <2>4
<1>3. \A r \in Rotations : /\ rotation[r].new # approval[a].token
                           /\ rotation[r].pc # "idle" => rotation[r].old # approval[a].token
  BY <1>0 DEF Inv, InApproval, OwnInv, EmptyHands, Delivered
<1>4. \A m \in Machines : held[m] # approval[a].token
  BY <1>0 DEF OwnInv, Delivered
<1>. QED  BY <1>0, <1>1, <1>2, <1>3, <1>4

LEMMA RenewedApart ==
  ASSUME Inv, OwnInv, NEW r \in Rotations, Renewing(r)
  PROVE  /\ rotation[r].new \in Tokens
         /\ \A a \in Approvals : approval[a].token # rotation[r].new
         /\ \A p \in Polls : poll[p].token # rotation[r].new
         /\ \A q \in Requests : requests[q].parked # rotation[r].new
         /\ \A s \in Rotations \ {r} : rotation[s].new # rotation[r].new
         /\ \A s \in Rotations :
              rotation[s].pc # "idle" => rotation[s].old # rotation[r].new
         /\ \A m \in Machines : held[m] # rotation[r].new
<1>0. /\ rotation[r].new \in Tokens /\ rotation[r].new # NoToken
      /\ handed[rotation[r].new] = 0
      /\ ~(handed[rotation[r].new] > 0)
      /\ \A q \in Requests : requests[q].parked # rotation[r].new
  BY DeviceAssumption DEF Inv, InRotation
<1>1. ASSUME NEW a \in Approvals PROVE approval[a].token # rotation[r].new
  <2>1. CASE Carries(a)
    BY <2>1 DEF Inv, InApproval
  <2>2. CASE approval[a].pc = "retire"
    BY <1>0, <2>2, Shapes DEF Inv, OwnInv, Delivered
  <2>3. CASE ~Carries(a) /\ approval[a].pc # "retire"
    BY <1>0, <2>3 DEF OwnInv, EmptyHands
  <2>. QED  BY <2>1, <2>2, <2>3
<1>2. ASSUME NEW p \in Polls PROVE poll[p].token # rotation[r].new
  <2>1. CASE poll[p].pc = "idle"
    BY <1>0, <2>1 DEF OwnInv, EmptyHands
  <2>2. CASE poll[p].pc = "respond"
    BY <1>0, <2>2 DEF OwnInv, Delivered
  <2>3. CASE poll[p].pc = "claim"
    BY <1>0, <2>3, Shapes DEF Inv, PollsCurrent, OwnInv, Delivered
  <2>4. poll[p].pc \in {"idle", "claim", "respond"}
    BY Shapes DEF Inv, Poll
  <2>. QED  BY <2>1, <2>2, <2>3, <2>4
<1>3. \A s \in Rotations : rotation[s].pc # "idle" => rotation[s].old # rotation[r].new
  BY <1>0 DEF OwnInv, Delivered
<1>4. \A s \in Rotations \ {r} : rotation[s].new # rotation[r].new
  BY <1>0 DEF Inv, InRotation, OwnInv, EmptyHands
<1>5. \A m \in Machines : held[m] # rotation[r].new
  BY <1>0 DEF OwnInv, Delivered
<1>. QED  BY <1>0, <1>1, <1>2, <1>3, <1>4, <1>5

(* What a call still needs is there. *)
LEMMA Real ==
  ASSUME Inv
  PROVE  /\ \A a \in Approvals : approval[a].pc = "park" => approval[a].token \in Tokens
         /\ \A r \in Rotations :
              Renewing(r) => rotation[r].new \in Tokens /\ rotation[r].old \in Tokens
         /\ \A r \in Rotations : rotation[r].pc # "idle" => rotation[r].old \in Tokens
         /\ \A p \in Polls : poll[p].pc # "idle" => poll[p].token \in Tokens
BY DEF Inv, InApproval, InRotation, ReplacesMinted, PollsCurrent, Carries, Claimed,
       Renewing

LEMMA MintOwn ==
  ASSUME Inv, OwnInv, Inv', NEW a \in Approvals, MintCredential(a),
         UNCHANGED <<held, poll, handed, rotation, revocation>>
  PROVE  OwnInv'
<1>. USE DEF OwnInv
<1>0. TypeOK /\ TypeOK'
  BY DEF Inv
<1>b. \A d, u : OwnRow(d, u) => OwnRow(d, u)'
  BY <1>0, MintMoves, Shapes DEF OwnRow
<1>c. PICK t \in Tokens :
        /\ ~Minted(t) /\ approval'[a].token = t
        /\ \A u \in Tokens :
             /\ credentials'[u].device = credentials[u].device
             /\ credentials'[u].user =
                  IF u = t THEN approval[a].user ELSE credentials[u].user
  BY MintMoves
<1>d. /\ \A b \in Approvals : approval[b].token # t
      /\ \A p \in Polls : poll[p].token # t
      /\ \A q \in Requests : requests[q].parked # t
      /\ \A r \in Rotations : rotation[r].new # t
      /\ \A r \in Rotations : rotation[r].pc # "idle" => rotation[r].old # t
      /\ credentials[t].device = NoDevice
  BY <1>c, FreshApart
<1>1. EmptyHands'
  BY <1>0, MintMoves, Shapes DEF EmptyHands, Others, Onward, Carries, Renewing, Claimed
<1>2. Delivered'
  BY <1>0, MintMoves, Shapes, Rows DEF Delivered, Others, Onward, Claimed
<1>3. ApprovalsOwn'
  BY <1>0, <1>b, <1>c, <1>d, MintMoves, Real, Shapes
  DEF ApprovalsOwn, Others, Onward, Claimed
<1>4. RequestsOwn'
  BY <1>0, <1>c, <1>d, MintMoves, Shapes DEF RequestsOwn
<1>5. RotationsOwn'
  BY <1>0, <1>b, <1>c, <1>d, MintMoves, Real, Shapes DEF RotationsOwn, Renewing
<1>6. BoundOwn'
  BY <1>0, <1>b, <1>c, <1>d, Shapes DEF BoundOwn
<1>. QED  BY <1>1, <1>2, <1>3, <1>4, <1>5, <1>6

LEMMA ClaimOwn ==
  ASSUME Inv, OwnInv, Inv', NEW a \in Approvals, ClaimRequest(a),
         UNCHANGED <<held, poll, handed, rotation, revocation>>
  PROVE  OwnInv'
<1>. USE DEF OwnInv
<1>0. TypeOK /\ TypeOK'
  BY DEF Inv
<1>b. \A d, u : OwnRow(d, u) => OwnRow(d, u)'
  BY <1>0, ClaimMoves, Shapes DEF OwnRow
<1>1. EmptyHands'
  BY <1>0, ClaimMoves, Shapes DEF EmptyHands, Others, Onward, Carries, Renewing, Claimed
<1>2. Delivered'
  <2>1. \A m \in Machines : held'[m] # NoToken => handed'[held'[m]] > 0
    BY <1>0, ClaimMoves, Shapes DEF Delivered
  <2>2. \A s \in Rotations : rotation'[s].pc # "idle" => handed'[rotation'[s].old] > 0
    BY <1>0, ClaimMoves, Shapes DEF Delivered, Along
  <2>3. \A o \in Polls :
          (\/ poll'[o].pc = "respond"
           \/ poll'[o].pc = "claim" /\ requests'[poll'[o].request].collected)
            => handed'[poll'[o].token] > 0
    BY <1>0, ClaimMoves, Shapes DEF Delivered
  <2>4. \A b \in Approvals : approval'[b].pc = "retire" =>
          /\ approval'[b].token \in Tokens
          /\ \/ requests'[approval'[b].request].parked = approval'[b].token
             \/ handed'[approval'[b].token] > 0
    BY <1>0, ClaimMoves, Shapes DEF Delivered, Others, Onward
  <2>. QED  BY <2>1, <2>2, <2>3, <2>4 DEF Delivered
<1>3. ApprovalsOwn'
  BY <1>0, <1>b, ClaimMoves, Shapes
  DEF ApprovalsOwn, Others, Onward, Claimed, Inv, ClaimedAlone
<1>4. RequestsOwn'
  BY <1>0, ClaimMoves, Shapes DEF RequestsOwn, Inv, ClaimedAlone
<1>5. RotationsOwn'
  BY <1>0, <1>b, ClaimMoves, Shapes DEF RotationsOwn, Others, Onward, Renewing
<1>6. BoundOwn'
  BY <1>0, <1>b, ClaimMoves, Shapes DEF BoundOwn, Others, Onward
<1>. QED  BY <1>1, <1>2, <1>3, <1>4, <1>5, <1>6

LEMMA FindOwn ==
  ASSUME Inv, OwnInv, Inv', NEW a \in Approvals, FindDevice(a),
         UNCHANGED <<held, poll, handed, rotation, revocation>>
  PROVE  OwnInv'
<1>. USE DEF OwnInv
<1>0. TypeOK /\ TypeOK'
  BY DEF Inv
<1>b. \A d, u : OwnRow(d, u) => OwnRow(d, u)'
  BY <1>0, FindMoves, Shapes DEF OwnRow
<1>1. EmptyHands'
  BY <1>0, FindMoves, Shapes DEF EmptyHands, Others, Onward, Carries, Renewing, Claimed
<1>2. Delivered'
  BY <1>0, FindMoves, Shapes, Rows DEF Delivered, Others, Onward, Claimed
<1>3. ApprovalsOwn'
  BY <1>0, <1>b, FindMoves, Shapes, DeviceAssumption
  DEF ApprovalsOwn, Others, Onward, Claimed, OwnRow, LiveRow
<1>4. RequestsOwn'
  BY <1>0, FindMoves, Shapes DEF RequestsOwn, Others, Onward
<1>5. RotationsOwn'
  BY <1>0, <1>b, FindMoves, Shapes DEF RotationsOwn, Others, Onward, Renewing
<1>6. BoundOwn'
  BY <1>0, <1>b, FindMoves, Shapes DEF BoundOwn, Others, Onward
<1>. QED  BY <1>1, <1>2, <1>3, <1>4, <1>5, <1>6

LEMMA PointOwn ==
  ASSUME Inv, OwnInv, Inv', NEW a \in Approvals, PointDevice(a),
         UNCHANGED <<held, poll, handed, rotation, revocation>>
  PROVE  OwnInv'
<1>. USE DEF OwnInv
<1>0. TypeOK /\ TypeOK'
  BY DEF Inv
<1>b. \A d, u : OwnRow(d, u) => OwnRow(d, u)'
  BY <1>0, PointMoves, Shapes DEF OwnRow
<1>1. EmptyHands'
  BY <1>0, PointMoves, Shapes DEF EmptyHands, Others, Onward, Carries, Renewing, Claimed
<1>2. Delivered'
  BY <1>0, PointMoves, Shapes, Rows DEF Delivered, Others, Onward, Claimed
<1>3. ApprovalsOwn'
  BY <1>0, <1>b, PointMoves, Shapes DEF ApprovalsOwn, Others, Onward, Claimed
<1>4. RequestsOwn'
  BY <1>0, PointMoves, Shapes DEF RequestsOwn, Others, Onward
<1>5. RotationsOwn'
  BY <1>0, <1>b, PointMoves, Shapes DEF RotationsOwn, Others, Onward, Renewing
<1>6. BoundOwn'
  BY <1>0, <1>b, PointMoves, Shapes DEF BoundOwn, Others, Onward
<1>. QED  BY <1>1, <1>2, <1>3, <1>4, <1>5, <1>6

LEMMA InsertOwn ==
  ASSUME Inv, OwnInv, Inv', NEW a \in Approvals, InsertDevice(a),
         UNCHANGED <<held, poll, handed, rotation, revocation>>
  PROVE  OwnInv'
<1>. USE DEF OwnInv
<1>0. TypeOK /\ TypeOK'
  BY DEF Inv
<1>b. \A d, u : OwnRow(d, u) => OwnRow(d, u)'
  BY <1>0, InsertMoves, Shapes, DeviceAssumption DEF OwnRow
<1>1. EmptyHands'
  BY <1>0, InsertMoves, Shapes
  DEF EmptyHands, Others, Onward, Carries, Renewing, Claimed
<1>2. Delivered'
  BY <1>0, InsertMoves, Shapes, Rows DEF Delivered, Others, Onward, Claimed
<1>3. ApprovalsOwn'
  BY <1>0, <1>b, InsertMoves, Shapes, DeviceAssumption
  DEF ApprovalsOwn, Others, Onward, Claimed, OwnRow
<1>4. RequestsOwn'
  BY <1>0, InsertMoves, Shapes DEF RequestsOwn, Others, Onward
<1>5. RotationsOwn'
  BY <1>0, <1>b, InsertMoves, Shapes DEF RotationsOwn, Others, Onward, Renewing
<1>6. BoundOwn'
  BY <1>0, <1>b, InsertMoves, Shapes DEF BoundOwn, Others, Onward
<1>. QED  BY <1>1, <1>2, <1>3, <1>4, <1>5, <1>6

LEMMA BindOwn ==
  ASSUME Inv, OwnInv, Inv', NEW a \in Approvals, BindCredential(a),
         UNCHANGED <<held, poll, handed, rotation, revocation>>
  PROVE  OwnInv'
<1>. USE DEF OwnInv
<1>0. TypeOK /\ TypeOK'
  BY DEF Inv
<1>b. \A d, u : OwnRow(d, u) => OwnRow(d, u)'
  BY <1>0, BindMoves, Shapes DEF OwnRow
<1>c. /\ approval[a].token \in Tokens
      /\ \A b \in Approvals \ {a} : approval[b].token # approval[a].token
      /\ \A p \in Polls : poll[p].token # approval[a].token
      /\ \A q \in Requests : requests[q].parked # approval[a].token
      /\ \A r \in Rotations : rotation[r].new # approval[a].token
      /\ \A r \in Rotations :
           rotation[r].pc # "idle" => rotation[r].old # approval[a].token
  <2>1. Carries(a)
    BY BindMoves DEF Carries, Claimed
  <2>. QED  BY <2>1, CarriedApart
<1>1. EmptyHands'
  BY <1>0, BindMoves, Shapes DEF EmptyHands, Others, Onward, Carries, Renewing, Claimed
<1>2. Delivered'
  BY <1>0, BindMoves, Shapes, Rows DEF Delivered, Others, Onward, Claimed
<1>3. ApprovalsOwn'
  BY <1>0, <1>b, <1>c, BindMoves, Real, Shapes DEF ApprovalsOwn, Others, Onward, Claimed
<1>4. RequestsOwn'
  BY <1>0, <1>c, BindMoves, Shapes DEF RequestsOwn
<1>5. RotationsOwn'
  BY <1>0, <1>b, <1>c, BindMoves, Real, Shapes DEF RotationsOwn, Renewing
<1>6. BoundOwn'
  <2>1. /\ OwnRow(approval[a].device, approval[a].user)
        /\ credentials[approval[a].token].user = approval[a].user
    BY <1>c, BindMoves, DeviceAssumption DEF ApprovalsOwn
  <2>. QED  BY <1>b, <2>1, BindMoves DEF BoundOwn
<1>. QED  BY <1>1, <1>2, <1>3, <1>4, <1>5, <1>6

LEMMA ParkOwn ==
  ASSUME Inv, OwnInv, Inv', NEW a \in Approvals, ParkToken(a),
         UNCHANGED <<held, poll, handed, rotation, revocation>>
  PROVE  OwnInv'
<1>. USE DEF OwnInv
<1>0. TypeOK /\ TypeOK'
  BY DEF Inv
<1>a. /\ IdleApproval.pc = "idle" /\ IdleApproval.token = NoToken
      /\ IdleApproval.device = NoDevice
  BY DEF IdleApproval
<1>b. \A d, u : OwnRow(d, u) => OwnRow(d, u)'
  BY <1>0, ParkMoves, Shapes DEF OwnRow
<1>c. /\ approval[a].token \in Tokens
      /\ \A b \in Approvals \ {a} : approval[b].token # approval[a].token
      /\ \A p \in Polls : poll[p].token # approval[a].token
      /\ \A q \in Requests : requests[q].parked # approval[a].token
      /\ \A r \in Rotations : rotation[r].new # approval[a].token
      /\ \A r \in Rotations :
           rotation[r].pc # "idle" => rotation[r].old # approval[a].token
  <2>1. Carries(a)
    BY ParkMoves DEF Carries, Claimed
  <2>. QED  BY <2>1, CarriedApart
<1>d. requests[approval[a].request].parked = NoToken /\ NoToken \notin Tokens
  BY ParkMoves, DeviceAssumption DEF Inv, ClaimedAlone, Claimed
<1>1. EmptyHands'
  BY <1>0, <1>a, ParkMoves, Shapes
  DEF EmptyHands, Others, Onward, Carries, Renewing, Claimed
<1>2. Delivered'
  <2>1. \A m \in Machines : held'[m] # NoToken => handed'[held'[m]] > 0
    BY <1>0, <1>c, ParkMoves, Shapes DEF Delivered
  <2>2. \A s \in Rotations : rotation'[s].pc # "idle" => handed'[rotation'[s].old] > 0
    BY <1>0, <1>c, ParkMoves, Shapes DEF Delivered, Along
  <2>3. \A o \in Polls :
          (\/ poll'[o].pc = "respond"
           \/ poll'[o].pc = "claim" /\ requests'[poll'[o].request].collected)
            => handed'[poll'[o].token] > 0
    BY <1>0, <1>c, ParkMoves, Shapes DEF Delivered
  <2>4. \A b \in Approvals : approval'[b].pc = "retire" =>
          /\ approval'[b].token \in Tokens
          /\ \/ requests'[approval'[b].request].parked = approval'[b].token
             \/ handed'[approval'[b].token] > 0
    BY <1>0, <1>a, <1>c, <1>d, ParkMoves, Shapes DEF Delivered, Others, Onward
  <2>. QED  BY <2>1, <2>2, <2>3, <2>4 DEF Delivered
<1>3. ApprovalsOwn'
  BY <1>0, <1>a, <1>b, ParkMoves, Shapes DEF ApprovalsOwn, Others, Onward, Claimed
<1>4. RequestsOwn'
  <2>1. /\ credentials[approval[a].token].user = approval[a].user
        /\ requests[approval[a].request].approver = approval[a].user
        /\ credentials[approval[a].token].device # NoDevice
    BY <1>c, ParkMoves, DeviceAssumption DEF ApprovalsOwn, Claimed
  <2>. QED  BY <1>0, <2>1, ParkMoves, Shapes DEF RequestsOwn
<1>5. RotationsOwn'
  BY <1>0, <1>a, <1>b, ParkMoves, Shapes DEF RotationsOwn, Others, Onward, Renewing
<1>6. BoundOwn'
  BY <1>0, <1>a, <1>b, ParkMoves, Shapes DEF BoundOwn, Others, Onward
<1>. QED  BY <1>1, <1>2, <1>3, <1>4, <1>5, <1>6

LEMMA ReadOwn ==
  ASSUME Inv, OwnInv, Inv', NEW p \in Polls, ReadRequest(p), UNCHANGED held,
         UNCHANGED <<devices, credentials, approval, rotation, revocation>>
  PROVE  OwnInv'
<1>. USE DEF OwnInv
<1>0. TypeOK /\ TypeOK'
  BY DEF Inv
<1>b. \A d, u : OwnRow(d, u) => OwnRow(d, u)'
  BY <1>0, ReadMoves, Shapes DEF OwnRow
<1>1. EmptyHands'
  BY <1>0, ReadMoves, Shapes DEF EmptyHands, Carries, Renewing, Claimed
<1>2. Delivered'
  BY <1>0, ReadMoves, Shapes, Rows DEF Delivered, Claimed
<1>3. ApprovalsOwn'
  BY <1>0, <1>b, ReadMoves, Shapes DEF ApprovalsOwn, Claimed
<1>4. RequestsOwn'
  BY <1>0, ReadMoves, Shapes DEF RequestsOwn
<1>5. RotationsOwn'
  BY <1>0, <1>b, ReadMoves, Shapes DEF RotationsOwn, Renewing
<1>6. BoundOwn'
  BY <1>0, <1>b, ReadMoves, Shapes DEF BoundOwn
<1>. QED  BY <1>1, <1>2, <1>3, <1>4, <1>5, <1>6

LEMMA CollectOwn ==
  ASSUME Inv, OwnInv, Inv', NEW p \in Polls, Collect(p), UNCHANGED held,
         UNCHANGED <<devices, credentials, approval, rotation, revocation>>
  PROVE  OwnInv'
<1>. USE DEF OwnInv
<1>0. TypeOK /\ TypeOK'
  BY DEF Inv
<1>a. /\ IdlePoll.pc = "idle" /\ IdlePoll.token = NoToken
  BY DEF IdlePoll
<1>b. \A d, u : OwnRow(d, u) => OwnRow(d, u)'
  BY <1>0, CollectMoves, Shapes DEF OwnRow
<1>1. EmptyHands'
  BY <1>0, <1>a, CollectMoves, Shapes DEF EmptyHands, Carries, Renewing, Claimed
<1>2. Delivered'
  <2>1. CASE UNCHANGED <<requests, handed>> /\ poll'[p] = IdlePoll
    BY <1>0, <1>a, <2>1, CollectMoves, Shapes DEF Delivered
  <2>2. CASE ~requests[poll[p].request].collected
    <3>1. /\ \A t \in Tokens :
               handed'[t] = IF t = poll[p].token THEN handed[t] + 1 ELSE handed[t]
          /\ handed \in [Tokens -> Nat]
          /\ poll[p].token \in Tokens
          /\ poll[p].token = requests[poll[p].request].parked
          /\ poll'[p].request = poll[p].request /\ poll'[p].token = poll[p].token
      BY <1>0, <2>2, CollectMoves, Rows
    <3>2. \A q \in Requests :
            /\ requests'[q].parked =
                 IF q = poll[p].request THEN NoToken ELSE requests[q].parked
            /\ requests'[q].collected <=>
                 q = poll[p].request \/ requests[q].collected
      BY <2>2, CollectMoves
    <3>3. /\ \A t \in Tokens : handed[t] > 0 => handed'[t] > 0
          /\ handed'[poll[p].token] > 0
      BY <3>1
    <3>4. \A m \in Machines : held[m] # NoToken => held[m] \in Tokens
      BY <1>0, Rows
    <3>5. \A o \in Polls :
            (\/ poll'[o].pc = "respond"
             \/ poll'[o].pc = "claim" /\ requests'[poll'[o].request].collected)
              => handed'[poll'[o].token] > 0
      <4>. SUFFICES ASSUME NEW o \in Polls
                    PROVE  (\/ poll'[o].pc = "respond"
                            \/ poll'[o].pc = "claim" /\ requests'[poll'[o].request].collected)
                             => handed'[poll'[o].token] > 0
        OBVIOUS
      <4>1. CASE o = p
        BY <3>1, <3>3, <4>1
      <4>2. CASE o # p
        <5>1. poll'[o] = poll[o] /\ poll[o].request \in Requests
          BY <1>0, <4>2, CollectMoves, Shapes
        <5>2. CASE poll[o].pc = "claim" /\ poll[o].request = poll[p].request
          <6>1. poll[o].token = poll[p].token
            BY <2>2, <3>1, <5>2 DEF Inv, PollsCurrent
          <6>. QED  BY <3>3, <5>1, <6>1
        <5>3. CASE ~(poll[o].pc = "claim" /\ poll[o].request = poll[p].request)
          <6>1. poll[o].pc # "idle" => poll[o].token \in Tokens
            BY Real
          <6>. QED  BY <3>2, <3>3, <5>1, <5>3, <6>1 DEF Delivered
        <5>. QED  BY <5>2, <5>3
      <4>. QED  BY <4>1, <4>2
    <3>6. \A a \in Approvals : approval[a].pc = "retire" =>
            \/ requests'[approval[a].request].parked = approval[a].token
            \/ handed'[approval[a].token] > 0
      BY <1>0, <3>1, <3>2, <3>3, Shapes DEF Delivered
    <3>. QED  BY <3>3, <3>4, <3>5, <3>6, Real DEF Delivered
  <2>. QED  BY <2>1, <2>2, CollectMoves
<1>3. ApprovalsOwn'
  BY <1>0, <1>a, <1>b, CollectMoves, Shapes DEF ApprovalsOwn, Claimed
<1>4. RequestsOwn'
  BY <1>0, <1>a, CollectMoves, Shapes DEF RequestsOwn
<1>5. RotationsOwn'
  BY <1>0, <1>a, <1>b, CollectMoves, Shapes DEF RotationsOwn, Renewing
<1>6. BoundOwn'
  BY <1>0, <1>a, <1>b, CollectMoves, Shapes DEF BoundOwn
<1>. QED  BY <1>1, <1>2, <1>3, <1>4, <1>5, <1>6

LEMMA DeliverOwn ==
  ASSUME Inv, OwnInv, Inv', NEW p \in Polls, Deliver(p),
         UNCHANGED <<devices, credentials, approval, rotation, revocation>>
  PROVE  OwnInv'
<1>. USE DEF OwnInv
<1>0. TypeOK /\ TypeOK'
  BY DEF Inv
<1>a. /\ IdlePoll.pc = "idle" /\ IdlePoll.token = NoToken
  BY DEF IdlePoll
<1>b. \A d, u : OwnRow(d, u) => OwnRow(d, u)'
  BY <1>0, DeliverMoves, Shapes DEF OwnRow
<1>1. EmptyHands'
  BY <1>0, <1>a, DeliverMoves, Shapes DEF EmptyHands, Carries, Renewing, Claimed
<1>2. Delivered'
  BY <1>0, <1>a, DeliverMoves, Shapes, Rows DEF Delivered, Claimed
<1>3. ApprovalsOwn'
  BY <1>0, <1>a, <1>b, DeliverMoves, Shapes DEF ApprovalsOwn, Claimed
<1>4. RequestsOwn'
  BY <1>0, <1>a, DeliverMoves, Shapes DEF RequestsOwn
<1>5. RotationsOwn'
  BY <1>0, <1>a, <1>b, DeliverMoves, Shapes DEF RotationsOwn, Renewing
<1>6. BoundOwn'
  BY <1>0, <1>a, <1>b, DeliverMoves, Shapes DEF BoundOwn
<1>. QED  BY <1>1, <1>2, <1>3, <1>4, <1>5, <1>6

LEMMA AuthenticateOwn ==
  ASSUME Inv, OwnInv, Inv', NEW r \in Rotations, Authenticate(r),
         UNCHANGED <<approval, poll, revocation>>
  PROVE  OwnInv'
<1>. USE DEF OwnInv
<1>0. TypeOK /\ TypeOK'
  BY DEF Inv
<1>b. \A d, u : OwnRow(d, u) => OwnRow(d, u)'
  BY <1>0, AuthenticateMoves, Shapes DEF OwnRow
<1>1. EmptyHands'
  BY <1>0, AuthenticateMoves, Shapes DEF EmptyHands, Carries, Renewing, Claimed
<1>2. Delivered'
  <2>1. \A m \in Machines : held'[m] # NoToken => handed'[held'[m]] > 0
    BY <1>0, AuthenticateMoves DEF Delivered
  <2>2. \A s \in Rotations : rotation'[s].pc # "idle" => handed'[rotation'[s].old] > 0
    BY <1>0, AuthenticateMoves, DeviceAssumption DEF Delivered, Along
  <2>3. \A o \in Polls :
          (\/ poll'[o].pc = "respond"
           \/ poll'[o].pc = "claim" /\ requests'[poll'[o].request].collected)
            => handed'[poll'[o].token] > 0
    BY <1>0, AuthenticateMoves DEF Delivered
  <2>4. \A b \in Approvals : approval'[b].pc = "retire" =>
          /\ approval'[b].token \in Tokens
          /\ \/ requests'[approval'[b].request].parked = approval'[b].token
             \/ handed'[approval'[b].token] > 0
    BY <1>0, AuthenticateMoves DEF Delivered, Others, Onward
  <2>. QED  BY <2>1, <2>2, <2>3, <2>4 DEF Delivered
<1>3. ApprovalsOwn'
  BY <1>0, <1>b, AuthenticateMoves, Shapes DEF ApprovalsOwn, Claimed
<1>4. RequestsOwn'
  BY <1>0, AuthenticateMoves, Shapes DEF RequestsOwn
<1>5. RotationsOwn'
  BY <1>0, <1>b, AuthenticateMoves, Shapes DEF RotationsOwn, Renewing
<1>6. BoundOwn'
  BY <1>0, <1>b, AuthenticateMoves, Shapes DEF BoundOwn
<1>. QED  BY <1>1, <1>2, <1>3, <1>4, <1>5, <1>6

LEMMA CreateOwn ==
  ASSUME Inv, OwnInv, Inv', NEW r \in Rotations, CreateReplacement(r),
         UNCHANGED <<approval, poll, revocation>>
  PROVE  OwnInv'
<1>. USE DEF OwnInv
<1>0. TypeOK /\ TypeOK'
  BY DEF Inv
<1>b. \A d, u : OwnRow(d, u) => OwnRow(d, u)'
  BY <1>0, CreateMoves, Shapes DEF OwnRow
<1>c. PICK t \in Tokens :
        /\ ~Minted(t) /\ rotation'[r].new = t
        /\ \A u \in Tokens :
             /\ credentials'[u].device = credentials[u].device
             /\ credentials'[u].user = IF u = t
                  THEN credentials[rotation[r].old].user ELSE credentials[u].user
  BY CreateMoves
<1>d. /\ \A b \in Approvals : approval[b].token # t
      /\ \A p \in Polls : poll[p].token # t
      /\ \A q \in Requests : requests[q].parked # t
      /\ \A s \in Rotations : rotation[s].new # t
      /\ \A s \in Rotations : rotation[s].pc # "idle" => rotation[s].old # t
      /\ credentials[t].device = NoDevice
  BY <1>c, FreshApart
<1>1. EmptyHands'
  BY <1>0, CreateMoves, Shapes DEF EmptyHands, Along, Carries, Renewing, Claimed
<1>2. Delivered'
  BY <1>0, CreateMoves, Shapes, Rows DEF Delivered, Along, Claimed
<1>3. ApprovalsOwn'
  BY <1>0, <1>b, <1>c, <1>d, CreateMoves, Real, Shapes DEF ApprovalsOwn, Claimed
<1>4. RequestsOwn'
  BY <1>0, <1>c, <1>d, CreateMoves, Shapes DEF RequestsOwn
<1>5. RotationsOwn'
  <2>1. /\ rotation[r].old \in Tokens /\ ~Renewing(r)
        /\ rotation'[r].device = NoDevice
    BY CreateMoves, Real DEF Renewing, RotationsOwn
  <2>. QED  BY <1>0, <1>b, <1>c, <1>d, <2>1, CreateMoves, Real, Shapes
  DEF RotationsOwn, Renewing, Along
<1>6. BoundOwn'
  BY <1>0, <1>b, <1>c, <1>d, Shapes DEF BoundOwn
<1>. QED  BY <1>1, <1>2, <1>3, <1>4, <1>5, <1>6

LEMMA ReadBindingOwn ==
  ASSUME Inv, OwnInv, Inv', NEW r \in Rotations, ReadBinding(r),
         UNCHANGED <<approval, poll, revocation>>
  PROVE  OwnInv'
<1>. USE DEF OwnInv
<1>0. TypeOK /\ TypeOK'
  BY DEF Inv
<1>b. \A d, u : OwnRow(d, u) => OwnRow(d, u)'
  BY <1>0, ReadBindingMoves, Shapes DEF OwnRow
<1>1. EmptyHands'
  BY <1>0, ReadBindingMoves, Shapes DEF EmptyHands, Along, Carries, Renewing, Claimed
<1>2. Delivered'
  BY <1>0, ReadBindingMoves, Shapes, Rows DEF Delivered, Along, Claimed
<1>3. ApprovalsOwn'
  BY <1>0, <1>b, ReadBindingMoves, Shapes DEF ApprovalsOwn, Along, Claimed
<1>4. RequestsOwn'
  BY <1>0, ReadBindingMoves, Shapes DEF RequestsOwn, Along
<1>5. RotationsOwn'
  <2>1. Renewing(r) /\ Renewing(r)' /\ rotation[r].old \in Tokens
    BY ReadBindingMoves, Real DEF Renewing
  <2>2. credentials[rotation[r].old].device # NoDevice =>
          OwnRow(credentials[rotation[r].old].device, credentials[rotation[r].new].user)
    BY <2>1 DEF BoundOwn, RotationsOwn
  <2>. QED  BY <1>b, <2>1, <2>2, ReadBindingMoves DEF RotationsOwn, Renewing, Along
<1>6. BoundOwn'
  BY <1>0, <1>b, ReadBindingMoves, Shapes DEF BoundOwn, Along
<1>. QED  BY <1>1, <1>2, <1>3, <1>4, <1>5, <1>6

LEMMA BindReplacementOwn ==
  ASSUME Inv, OwnInv, Inv', NEW r \in Rotations, BindReplacement(r),
         UNCHANGED <<approval, poll, revocation>>
  PROVE  OwnInv'
<1>. USE DEF OwnInv
<1>0. TypeOK /\ TypeOK'
  BY DEF Inv
<1>b. \A d, u : OwnRow(d, u) => OwnRow(d, u)'
  BY <1>0, BindReplacementMoves, Shapes DEF OwnRow
<1>c. /\ rotation[r].new \in Tokens
      /\ \A a \in Approvals : approval[a].token # rotation[r].new
      /\ \A p \in Polls : poll[p].token # rotation[r].new
      /\ \A q \in Requests : requests[q].parked # rotation[r].new
      /\ \A s \in Rotations \ {r} : rotation[s].new # rotation[r].new
      /\ \A s \in Rotations :
           rotation[s].pc # "idle" => rotation[s].old # rotation[r].new
  <2>1. Renewing(r)
    BY BindReplacementMoves DEF Renewing
  <2>. QED  BY <2>1, RenewedApart
<1>1. EmptyHands'
  BY <1>0, BindReplacementMoves, Shapes
  DEF EmptyHands, Along, Carries, Renewing, Claimed
<1>2. Delivered'
  BY <1>0, BindReplacementMoves, Shapes, Rows DEF Delivered, Along, Claimed
<1>3. ApprovalsOwn'
  BY <1>0, <1>b, <1>c, BindReplacementMoves, Real, Shapes DEF ApprovalsOwn, Claimed
<1>4. RequestsOwn'
  BY <1>0, <1>c, BindReplacementMoves, Shapes DEF RequestsOwn
<1>5. RotationsOwn'
  BY <1>0, <1>b, <1>c, BindReplacementMoves, Real, Shapes
  DEF RotationsOwn, Renewing, Along
<1>6. BoundOwn'
  <2>1. rotation[r].device # NoDevice =>
          OwnRow(rotation[r].device, credentials[rotation[r].new].user)
    BY DEF RotationsOwn
  <2>. QED  BY <1>b, <1>c, <2>1, BindReplacementMoves DEF BoundOwn
<1>. QED  BY <1>1, <1>2, <1>3, <1>4, <1>5, <1>6

LEMMA RepointOwn ==
  ASSUME Inv, OwnInv, Inv', NEW r \in Rotations, RepointDevice(r),
         UNCHANGED <<approval, poll, revocation>>
  PROVE  OwnInv'
<1>. USE DEF OwnInv
<1>0. TypeOK /\ TypeOK'
  BY DEF Inv
<1>b. \A d, u : OwnRow(d, u) => OwnRow(d, u)'
  BY <1>0, RepointMoves, Shapes DEF OwnRow
<1>1. EmptyHands'
  BY <1>0, RepointMoves, Shapes DEF EmptyHands, Along, Carries, Renewing, Claimed
<1>2. Delivered'
  BY <1>0, RepointMoves, Shapes, Rows DEF Delivered, Along, Claimed
<1>3. ApprovalsOwn'
  BY <1>0, <1>b, RepointMoves, Shapes DEF ApprovalsOwn, Along, Claimed
<1>4. RequestsOwn'
  BY <1>0, RepointMoves, Shapes DEF RequestsOwn, Along
<1>5. RotationsOwn'
  BY <1>0, <1>b, RepointMoves, Shapes DEF RotationsOwn, Along, Renewing
<1>6. BoundOwn'
  BY <1>0, <1>b, RepointMoves, Shapes DEF BoundOwn, Along
<1>. QED  BY <1>1, <1>2, <1>3, <1>4, <1>5, <1>6

LEMMA SaveOwn ==
  ASSUME Inv, OwnInv, Inv', NEW r \in Rotations, SaveReplacement(r),
         UNCHANGED <<approval, poll, revocation>>
  PROVE  OwnInv'
<1>. USE DEF OwnInv
<1>0. TypeOK /\ TypeOK'
  BY DEF Inv
<1>a. /\ IdleRotation.pc = "idle" /\ IdleRotation.new = NoToken
      /\ IdleRotation.device = NoDevice
  BY DEF IdleRotation
<1>b. \A d, u : OwnRow(d, u) => OwnRow(d, u)'
  BY <1>0, SaveMoves, Shapes DEF OwnRow
<1>c. /\ rotation[r].new \in Tokens
      /\ \A a \in Approvals : approval[a].token # rotation[r].new
      /\ \A p \in Polls : poll[p].token # rotation[r].new
      /\ \A q \in Requests : requests[q].parked # rotation[r].new
      /\ \A s \in Rotations \ {r} : rotation[s].new # rotation[r].new
      /\ \A s \in Rotations :
           rotation[s].pc # "idle" => rotation[s].old # rotation[r].new
  <2>1. Renewing(r)
    BY SaveMoves DEF Renewing
  <2>. QED  BY <2>1, RenewedApart
<1>1. EmptyHands'
  BY <1>0, <1>a, SaveMoves, Shapes DEF EmptyHands, Along, Carries, Renewing, Claimed
<1>2. Delivered'
  <2>0. \A t \in Tokens : handed[t] > 0 \/ t = rotation[r].new => handed'[t] > 0
    BY <1>0, <1>c, SaveMoves, Rows
  <2>1. \A m \in Machines : held'[m] # NoToken => handed'[held'[m]] > 0
    BY <1>0, <1>c, <2>0, SaveMoves, Rows, DeviceAssumption DEF Delivered
  <2>2. \A s \in Rotations : rotation'[s].pc # "idle" => handed'[rotation'[s].old] > 0
    BY <1>0, <1>a, <2>0, SaveMoves, Real DEF Delivered, Along
  <2>3. \A o \in Polls :
          (\/ poll'[o].pc = "respond"
           \/ poll'[o].pc = "claim" /\ requests'[poll'[o].request].collected)
            => handed'[poll'[o].token] > 0
    BY <1>0, <2>0, SaveMoves, Shapes, Real, DeviceAssumption DEF Delivered
  <2>4. \A b \in Approvals : approval'[b].pc = "retire" =>
          /\ approval'[b].token \in Tokens
          /\ \/ requests'[approval'[b].request].parked = approval'[b].token
             \/ handed'[approval'[b].token] > 0
    BY <1>0, <2>0, SaveMoves, Shapes DEF Delivered, Others, Onward
  <2>. QED  BY <2>1, <2>2, <2>3, <2>4 DEF Delivered
<1>3. ApprovalsOwn'
  BY <1>0, <1>a, <1>b, SaveMoves, Shapes DEF ApprovalsOwn, Along, Claimed
<1>4. RequestsOwn'
  BY <1>0, <1>a, SaveMoves, Shapes DEF RequestsOwn, Along
<1>5. RotationsOwn'
  BY <1>0, <1>a, <1>b, SaveMoves, Shapes DEF RotationsOwn, Along, Renewing
<1>6. BoundOwn'
  BY <1>0, <1>a, <1>b, SaveMoves, Shapes DEF BoundOwn, Along
<1>. QED  BY <1>1, <1>2, <1>3, <1>4, <1>5, <1>6

LEMMA InitOwn == ASSUME Init PROVE OwnInv
<1>1. /\ \A t \in Tokens : credentials[t].device = NoDevice
      /\ \A q \in Requests : requests[q].parked = NoToken
      /\ \A m \in Machines : held[m] = NoToken
      /\ \A a \in Approvals : /\ approval[a].pc = "idle"
                              /\ approval[a].token = NoToken
                              /\ approval[a].device = NoDevice
      /\ \A p \in Polls : poll[p].pc = "idle" /\ poll[p].token = NoToken
      /\ \A r \in Rotations : /\ rotation[r].pc = "idle"
                              /\ rotation[r].new = NoToken
                              /\ rotation[r].device = NoDevice
  BY DEF Init, TablesInit, PairingInit, CredentialsInit, IdleApproval, IdlePoll,
     IdleRotation
<1>. QED
  BY <1>1 DEF OwnInv, EmptyHands, Delivered, ApprovalsOwn, RequestsOwn, RotationsOwn,
     BoundOwn, Carries, Claimed, Renewing

LEMMA NextOwn == ASSUME Inv, OwnInv, [Next]_vars PROVE OwnInv'
<1>1. Inv'
  BY StepInv
<1>2. CASE ~HandsOn
  BY <1>1, <1>2, StillSteps, StillOwn DEF Inv
<1>3. CASE HandsOn
  <2>. SUFFICES ASSUME Inv' PROVE OwnInv'
    BY <1>1
  <2>1. ASSUME NEW a \in Approvals,
               \/ MintCredential(a) \/ ClaimRequest(a) \/ FindDevice(a)
               \/ PointDevice(a) \/ InsertDevice(a) \/ BindCredential(a)
               \/ ParkToken(a),
               UNCHANGED <<held, poll, handed, rotation, revocation>>
        PROVE  OwnInv'
    BY <2>1, MintOwn, ClaimOwn, FindOwn, PointOwn, InsertOwn, BindOwn, ParkOwn
  <2>2. ASSUME NEW p \in Polls,
               \/ (ReadRequest(p) \/ Collect(p)) /\ UNCHANGED held
               \/ Deliver(p),
               UNCHANGED <<devices, credentials, approval, rotation, revocation>>
        PROVE  OwnInv'
    BY <2>2, ReadOwn, CollectOwn, DeliverOwn
  <2>3. ASSUME NEW r \in Rotations,
               \/ Authenticate(r) \/ CreateReplacement(r) \/ ReadBinding(r)
               \/ BindReplacement(r) \/ RepointDevice(r) \/ SaveReplacement(r),
               UNCHANGED <<approval, poll, revocation>>
        PROVE  OwnInv'
    BY <2>3, AuthenticateOwn, CreateOwn, ReadBindingOwn, BindReplacementOwn,
       RepointOwn, SaveOwn
  <2>. QED  BY <1>3, <2>1, <2>2, <2>3 DEF HandsOn
<1>. QED  BY <1>2, <1>3

(* Whoever approves the same code at the same time, what is parked or on   *)
(* its way authenticates the user who approved, on a device of that user   *)
(* (pairing.ts 198-233): a token is its user's from the step that mints    *)
(* it, and only the approval that took the request parks one there.        *)
THEOREM DeliveredToOwner == Spec => []DeliveredToApprover
<1>1. ASSUME Inv, OwnInv PROVE DeliveredToApprover
  <2>1. ASSUME NEW t \in Tokens, Parked(t) PROVE credentials[t].device # NoDevice
    BY <1>1, <2>1, DeviceAssumption DEF Parked, OwnInv, RequestsOwn
  <2>2. \A t \in Tokens : credentials[t].device # NoDevice =>
          devices[credentials[t].device].user = credentials[t].user
    BY <1>1 DEF OwnInv, BoundOwn, OwnRow
  <2>3. \A q \in Requests : requests[q].parked # NoToken =>
          credentials[requests[q].parked].user = requests[q].approver
    BY <1>1 DEF OwnInv, RequestsOwn
  <2>. QED  BY <2>1, <2>2, <2>3 DEF DeliveredToApprover
<1>. QED
  BY InitInv, StepInv, InitOwn, NextOwn, <1>1, PTL DEF Spec

-----------------------------------------------------------------------------
(* Live credentials nobody answers for: not one that lies on a request.    *)

Strays == {t \in Tokens : Live(t) /\ ~Parked(t) /\ ~InHand(t) /\ handed[t] = 0}

(* A credential comes to life in the hands of the call that mints it. *)
LEMMA LiveStep ==
  ASSUME Inv, [Next]_vars, NEW t \in Tokens, Live(t)'
  PROVE  Live(t) \/ InHand(t)'
<1>. USE DEF tables
<1>0. credentials \in [Tokens -> CredentialRow]
  BY Shapes DEF Inv
<1>1. \/ credentials' = credentials
      \/ \E a \in Approvals : MintCredential(a) \/ BindCredential(a)
      \/ \E r \in Rotations : CreateReplacement(r) \/ BindReplacement(r)
      \/ \E x : Revoke(x)
  BY DEF Next, AskOrAnswer, StartPairing, ExpireRequest, Deny, Approve, ApprovalStep,
     LookUp, ClaimRequest, FindDevice, PointDevice, InsertDevice, ParkToken,
     RetireReplaced, Abandon, ApprovalFails, ApprovalDies, CollectToken, Rotate,
     RotationStep, Authenticate, RetireOld, ReadBinding, RepointDevice,
     SaveReplacement, RotationFails, RotationDies, RevokeByUser, RevokeDevice,
     RevokeDeviceCredential, RevokeCredential, RevocationFails, vars
<1>2. CASE credentials' = credentials
  BY <1>2 DEF Live, Minted
<1>3. ASSUME NEW a \in Approvals, MintCredential(a) PROVE Live(t) \/ InHand(t)'
  <2>1. PICK x \in Tokens :
          /\ credentials' = [credentials EXCEPT ![x].user = approval[a].user]
          /\ approval' = [approval EXCEPT ![a].pc = "claim", ![a].token = x]
    BY <1>3 DEF MintCredential, Mint
  <2>2. approval'[a].token = x
    BY <2>1, Shapes DEF Inv, Approval
  <2>3. t # x => credentials'[t] = credentials[t]
    BY <1>0, <2>1
  <2>. QED  BY <2>2, <2>3 DEF Live, Minted, InHand
<1>4. ASSUME NEW r \in Rotations, CreateReplacement(r) PROVE Live(t) \/ InHand(t)'
  <2>1. PICK x \in Tokens :
          /\ credentials' = [credentials EXCEPT
               ![x].user = credentials[rotation[r].old].user]
          /\ rotation' = [rotation EXCEPT ![r].pc = "retire", ![r].new = x]
    BY <1>4 DEF CreateReplacement, Mint
  <2>2. rotation'[r].new = x
    BY <2>1, Shapes DEF Inv, Rotation
  <2>3. t # x => credentials'[t] = credentials[t]
    BY <1>0, <2>1
  <2>. QED  BY <2>2, <2>3 DEF Live, Minted, InHand
<1>5. ASSUME NEW x, NEW d, credentials' = [credentials EXCEPT ![x].device = d]
      PROVE  Live(t)
  BY <1>0, <1>5 DEF Live, Minted, CredentialRow
<1>6. ASSUME NEW x, Revoke(x) PROVE Live(t)
  BY <1>0, <1>6 DEF Revoke, Live, Minted, CredentialRow
<1>. QED
  BY <1>1, <1>2, <1>3, <1>4, <1>5, <1>6 DEF BindCredential, BindReplacement

(* A token that was in somebody's hands is in somebody's still, or was     *)
(* given to a machine, or is revoked.                                      *)
Passed(t) ==
  Parked(t) \/ InHand(t) =>
    Parked(t)' \/ InHand(t)' \/ handed'[t] > 0 \/ ~Live(t)'

SameHands ==
  /\ \A q \in Requests : requests'[q].parked = requests[q].parked
  /\ \A a \in Approvals : approval'[a].token = approval[a].token
  /\ \A p \in Polls : poll'[p].token = poll[p].token
  /\ \A r \in Rotations : rotation'[r].new = rotation[r].new

LEMMA AskHands ==
  ASSUME Inv, NEW q \in Requests, StartPairing(q) \/ ExpireRequest(q) \/ Deny(q),
         UNCHANGED <<poll, rotation>>
  PROVE  SameHands
<1>0. requests \in [Requests -> RequestRow]
  BY Shapes DEF Inv
<1>1. \A p \in Requests : requests'[p].parked = requests[p].parked
  <2>1. CASE StartPairing(q)
    BY <1>0, <2>1 DEF StartPairing, RequestRow
  <2>2. CASE ExpireRequest(q)
    BY <1>0, <2>2 DEF ExpireRequest, RequestRow
  <2>3. CASE Deny(q)
    BY <1>0, <2>3 DEF Deny, RequestRow
  <2>. QED  BY <2>1, <2>2, <2>3
<1>. QED  BY <1>1 DEF StartPairing, ExpireRequest, Deny, SameHands

LEMMA ApprovalHands ==
  ASSUME Inv, OwnInv, NEW a \in Approvals,
         \/ LookUp(a) \/ ClaimRequest(a) \/ FindDevice(a) \/ PointDevice(a)
         \/ InsertDevice(a) \/ BindCredential(a) \/ ApprovalFails(a),
         UNCHANGED <<poll, rotation>>
  PROVE  SameHands
<1>. USE DEF tables
<1>0. approval \in [Approvals -> Approval]
  BY Shapes DEF Inv
<1>1. CASE LookUp(a)
  <2>1. approval[a].token = NoToken
    BY <1>1 DEF LookUp, ApprovalAt, OwnInv, EmptyHands, Carries, Claimed
  <2>2. approval'[a].token = NoToken /\ Others(a)
    BY <1>0, <1>1 DEF LookUp, IdleApproval, Others
  <2>. QED  BY <1>1, <2>1, <2>2 DEF LookUp, SameHands, Others
<1>2. CASE ApprovalFails(a)
  BY <1>0, <1>2 DEF ApprovalFails, ApprovalTo, Approval, SameHands
<1>3. CASE ClaimRequest(a)
  BY <1>3, ClaimMoves DEF SameHands, Others
<1>4. CASE FindDevice(a)
  BY <1>4, FindMoves DEF SameHands, Others
<1>5. CASE PointDevice(a)
  BY <1>5, PointMoves DEF SameHands, Others
<1>6. CASE InsertDevice(a)
  BY <1>6, InsertMoves DEF SameHands, Others
<1>7. CASE BindCredential(a)
  BY <1>7, BindMoves DEF SameHands, Others
<1>. QED  BY <1>1, <1>2, <1>3, <1>4, <1>5, <1>6, <1>7

LEMMA RotationHands ==
  ASSUME Inv, OwnInv, NEW r \in Rotations,
         \/ Authenticate(r) \/ RetireOld(r) \/ ReadBinding(r) \/ BindReplacement(r)
         \/ RepointDevice(r),
         UNCHANGED <<approval, poll>>
  PROVE  SameHands
<1>1. CASE Authenticate(r)
  <2>1. rotation[r].new = NoToken
    BY <1>1 DEF Authenticate, RotationAt, OwnInv, EmptyHands, Renewing
  <2>. QED  BY <1>1, <2>1, AuthenticateMoves DEF SameHands
<1>2. CASE RetireOld(r)
  BY <1>2, Shapes DEF Inv, RetireOld, RotationTo, Rotation, SameHands
<1>3. CASE ReadBinding(r)
  BY <1>3, ReadBindingMoves DEF SameHands, Along
<1>4. CASE BindReplacement(r)
  BY <1>4, BindReplacementMoves DEF SameHands, Along
<1>5. CASE RepointDevice(r)
  BY <1>5, RepointMoves DEF SameHands, Along
<1>. QED  BY <1>1, <1>2, <1>3, <1>4, <1>5

(* A call that ends hands its token on, gives it back, or had none. *)
LEMMA ApprovalPasses ==
  ASSUME Inv, OwnInv, NEW a \in Approvals,
         MintCredential(a) \/ ParkToken(a) \/ RetireReplaced(a) \/ Abandon(a),
         UNCHANGED <<poll, rotation, handed>>, NEW t \in Tokens
  PROVE  Passed(t)
<1>0. /\ approval \in [Approvals -> Approval] /\ handed \in [Tokens -> Nat]
      /\ credentials \in [Tokens -> CredentialRow]
      /\ approval[a].request \in Requests /\ NoToken \notin Tokens
  BY Shapes, Rows, DeviceAssumption DEF Inv
<1>1. CASE MintCredential(a)
  <2>1. approval[a].token = NoToken
    BY <1>1 DEF MintCredential, ApprovalAt, OwnInv, EmptyHands, Carries, Claimed
  <2>. QED  BY <1>0, <1>1, <2>1, MintMoves DEF Passed, Parked, InHand, Others
<1>2. CASE ParkToken(a)
  <2>1. requests[approval[a].request].parked = NoToken
    BY <1>2 DEF ParkToken, ApprovalAt, Inv, ClaimedAlone, Claimed
  <2>2. t = approval[a].token => Parked(t)'
    BY <1>0, <1>2, ParkMoves DEF Parked
  <2>3. t # approval[a].token /\ InHand(t) => InHand(t)'
    BY <1>2, ParkMoves DEF InHand, Others
  <2>4. Parked(t) => Parked(t)'
    BY <1>0, <1>2, <2>1, ParkMoves DEF Parked
  <2>. QED  BY <2>2, <2>3, <2>4, <1>0, <1>2, ParkMoves DEF Passed, InHand
<1>3. CASE RetireReplaced(a)
  <2>1. UNCHANGED requests /\ Others(a) /\ approval[a].pc = "retire"
    BY <1>0, <1>3 DEF RetireReplaced, ApprovalAt, ApprovalEnds, Others
  <2>2. Parked(t) => Parked(t)'
    BY <2>1 DEF Parked
  <2>3. t = approval[a].token => Parked(t)' \/ handed'[t] > 0
    BY <1>0, <2>1 DEF OwnInv, Delivered, Parked
  <2>4. t # approval[a].token /\ InHand(t) => InHand(t)'
    BY <2>1 DEF InHand, Others
  <2>. QED  BY <2>2, <2>3, <2>4 DEF Passed
<1>4. CASE Abandon(a)
  <2>1. UNCHANGED requests /\ Others(a)
    BY <1>0, <1>4 DEF Abandon, ApprovalEnds, Others
  <2>2. Parked(t) => Parked(t)'
    BY <2>1 DEF Parked
  <2>3. t = approval[a].token => ~Live(t)'
    BY <1>0, <1>4 DEF Abandon, Revoke, Live, CredentialRow
  <2>4. t # approval[a].token /\ InHand(t) => InHand(t)'
    BY <2>1 DEF InHand, Others
  <2>. QED  BY <2>2, <2>3, <2>4 DEF Passed
<1>. QED  BY <1>1, <1>2, <1>3, <1>4

LEMMA PollPasses ==
  ASSUME Inv, OwnInv, NEW p \in Polls,
         ReadRequest(p) \/ Collect(p) \/ Deliver(p) \/ PollDies(p),
         UNCHANGED <<approval, rotation>>, NEW t \in Tokens
  PROVE  Passed(t)
<1>0. /\ poll \in [Polls -> Poll] /\ handed \in [Tokens -> Nat]
      /\ poll[p].request \in Requests /\ NoToken \notin Tokens
  BY Shapes, Rows, DeviceAssumption DEF Inv
<1>1. InHand(t) => InHand(t)'
  BY DEF InHand
<1>2. CASE ReadRequest(p)
  <2>1. poll[p].token = NoToken
    BY <1>2, ReadMoves DEF OwnInv, EmptyHands
  <2>2. Parked(t) => Parked(t)'
    BY <1>0, <1>2, <2>1, ReadMoves DEF Parked
  <2>. QED  BY <1>1, <2>2 DEF Passed
<1>3. ASSUME UNCHANGED <<requests, handed>>, poll[p].token = t => Parked(t)' \/ handed[t] > 0,
             \A o \in Polls \ {p} : poll'[o] = poll[o]
      PROVE  Passed(t)
  <2>1. poll[p].token # t /\ Parked(t) => Parked(t)'
    BY <1>3 DEF Parked
  <2>. QED  BY <1>1, <1>3, <2>1 DEF Passed
<1>4. ASSUME UNCHANGED requests, poll[p].pc # "idle", poll[p].token = t
      PROVE  Parked(t)' \/ handed[t] > 0
  <2>1. poll[p].pc \in {"claim", "respond"}
    BY <1>0, <1>4 DEF Poll
  <2>. QED
    BY <1>0, <1>4, <2>1 DEF Inv, PollsCurrent, OwnInv, Delivered, Parked
<1>5. CASE Deliver(p)
  BY <1>3, <1>4, <1>5, DeliverMoves
<1>6. CASE PollDies(p)
  <2>1. /\ UNCHANGED <<requests, handed>> /\ poll[p].pc # "idle"
        /\ \A o \in Polls \ {p} : poll'[o] = poll[o]
    BY <1>0, <1>6 DEF PollDies
  <2>. QED  BY <1>3, <1>4, <2>1
<1>7. CASE Collect(p)
  <2>1. CASE UNCHANGED <<requests, handed>> /\ poll'[p] = IdlePoll
    BY <1>3, <1>4, <1>7, <2>1, CollectMoves
  <2>2. CASE ~requests[poll[p].request].collected
    <3>1. t = poll[p].token => handed'[t] > 0
      BY <1>0, <1>7, <2>2, CollectMoves
    <3>2. t # poll[p].token /\ Parked(t) => Parked(t)'
      BY <1>0, <1>7, <2>2, CollectMoves DEF Parked
    <3>. QED  BY <1>1, <3>1, <3>2, <1>0, <1>7, <2>2, CollectMoves DEF Passed, Parked
  <2>. QED  BY <1>7, <2>1, <2>2, CollectMoves
<1>. QED  BY <1>2, <1>5, <1>6, <1>7

LEMMA RotationPasses ==
  ASSUME Inv, OwnInv, NEW r \in Rotations, CreateReplacement(r) \/ SaveReplacement(r),
         UNCHANGED <<approval, poll>>, NEW t \in Tokens
  PROVE  Passed(t)
<1>0. handed \in [Tokens -> Nat] /\ NoToken \notin Tokens
  BY Rows, DeviceAssumption DEF Inv
<1>1. CASE CreateReplacement(r)
  <2>1. rotation[r].new = NoToken
    BY <1>1, CreateMoves DEF OwnInv, EmptyHands, Renewing
  <2>. QED  BY <1>0, <1>1, <2>1, CreateMoves DEF Passed, Parked, InHand, Along
<1>2. CASE SaveReplacement(r)
  BY <1>0, <1>2, SaveMoves DEF Passed, Parked, InHand
<1>. QED  BY <1>1, <1>2

(* Only a call that dies, or a rotation that fails, drops a token, and     *)
(* then it is the one it had.                                              *)
LEMMA EndDrops ==
  ASSUME Inv, OwnInv, UNCHANGED <<tables, poll>>,
         \/ \E a \in Approvals : ApprovalDies(a) /\ UNCHANGED rotation
         \/ \E r \in Rotations :
              (RotationFails(r) \/ RotationDies(r)) /\ UNCHANGED approval
  PROVE  \E t : \A u \in Tokens \ {t} : Passed(u)
<1>. USE DEF tables
<1>0. approval \in [Approvals -> Approval] /\ rotation \in [Rotations -> Rotation]
  BY Shapes DEF Inv
<1>1. ASSUME NEW a \in Approvals, ApprovalDies(a), UNCHANGED rotation
      PROVE  \A u \in Tokens \ {approval[a].token} : Passed(u)
  <2>1. Others(a)
    BY <1>0, <1>1 DEF ApprovalDies, ApprovalEnds, Others
  <2>. QED  BY <1>1, <2>1 DEF Passed, Parked, InHand, Others
<1>2. ASSUME NEW r \in Rotations, RotationFails(r) \/ RotationDies(r), UNCHANGED approval
      PROVE  \A u \in Tokens \ {rotation[r].new} : Passed(u)
  <2>1. \A s \in Rotations \ {r} : rotation'[s] = rotation[s]
    BY <1>0, <1>2 DEF RotationFails, RotationDies, RotationEnds, RotationTo
  <2>. QED  BY <1>2, <2>1 DEF Passed, Parked, InHand
<1>. QED  BY <1>1, <1>2

LEMMA StepPasses ==
  ASSUME Inv, OwnInv, [Next]_vars
  PROVE  \/ failures' \in {failures, failures + 1} /\ \A t \in Tokens : Passed(t)
         \/ failures' = failures + 1 /\ \E x : \A t \in Tokens \ {x} : Passed(t)
<1>. USE DEF tables
<1>a. ASSUME SameHands, NEW t \in Tokens PROVE Passed(t)
  BY <1>a DEF SameHands, Passed, Parked, InHand
<1>1. CASE AskOrAnswer
  <2>1. SameHands
    BY <1>1, AskHands DEF AskOrAnswer
  <2>. QED  BY <1>1, <1>a, <2>1 DEF AskOrAnswer
<1>2. CASE Approve
  <2>1. ASSUME NEW a \in Approvals, ApprovalStep(a), UNCHANGED failures PROVE
          failures' = failures /\ \A t \in Tokens : Passed(t)
    <3>1. UNCHANGED <<poll, rotation, handed>>
      BY <1>2 DEF Approve
    <3>2. CASE \/ LookUp(a) \/ ClaimRequest(a) \/ FindDevice(a) \/ PointDevice(a)
               \/ InsertDevice(a) \/ BindCredential(a)
      <4>1. SameHands
        BY <3>1, <3>2, ApprovalHands
      <4>. QED  BY <1>a, <2>1, <4>1
    <3>3. CASE MintCredential(a) \/ ParkToken(a) \/ RetireReplaced(a) \/ Abandon(a)
      BY <2>1, <3>1, <3>3, ApprovalPasses
    <3>. QED  BY <2>1, <3>2, <3>3 DEF ApprovalStep
  <2>2. ASSUME NEW a \in Approvals, ApprovalFails(a), Failing PROVE
          failures' = failures + 1 /\ \A t \in Tokens : Passed(t)
    <3>1. SameHands
      BY <1>2, <2>2, ApprovalHands DEF Approve
    <3>. QED  BY <1>a, <2>2, <3>1 DEF Failing
  <2>3. ASSUME NEW a \in Approvals, ApprovalDies(a), Failing PROVE
          failures' = failures + 1 /\ \E x : \A t \in Tokens \ {x} : Passed(t)
    <3>1. UNCHANGED <<requests, devices, credentials, poll, rotation>>
      BY <1>2, <2>3 DEF Approve, ApprovalDies
    <3>. QED  BY <2>3, <3>1, EndDrops DEF Failing
  <2>. QED  BY <1>2, <2>1, <2>2, <2>3 DEF Approve
<1>3. CASE CollectToken
  <2>. SUFFICES failures' \in {failures, failures + 1} /\ \A t \in Tokens : Passed(t)
    OBVIOUS
  <2>1. PICK p \in Polls : ReadRequest(p) \/ Collect(p) \/ Deliver(p) \/ PollDies(p)
    BY <1>3 DEF CollectToken
  <2>2. \A t \in Tokens : Passed(t)
    BY <1>3, <2>1, PollPasses DEF CollectToken
  <2>. QED  BY <1>3, <2>2 DEF CollectToken, Failing
<1>4. CASE Rotate
  <2>1. ASSUME NEW r \in Rotations, RotationStep(r), UNCHANGED failures PROVE
          failures' = failures /\ \A t \in Tokens : Passed(t)
    <3>1. UNCHANGED <<approval, poll>>
      BY <1>4 DEF Rotate
    <3>2. CASE \/ Authenticate(r) \/ RetireOld(r) \/ ReadBinding(r)
               \/ BindReplacement(r) \/ RepointDevice(r)
      <4>1. SameHands
        BY <3>1, <3>2, RotationHands
      <4>. QED  BY <1>a, <2>1, <4>1
    <3>3. CASE CreateReplacement(r) \/ SaveReplacement(r)
      BY <2>1, <3>1, <3>3, RotationPasses
    <3>. QED  BY <2>1, <3>2, <3>3 DEF RotationStep
  <2>2. ASSUME NEW r \in Rotations, RotationFails(r) \/ RotationDies(r), Failing PROVE
          failures' = failures + 1 /\ \E x : \A t \in Tokens \ {x} : Passed(t)
    <3>1. UNCHANGED <<requests, devices, credentials, approval, poll>>
      BY <1>4, <2>2 DEF Rotate, RotationFails, RotationDies
    <3>. QED  BY <2>2, <3>1, EndDrops DEF Failing
  <2>. QED  BY <1>4, <2>1, <2>2 DEF Rotate
<1>5. CASE RevokeByUser
  <2>1. UNCHANGED <<requests, approval, poll, rotation>>
    BY <1>5 DEF RevokeByUser, RevokeDevice, RevokeDeviceCredential, RevokeCredential,
       RevocationFails
  <2>2. SameHands
    BY <2>1 DEF SameHands
  <2>. QED  BY <1>5, <1>a, <2>2 DEF RevokeByUser, Failing
<1>6. CASE UNCHANGED vars
  <2>1. SameHands
    BY <1>6 DEF SameHands, vars
  <2>. QED  BY <1>6, <1>a, <2>1 DEF vars
<1>. QED  BY <1>1, <1>2, <1>3, <1>4, <1>5, <1>6 DEF Next

LEMMA HandedStays ==
  ASSUME Inv, [Next]_vars, NEW t \in Tokens, handed[t] > 0
  PROVE  handed'[t] > 0
<1>0. handed \in [Tokens -> Nat]
  BY Rows DEF Inv
<1>1. handed' = handed \/ \E x : HandOut(x)
  BY DEF Next, AskOrAnswer, Approve, CollectToken, ReadRequest, Collect, Deliver,
     PollDies, Rotate, RotationStep, Authenticate, CreateReplacement, RetireOld,
     ReadBinding, BindReplacement, RepointDevice, SaveReplacement, RotationFails,
     RotationDies, RevokeByUser, RevokeDevice, RevokeDeviceCredential,
     RevokeCredential, RevocationFails, vars
<1>. QED  BY <1>0, <1>1 DEF HandOut

(* A new stray is one a failing step dropped. *)
LEMMA StrayStep ==
  ASSUME Inv, OwnInv, [Next]_vars
  PROVE  \/ failures' \in {failures, failures + 1} /\ Strays' \subseteq Strays
         \/ failures' = failures + 1 /\ \E x : Strays' \subseteq Strays \cup {x}
<1>1. ASSUME NEW t \in Tokens, Passed(t), t \in Strays' PROVE t \in Strays
  <2>1. Live(t)' /\ ~Parked(t)' /\ ~InHand(t)' /\ handed'[t] = 0
    BY <1>1 DEF Strays
  <2>2. Live(t)
    BY <2>1, LiveStep
  <2>3. ~Parked(t) /\ ~InHand(t)
    BY <1>1, <2>1 DEF Passed
  <2>4. handed[t] = 0
    BY <2>1, HandedStays, Rows DEF Inv
  <2>. QED  BY <2>2, <2>3, <2>4 DEF Strays
<1>2. Strays' \subseteq Tokens
  BY DEF Strays
<1>. QED  BY <1>1, <1>2, StepPasses

StraysBounded == IsFiniteSet(Strays) /\ Cardinality(Strays) <= failures

LEMMA BoundStep ==
  ASSUME Inv, OwnInv, StraysBounded, [Next]_vars
  PROVE  StraysBounded'
<1>0. failures \in Nat /\ Cardinality(Strays) \in Nat
  BY FS_CardinalityType, PairingAssumption DEF Inv, TypeOK, PairingTypeOK, StraysBounded
<1>1. CASE failures' \in {failures, failures + 1} /\ Strays' \subseteq Strays
  <2>1. IsFiniteSet(Strays') /\ Cardinality(Strays') <= Cardinality(Strays)
    BY <1>1, FS_Subset DEF StraysBounded
  <2>2. Cardinality(Strays') \in Nat
    BY <2>1, FS_CardinalityType
  <2>. QED  BY <1>0, <1>1, <2>1, <2>2 DEF StraysBounded
<1>2. CASE failures' = failures + 1 /\ \E x : Strays' \subseteq Strays \cup {x}
  <2>1. PICK x : Strays' \subseteq Strays \cup {x}
    BY <1>2
  <2>2. /\ IsFiniteSet(Strays \cup {x})
        /\ Cardinality(Strays \cup {x}) <= Cardinality(Strays) + 1
    BY <1>0, FS_AddElement DEF StraysBounded
  <2>3. /\ IsFiniteSet(Strays')
        /\ Cardinality(Strays') <= Cardinality(Strays \cup {x})
    BY <2>1, <2>2, FS_Subset
  <2>4. Cardinality(Strays') \in Nat /\ Cardinality(Strays \cup {x}) \in Nat
    BY <2>2, <2>3, FS_CardinalityType
  <2>. QED  BY <1>0, <1>2, <2>2, <2>3, <2>4 DEF StraysBounded
<1>. QED  BY <1>1, <1>2, StrayStep

(* What is parked on refused requests is one token each.                   *)
Left == {requests[q].parked : q \in {x \in Requests : Refused(x) /\ requests[x].approver # NoUser}}

LEMMA LeftAreFew ==
  LET refused == {q \in Requests : Refused(q) /\ requests[q].approver # NoUser}
  IN  /\ IsFiniteSet(Left) /\ IsFiniteSet(refused)
      /\ Cardinality(Left) <= Cardinality(refused)
<1>. DEFINE refused == {q \in Requests : Refused(q) /\ requests[q].approver # NoUser}
            parked == [q \in refused |-> requests[q].parked]
<1>1. IsFiniteSet(refused)
  BY DeviceAssumption, FS_Subset
<1>2. parked \in Surjection(refused, Left)
  BY DEF Surjection, Left
<1>. HIDE DEF refused, parked
<1>3. IsFiniteSet(Left) /\ Cardinality(Left) <= Cardinality(refused)
  BY <1>1, <1>2, FS_Surjection
<1>. QED  BY <1>1, <1>3 DEF refused

(* Each live credential that no machine was given and nobody can reach any *)
(* more stands for one request that failed or process that died, or for an *)
(* approved request that was denied or expired: without those, the loser   *)
(* of a double approval leaves none (pairing.ts 210-214, 235-239).         *)
THEOREM StraysCounted == Spec => []NoStrayCredential
<1>1. ASSUME Init PROVE StraysBounded
  <2>1. Strays = {}
    BY <1>1 DEF Strays, Init, TablesInit, Live, Minted
  <2>2. failures = 0
    BY <1>1 DEF Init, PairingInit
  <2>. QED  BY <2>1, <2>2, FS_EmptySet DEF StraysBounded
<1>2. ASSUME Inv, StraysBounded PROVE NoStrayCredential
  <2>. DEFINE refused == {q \in Requests : Refused(q) /\ requests[q].approver # NoUser}
              lost == {t \in Tokens :
                         Live(t) /\ ~Awaited(t) /\ ~InHand(t) /\ handed[t] = 0}
  <2>1. lost \subseteq Strays \cup Left
    <3>1. SUFFICES ASSUME NEW t \in lost, t \notin Strays PROVE t \in Left
      OBVIOUS
    <3>2. Parked(t) /\ ~Awaited(t)
      BY <3>1 DEF Strays
    <3>3. PICK q \in Requests : requests[q].parked = t /\ Refused(q)
      BY <3>2 DEF Parked, Awaited
    <3>4. requests[q].approver # NoUser
      BY <1>2, <3>1, <3>3, DeviceAssumption DEF Inv, ClaimedAlone
    <3>. QED  BY <3>3, <3>4 DEF Left
  <2>. HIDE DEF lost
  <2>2. /\ IsFiniteSet(Strays) /\ Cardinality(Strays) <= failures
        /\ IsFiniteSet(Left) /\ IsFiniteSet(refused)
        /\ Cardinality(Left) <= Cardinality(refused)
    BY <1>2, LeftAreFew DEF StraysBounded
  <2>. HIDE DEF refused
  <2>3. /\ IsFiniteSet(Strays \cup Left) /\ IsFiniteSet(Strays \cap Left)
        /\ Cardinality(Strays \cup Left)
              = Cardinality(Strays) + Cardinality(Left) - Cardinality(Strays \cap Left)
    BY <2>2, FS_Union, FS_Intersection
  <2>4. IsFiniteSet(lost) /\ Cardinality(lost) <= Cardinality(Strays \cup Left)
    BY <2>1, <2>3, FS_Subset
  <2>5. /\ failures \in Nat /\ Cardinality(Strays) \in Nat /\ Cardinality(Left) \in Nat
        /\ Cardinality(Strays \cap Left) \in Nat /\ Cardinality(refused) \in Nat
        /\ Cardinality(lost) \in Nat
    BY <1>2, <2>2, <2>3, <2>4, FS_CardinalityType, PairingAssumption
    DEF Inv, TypeOK, PairingTypeOK
  <2>6. Cardinality(lost) <= failures + Cardinality(refused)
    BY <2>2, <2>3, <2>4, <2>5
  <2>. QED  BY <2>6 DEF lost, refused, NoStrayCredential
<1>. QED
  BY InitInv, StepInv, InitOwn, NextOwn, BoundStep, <1>1, <1>2, PTL DEF Spec

-----------------------------------------------------------------------------
(* Which machine a token is for.                                           *)

PlacedAt(t, m) ==
  \/ held[m] = t
  \/ \E p \in Polls : poll[p].token = t /\ MachineOf[poll[p].request] = m
  \/ \E q \in Requests : requests[q].parked = t /\ MachineOf[q] = m
  \/ \E a \in Approvals : approval[a].token = t /\ MachineOf[approval[a].request] = m
  \/ \E r \in Rotations :
       /\ rotation[r].machine = m
       /\ rotation[r].new = t \/ (rotation[r].pc # "idle" /\ rotation[r].old = t)

OnePlace ==
  \A t \in Tokens : \A m, n \in Machines : PlacedAt(t, m) /\ PlacedAt(t, n) => m = n

(* The rows that name a token, the row it is bound to and the approvals    *)
(* that replace it are of the machine it is at.                            *)
NamedThere ==
  \A t \in Tokens : \A m \in Machines : PlacedAt(t, m) =>
    \A d \in Devices : devices[d].credential = t => devices[d].machine = m

BoundThere ==
  \A t \in Tokens : \A m \in Machines : PlacedAt(t, m) =>
    (credentials[t].device # NoDevice => devices[credentials[t].device].machine = m)

ReplacedThere ==
  \A t \in Tokens : \A m \in Machines : PlacedAt(t, m) =>
    \A a \in Approvals : approval[a].replaced = t => MachineOf[approval[a].request] = m

(* An approval works on a row of its machine, and replaces a credential of *)
(* its user.                                                               *)
ApprovalsThere ==
  \A a \in Approvals :
    /\ approval[a].device # NoDevice =>
         devices[approval[a].device].machine = MachineOf[approval[a].request]
    /\ approval[a].replaced # NoToken =>
         /\ Minted(approval[a].replaced)
         /\ credentials[approval[a].replaced].user = approval[a].user
    /\ approval[a].pc = "retire" =>
         approval[a].replaced \notin {NoToken, approval[a].token}

RotationsThere ==
  \A r \in Rotations : rotation[r].device # NoDevice =>
    devices[rotation[r].device].machine = rotation[r].machine

RowsOwn ==
  \A d \in Devices : devices[d].credential # NoToken =>
    /\ Minted(devices[d].credential)
    /\ OwnRow(d, credentials[devices[d].credential].user)

ThereInv ==
  /\ OnePlace
  /\ NamedThere /\ BoundThere /\ ReplacedThere
  /\ ApprovalsThere /\ RotationsThere /\ RowsOwn

(* Nothing is put where it was not. *)
NoNewPlace ==
  \A t \in Tokens : \A m \in Machines : PlacedAt(t, m)' => PlacedAt(t, m)

LEMMA StillThere == ASSUME Inv, OwnInv, ThereInv, Inv', Still PROVE ThereInv'
<1>. USE DEF ThereInv
<1>0. TypeOK /\ NoToken \notin Tokens
  BY DeviceAssumption DEF Inv
<1>a. /\ IdleRotation.new = NoToken /\ IdleRotation.old = NoToken
      /\ IdleRotation.device = NoDevice /\ IdlePoll.token = NoToken
  BY DEF IdleRotation, IdlePoll
<1>b. NoNewPlace
  <2>. SUFFICES ASSUME NEW t \in Tokens, NEW m \in Machines, PlacedAt(t, m)'
                PROVE  PlacedAt(t, m)
    BY DEF NoNewPlace
  <2>1. CASE held'[m] = t
    BY <2>1 DEF Still, PlacedAt
  <2>2. CASE \E p \in Polls : poll'[p].token = t /\ MachineOf[poll'[p].request] = m
    BY <1>0, <1>a, <2>2 DEF Still, PlacedAt
  <2>3. CASE \E q \in Requests : requests'[q].parked = t /\ MachineOf[q] = m
    BY <2>3 DEF Still, PlacedAt
  <2>4. CASE \E a \in Approvals :
               approval'[a].token = t /\ MachineOf[approval'[a].request] = m
    BY <1>0, <2>4 DEF Still, PlacedAt
  <2>5. CASE \E r \in Rotations :
               /\ rotation'[r].machine = m
               /\ rotation'[r].new = t \/ (rotation'[r].pc # "idle" /\ rotation'[r].old = t)
    BY <1>0, <1>a, <2>5 DEF Still, PlacedAt, Renewing
  <2>. QED  BY <2>1, <2>2, <2>3, <2>4, <2>5 DEF PlacedAt
<1>1. OnePlace'
  BY <1>b DEF OnePlace, NoNewPlace
<1>2. NamedThere'
  BY <1>b DEF NamedThere, NoNewPlace, Still
<1>3. BoundThere'
  BY <1>0, <1>b, Shapes DEF BoundThere, NoNewPlace, Still
<1>4. ReplacedThere'
  <2>1. \A a \in Approvals : approval'[a].replaced \in Tokens =>
          /\ approval'[a].replaced = approval[a].replaced
          /\ approval'[a].request = approval[a].request
    BY <1>0 DEF Still
  <2>. QED  BY <1>b, <2>1 DEF ReplacedThere, NoNewPlace
<1>5. ApprovalsThere'
  BY <1>0, Shapes DEF ApprovalsThere, Still, Minted
<1>6. RotationsThere'
  BY <1>0, <1>a, Shapes DEF RotationsThere, Still
<1>7. RowsOwn'
  BY <1>0, Shapes DEF RowsOwn, OwnRow, Still, Minted
<1>. QED  BY <1>1, <1>2, <1>3, <1>4, <1>5, <1>6, <1>7

LEMMA MintThere ==
  ASSUME Inv, OwnInv, ThereInv, Inv', NEW a \in Approvals, MintCredential(a),
         UNCHANGED <<held, poll, handed, rotation, revocation>>
  PROVE  ThereInv'
<1>. USE DEF ThereInv
<1>0. TypeOK /\ NoToken \notin Tokens /\ NoDevice \notin Devices
  BY DeviceAssumption DEF Inv
<1>c. PICK t \in Tokens :
        /\ ~Minted(t) /\ approval'[a].token = t
        /\ \A u \in Tokens :
             /\ credentials'[u].device = credentials[u].device
             /\ u # t => credentials'[u].user = credentials[u].user
             /\ u = t => Minted(u)'
  <2>1. approval[a].user # NoUser
    BY <1>0, Shapes, DeviceAssumption
  <2>. QED  BY <2>1, MintMoves DEF Minted
<1>d. /\ credentials[t].device = NoDevice
      /\ \A d \in Devices : devices[d].credential # t
      /\ \A b \in Approvals : approval[b].replaced # t
  BY <1>0, <1>c, FreshApart DEF RowsOwn, ApprovalsThere
<1>e. \A u \in Tokens : \A m \in Machines :
        PlacedAt(u, m)' <=> IF u = t THEN m = MachineOf[approval[a].request] ELSE PlacedAt(u, m)
  <2>0. approval[a].token = NoToken
    BY MintMoves DEF OwnInv, EmptyHands, Carries, Claimed
  <2>1. /\ \A b \in Approvals : approval[b].token # t
        /\ \A p \in Polls : poll[p].token # t
        /\ \A q \in Requests : requests[q].parked # t
        /\ \A s \in Rotations :
             rotation[s].new # t /\ (rotation[s].pc # "idle" => rotation[s].old # t)
        /\ \A m \in Machines : held[m] # t
    BY <1>0, <1>c, FreshApart DEF Inv, HeldMinted
  <2>2. ASSUME NEW u \in Tokens, u # t, NEW m \in Machines
        PROVE  PlacedAt(u, m)' <=> PlacedAt(u, m)
    BY <1>0, <1>c, <2>2, MintMoves, Shapes, <2>0 DEF PlacedAt, Others, Onward
  <2>3. ASSUME NEW m \in Machines PROVE PlacedAt(t, m)' <=> m = MachineOf[approval[a].request]
    <3>1. /\ \A b \in Approvals : b = a \/ approval'[b].token # t
          /\ \A p \in Polls : poll'[p].token # t
          /\ \A q \in Requests : requests'[q].parked # t
          /\ \A k \in Machines : held'[k] # t
      BY <2>1, MintMoves DEF Others
    <3>2. \A s \in Rotations :
            rotation'[s].new # t /\ (rotation'[s].pc # "idle" => rotation'[s].old # t)
      BY <2>1
    <3>3. approval'[a].token = t /\ approval'[a].request = approval[a].request
      BY <1>c, MintMoves DEF Onward
    <3>. QED  BY <3>1, <3>2, <3>3 DEF PlacedAt
  <2>. QED  BY <2>2, <2>3
<1>1. OnePlace'
  BY <1>0, <1>c, <1>d, <1>e, Shapes DEF OnePlace
<1>2. NamedThere'
  BY <1>0, <1>c, <1>d, <1>e, MintMoves, Shapes DEF NamedThere, RowsOwn
<1>3. BoundThere'
  BY <1>0, <1>c, <1>d, <1>e, MintMoves, Shapes DEF BoundThere
<1>4. ReplacedThere'
  BY <1>0, <1>c, <1>d, <1>e, MintMoves, Shapes
  DEF ReplacedThere, ApprovalsThere, Others, Onward
<1>5. ApprovalsThere'
  BY <1>0, <1>c, <1>d, <1>e, MintMoves, Shapes
  DEF ApprovalsThere, Minted, Others, Onward
<1>6. RotationsThere'
  BY <1>0, MintMoves, Shapes DEF RotationsThere, Others, Onward
<1>7. RowsOwn'
  BY <1>0, <1>c, <1>d, <1>e, MintMoves, Shapes DEF RowsOwn, OwnRow, Minted
<1>. QED  BY <1>1, <1>2, <1>3, <1>4, <1>5, <1>6, <1>7

LEMMA ClaimThere ==
  ASSUME Inv, OwnInv, ThereInv, Inv', NEW a \in Approvals, ClaimRequest(a),
         UNCHANGED <<held, poll, handed, rotation, revocation>>
  PROVE  ThereInv'
<1>. USE DEF ThereInv
<1>0. TypeOK /\ NoToken \notin Tokens /\ NoDevice \notin Devices
  BY DeviceAssumption DEF Inv
<1>b. NoNewPlace
  BY <1>0, ClaimMoves, Shapes DEF NoNewPlace, PlacedAt, Others, Onward
<1>1. OnePlace'
  BY <1>b DEF OnePlace, NoNewPlace
<1>2. NamedThere'
  BY <1>b, ClaimMoves DEF NamedThere, NoNewPlace
<1>3. BoundThere'
  BY <1>0, <1>b, ClaimMoves, Shapes DEF BoundThere, NoNewPlace
<1>4. ReplacedThere'
  BY <1>0, <1>b, ClaimMoves DEF ReplacedThere, NoNewPlace, Others, Onward
<1>5. ApprovalsThere'
  BY <1>0, ClaimMoves, Shapes DEF ApprovalsThere, Minted, Others, Onward
<1>6. RotationsThere'
  BY <1>0, ClaimMoves, Shapes DEF RotationsThere, Others, Onward
<1>7. RowsOwn'
  BY <1>0, ClaimMoves, Shapes DEF RowsOwn, OwnRow, Minted
<1>. QED  BY <1>1, <1>2, <1>3, <1>4, <1>5, <1>6, <1>7

LEMMA FindThere ==
  ASSUME Inv, OwnInv, ThereInv, Inv', NEW a \in Approvals, FindDevice(a),
         UNCHANGED <<held, poll, handed, rotation, revocation>>
  PROVE  ThereInv'
<1>. USE DEF ThereInv
<1>0. TypeOK /\ NoToken \notin Tokens /\ NoDevice \notin Devices
  BY DeviceAssumption DEF Inv
<1>b. NoNewPlace
  BY <1>0, FindMoves, Shapes DEF NoNewPlace, PlacedAt, Others, Onward
<1>1. OnePlace'
  BY <1>b DEF OnePlace, NoNewPlace
<1>2. NamedThere'
  BY <1>b, FindMoves DEF NamedThere, NoNewPlace
<1>3. BoundThere'
  BY <1>0, <1>b, FindMoves, Shapes DEF BoundThere, NoNewPlace
<1>4. ReplacedThere'
  <2>1. \A t \in Tokens : \A m \in Machines : PlacedAt(t, m) =>
          (approval'[a].replaced = t => MachineOf[approval[a].request] = m)
    BY FindMoves DEF ReplacedThere, NamedThere, LiveRow
  <2>. QED  BY <1>b, <2>1, FindMoves DEF ReplacedThere, NoNewPlace, Others, Onward
<1>5. ApprovalsThere'
  <2>1. /\ approval'[a].device # NoDevice =>
             devices[approval'[a].device].machine = MachineOf[approval[a].request]
        /\ approval'[a].replaced # NoToken =>
             /\ Minted(approval'[a].replaced)
             /\ credentials[approval'[a].replaced].user = approval[a].user
    BY FindMoves DEF ApprovalsThere, RowsOwn, OwnRow, LiveRow
  <2>. QED  BY <2>1, FindMoves DEF ApprovalsThere, Minted, Others, Onward
<1>6. RotationsThere'
  BY <1>0, FindMoves, Shapes DEF RotationsThere, Others, Onward
<1>7. RowsOwn'
  BY <1>0, FindMoves, Shapes DEF RowsOwn, OwnRow, Minted
<1>. QED  BY <1>1, <1>2, <1>3, <1>4, <1>5, <1>6, <1>7

LEMMA PointThere ==
  ASSUME Inv, OwnInv, ThereInv, Inv', NEW a \in Approvals, PointDevice(a),
         UNCHANGED <<held, poll, handed, rotation, revocation>>
  PROVE  ThereInv'
<1>. USE DEF ThereInv
<1>0. TypeOK /\ NoToken \notin Tokens /\ NoDevice \notin Devices
  BY DeviceAssumption DEF Inv
<1>c. /\ MachineOf[approval[a].request] \in Machines
      /\ approval[a].token \in Tokens
      /\ PlacedAt(approval[a].token, MachineOf[approval[a].request])
  <2>1. approval[a].token \in Tokens
    BY PointMoves, CarriedApart DEF Carries, Claimed
  <2>. QED  BY <1>0, <2>1, Shapes, DeviceAssumption DEF PlacedAt
<1>b. NoNewPlace
  BY <1>0, PointMoves, Shapes DEF NoNewPlace, PlacedAt, Others, Onward
<1>1. OnePlace'
  BY <1>b DEF OnePlace, NoNewPlace
<1>2. NamedThere'
  <2>1. /\ approval[a].device # NoDevice
        /\ devices[approval[a].device].machine = MachineOf[approval[a].request]
    BY PointMoves DEF ApprovalsThere, OwnInv, ApprovalsOwn
  <2>2. \A m \in Machines : PlacedAt(approval[a].token, m) =>
          m = MachineOf[approval[a].request]
    BY <1>c DEF OnePlace
  <2>. QED  BY <1>b, <2>1, <2>2, PointMoves DEF NamedThere, NoNewPlace
<1>3. BoundThere'
  BY <1>0, <1>b, PointMoves, Shapes DEF BoundThere, NoNewPlace
<1>4. ReplacedThere'
  BY <1>0, <1>b, PointMoves DEF ReplacedThere, NoNewPlace, Others, Onward
<1>5. ApprovalsThere'
  BY <1>0, PointMoves, Shapes DEF ApprovalsThere, Minted, Others, Onward
<1>6. RotationsThere'
  BY <1>0, PointMoves, Shapes DEF RotationsThere, Others, Onward
<1>7. RowsOwn'
  <2>1. /\ OwnRow(approval[a].device, approval[a].user)
        /\ credentials[approval[a].token].user = approval[a].user
    BY <1>0, <1>c, PointMoves DEF OwnInv, ApprovalsOwn
  <2>. QED  BY <2>1, PointMoves DEF RowsOwn, OwnRow, Minted
<1>. QED  BY <1>1, <1>2, <1>3, <1>4, <1>5, <1>6, <1>7

LEMMA InsertThere ==
  ASSUME Inv, OwnInv, ThereInv, Inv', NEW a \in Approvals, InsertDevice(a),
         UNCHANGED <<held, poll, handed, rotation, revocation>>
  PROVE  ThereInv'
<1>. USE DEF ThereInv
<1>0. TypeOK /\ NoToken \notin Tokens /\ NoDevice \notin Devices
  BY DeviceAssumption DEF Inv
<1>c. /\ MachineOf[approval[a].request] \in Machines
      /\ approval[a].token \in Tokens
      /\ PlacedAt(approval[a].token, MachineOf[approval[a].request])
  <2>1. approval[a].token \in Tokens
    BY InsertMoves, CarriedApart DEF Carries, Claimed
  <2>. QED  BY <1>0, <2>1, Shapes, DeviceAssumption DEF PlacedAt
<1>d. CASE devices' = devices /\ approval'[a].device = approval[a].device
  <2>1. NoNewPlace
    BY <1>0, InsertMoves, Shapes DEF NoNewPlace, PlacedAt, Others, Onward
  <2>2. /\ \A b \in Approvals :
             /\ approval'[b].device = approval[b].device
             /\ approval'[b].replaced = approval[b].replaced
             /\ approval'[b].request = approval[b].request
             /\ approval'[b].user = approval[b].user
             /\ approval'[b].token = approval[b].token
             /\ approval'[b].pc = "retire" => approval[b].pc = "retire"
        /\ UNCHANGED <<credentials, rotation>>
    <3>1. \A b \in Approvals \ {a} : approval'[b] = approval[b]
      BY InsertMoves DEF Others
    <3>2. /\ approval'[a].replaced = approval[a].replaced
          /\ approval'[a].token = approval[a].token
          /\ approval'[a].request = approval[a].request
          /\ approval'[a].user = approval[a].user
          /\ approval'[a].pc # "retire"
          /\ UNCHANGED credentials
      BY InsertMoves DEF Onward
    <3>. QED  BY <1>d, <3>1, <3>2
  <2>3. OnePlace' /\ NamedThere' /\ BoundThere' /\ ReplacedThere'
    BY <1>d, <2>1, <2>2 DEF OnePlace, NamedThere, BoundThere, ReplacedThere, NoNewPlace
  <2>4. ApprovalsThere' /\ RotationsThere' /\ RowsOwn'
    BY <1>d, <2>2 DEF ApprovalsThere, RotationsThere, RowsOwn, OwnRow, Minted
  <2>. QED  BY <2>3, <2>4
<1>. SUFFICES ASSUME NEW d \in Devices, ~devices[d].exists,
                     approval'[a].pc = "bind", approval'[a].device = d,
                     devices'[d].exists, devices'[d].user = approval[a].user,
                     devices'[d].machine = MachineOf[approval[a].request],
                     devices'[d].credential = approval[a].token,
                     \A e \in Devices \ {d} : devices'[e] = devices[e]
              PROVE  ThereInv'
  BY <1>d, InsertMoves
<1>e. /\ \A t \in Tokens : credentials[t].device # d
      /\ \A b \in Approvals : approval[b].device # d
      /\ \A r \in Rotations : rotation[r].device # d
  BY <1>0 DEF OwnInv, BoundOwn, ApprovalsOwn, RotationsOwn, OwnRow
<1>b. NoNewPlace
  BY <1>0, InsertMoves, Shapes DEF NoNewPlace, PlacedAt, Others, Onward
<1>1. OnePlace'
  BY <1>b DEF OnePlace, NoNewPlace
<1>2. NamedThere'
  <2>1. \A m \in Machines : PlacedAt(approval[a].token, m) =>
          m = MachineOf[approval[a].request]
    BY <1>c DEF OnePlace
  <2>. QED  BY <1>b, <2>1 DEF NamedThere, NoNewPlace
<1>3. BoundThere'
  <2>1. \A t \in Tokens : credentials[t].device # NoDevice =>
          devices'[credentials[t].device] = devices[credentials[t].device]
    BY <1>0, <1>e, Shapes
  <2>. QED  BY <1>b, <2>1, InsertMoves DEF BoundThere, NoNewPlace
<1>4. ReplacedThere'
  BY <1>0, <1>b, InsertMoves DEF ReplacedThere, NoNewPlace, Others, Onward
<1>5. ApprovalsThere'
  <2>1. \A b \in Approvals : approval[b].device # NoDevice =>
          devices'[approval[b].device] = devices[approval[b].device]
    BY <1>0, <1>e, Shapes
  <2>. QED  BY <1>0, <2>1, InsertMoves DEF ApprovalsThere, Minted, Others, Onward
<1>6. RotationsThere'
  <2>1. \A r \in Rotations : rotation[r].device # NoDevice =>
          devices'[rotation[r].device] = devices[rotation[r].device]
    BY <1>0, <1>e, Shapes
  <2>. QED  BY <2>1 DEF RotationsThere
<1>7. RowsOwn'
  <2>1. credentials[approval[a].token].user = approval[a].user /\ approval[a].user # NoUser
    BY <1>0, <1>c, Shapes, DeviceAssumption DEF OwnInv, ApprovalsOwn
  <2>. QED  BY <2>1, InsertMoves DEF RowsOwn, OwnRow, Minted
<1>. QED  BY <1>1, <1>2, <1>3, <1>4, <1>5, <1>6, <1>7

LEMMA BindThere ==
  ASSUME Inv, OwnInv, ThereInv, Inv', NEW a \in Approvals, BindCredential(a),
         UNCHANGED <<held, poll, handed, rotation, revocation>>
  PROVE  ThereInv'
<1>. USE DEF ThereInv
<1>0. TypeOK /\ NoToken \notin Tokens /\ NoDevice \notin Devices
  BY DeviceAssumption DEF Inv
<1>c. /\ MachineOf[approval[a].request] \in Machines
      /\ approval[a].token \in Tokens
      /\ PlacedAt(approval[a].token, MachineOf[approval[a].request])
  <2>1. approval[a].token \in Tokens
    BY BindMoves, CarriedApart DEF Carries, Claimed
  <2>. QED  BY <1>0, <2>1, Shapes, DeviceAssumption DEF PlacedAt
<1>b. NoNewPlace
  BY <1>0, BindMoves, Shapes DEF NoNewPlace, PlacedAt, Others, Onward
<1>1. OnePlace'
  BY <1>b DEF OnePlace, NoNewPlace
<1>2. NamedThere'
  BY <1>b, BindMoves DEF NamedThere, NoNewPlace
<1>3. BoundThere'
  <2>1. approval[a].device # NoDevice =>
          devices[approval[a].device].machine = MachineOf[approval[a].request]
    BY DEF ApprovalsThere
  <2>2. \A m \in Machines : PlacedAt(approval[a].token, m) =>
          m = MachineOf[approval[a].request]
    BY <1>c DEF OnePlace
  <2>. QED  BY <1>b, <2>1, <2>2, BindMoves DEF BoundThere, NoNewPlace
<1>4. ReplacedThere'
  BY <1>0, <1>b, BindMoves DEF ReplacedThere, NoNewPlace, Others, Onward
<1>5. ApprovalsThere'
  BY <1>0, BindMoves, Shapes DEF ApprovalsThere, Minted, Others, Onward
<1>6. RotationsThere'
  BY <1>0, BindMoves, Shapes DEF RotationsThere, Others, Onward
<1>7. RowsOwn'
  BY <1>0, BindMoves, Shapes DEF RowsOwn, OwnRow, Minted
<1>. QED  BY <1>1, <1>2, <1>3, <1>4, <1>5, <1>6, <1>7

LEMMA ParkThere ==
  ASSUME Inv, OwnInv, ThereInv, Inv', NEW a \in Approvals, ParkToken(a),
         UNCHANGED <<held, poll, handed, rotation, revocation>>
  PROVE  ThereInv'
<1>. USE DEF ThereInv
<1>0. TypeOK /\ NoToken \notin Tokens /\ NoDevice \notin Devices
  BY DeviceAssumption DEF Inv
<1>a. /\ IdleApproval.token = NoToken /\ IdleApproval.device = NoDevice
      /\ IdleApproval.replaced = NoToken /\ IdleApproval.pc = "idle"
  BY DEF IdleApproval
<1>b. NoNewPlace
  BY <1>0, <1>a, ParkMoves, Shapes DEF NoNewPlace, PlacedAt, Others, Onward
<1>1. OnePlace'
  BY <1>b DEF OnePlace, NoNewPlace
<1>2. NamedThere'
  BY <1>b, ParkMoves DEF NamedThere, NoNewPlace
<1>3. BoundThere'
  BY <1>0, <1>b, ParkMoves, Shapes DEF BoundThere, NoNewPlace
<1>4. ReplacedThere'
  BY <1>0, <1>a, <1>b, ParkMoves DEF ReplacedThere, NoNewPlace, Others, Onward
<1>5. ApprovalsThere'
  BY <1>0, <1>a, ParkMoves, Shapes DEF ApprovalsThere, Minted, Others, Onward
<1>6. RotationsThere'
  BY <1>0, <1>a, ParkMoves, Shapes DEF RotationsThere, Others, Onward
<1>7. RowsOwn'
  BY <1>0, <1>a, ParkMoves, Shapes DEF RowsOwn, OwnRow, Minted
<1>. QED  BY <1>1, <1>2, <1>3, <1>4, <1>5, <1>6, <1>7

LEMMA ReadThere ==
  ASSUME Inv, OwnInv, ThereInv, Inv', NEW p \in Polls, ReadRequest(p), UNCHANGED held,
         UNCHANGED <<devices, credentials, approval, rotation, revocation>>
  PROVE  ThereInv'
<1>. USE DEF ThereInv
<1>0. TypeOK /\ NoToken \notin Tokens /\ NoDevice \notin Devices
  BY DeviceAssumption DEF Inv
<1>b. NoNewPlace
  BY <1>0, ReadMoves, Shapes DEF NoNewPlace, PlacedAt
<1>1. OnePlace'
  BY <1>b DEF OnePlace, NoNewPlace
<1>2. NamedThere'
  BY <1>b, ReadMoves DEF NamedThere, NoNewPlace
<1>3. BoundThere'
  BY <1>0, <1>b, ReadMoves, Shapes DEF BoundThere, NoNewPlace
<1>4. ReplacedThere'
  BY <1>0, <1>b, ReadMoves DEF ReplacedThere, NoNewPlace
<1>5. ApprovalsThere'
  BY <1>0, ReadMoves, Shapes DEF ApprovalsThere, Minted
<1>6. RotationsThere'
  BY <1>0, ReadMoves, Shapes DEF RotationsThere
<1>7. RowsOwn'
  BY <1>0, ReadMoves, Shapes DEF RowsOwn, OwnRow, Minted
<1>. QED  BY <1>1, <1>2, <1>3, <1>4, <1>5, <1>6, <1>7

LEMMA CollectThere ==
  ASSUME Inv, OwnInv, ThereInv, Inv', NEW p \in Polls, Collect(p), UNCHANGED held,
         UNCHANGED <<devices, credentials, approval, rotation, revocation>>
  PROVE  ThereInv'
<1>. USE DEF ThereInv
<1>0. TypeOK /\ NoToken \notin Tokens /\ NoDevice \notin Devices
  BY DeviceAssumption DEF Inv
<1>a. /\ IdlePoll.token = NoToken
  BY DEF IdlePoll
<1>b. NoNewPlace
  BY <1>0, <1>a, CollectMoves, Shapes DEF NoNewPlace, PlacedAt
<1>1. OnePlace'
  BY <1>b DEF OnePlace, NoNewPlace
<1>2. NamedThere'
  BY <1>b, CollectMoves DEF NamedThere, NoNewPlace
<1>3. BoundThere'
  BY <1>0, <1>b, CollectMoves, Shapes DEF BoundThere, NoNewPlace
<1>4. ReplacedThere'
  BY <1>0, <1>a, <1>b, CollectMoves DEF ReplacedThere, NoNewPlace
<1>5. ApprovalsThere'
  BY <1>0, <1>a, CollectMoves, Shapes DEF ApprovalsThere, Minted
<1>6. RotationsThere'
  BY <1>0, <1>a, CollectMoves, Shapes DEF RotationsThere
<1>7. RowsOwn'
  BY <1>0, <1>a, CollectMoves, Shapes DEF RowsOwn, OwnRow, Minted
<1>. QED  BY <1>1, <1>2, <1>3, <1>4, <1>5, <1>6, <1>7

LEMMA DeliverThere ==
  ASSUME Inv, OwnInv, ThereInv, Inv', NEW p \in Polls, Deliver(p),
         UNCHANGED <<devices, credentials, approval, rotation, revocation>>
  PROVE  ThereInv'
<1>. USE DEF ThereInv
<1>0. TypeOK /\ NoToken \notin Tokens /\ NoDevice \notin Devices
  BY DeviceAssumption DEF Inv
<1>a. /\ IdlePoll.token = NoToken
  BY DEF IdlePoll
<1>b. NoNewPlace
  BY <1>0, <1>a, DeliverMoves, Shapes DEF NoNewPlace, PlacedAt
<1>1. OnePlace'
  BY <1>b DEF OnePlace, NoNewPlace
<1>2. NamedThere'
  BY <1>b, DeliverMoves DEF NamedThere, NoNewPlace
<1>3. BoundThere'
  BY <1>0, <1>b, DeliverMoves, Shapes DEF BoundThere, NoNewPlace
<1>4. ReplacedThere'
  BY <1>0, <1>a, <1>b, DeliverMoves DEF ReplacedThere, NoNewPlace
<1>5. ApprovalsThere'
  BY <1>0, <1>a, DeliverMoves, Shapes DEF ApprovalsThere, Minted
<1>6. RotationsThere'
  BY <1>0, <1>a, DeliverMoves, Shapes DEF RotationsThere
<1>7. RowsOwn'
  BY <1>0, <1>a, DeliverMoves, Shapes DEF RowsOwn, OwnRow, Minted
<1>. QED  BY <1>1, <1>2, <1>3, <1>4, <1>5, <1>6, <1>7

LEMMA AuthenticateThere ==
  ASSUME Inv, OwnInv, ThereInv, Inv', NEW r \in Rotations, Authenticate(r),
         UNCHANGED <<approval, poll, revocation>>
  PROVE  ThereInv'
<1>. USE DEF ThereInv
<1>0. TypeOK /\ NoToken \notin Tokens /\ NoDevice \notin Devices
  BY DeviceAssumption DEF Inv
<1>b. NoNewPlace
  BY <1>0, AuthenticateMoves, Shapes DEF NoNewPlace, PlacedAt
<1>1. OnePlace'
  BY <1>b DEF OnePlace, NoNewPlace
<1>2. NamedThere'
  BY <1>b, AuthenticateMoves DEF NamedThere, NoNewPlace
<1>3. BoundThere'
  BY <1>0, <1>b, AuthenticateMoves, Shapes DEF BoundThere, NoNewPlace
<1>4. ReplacedThere'
  BY <1>0, <1>b, AuthenticateMoves DEF ReplacedThere, NoNewPlace
<1>5. ApprovalsThere'
  BY <1>0, AuthenticateMoves, Shapes DEF ApprovalsThere, Minted
<1>6. RotationsThere'
  BY <1>0, AuthenticateMoves, Shapes DEF RotationsThere
<1>7. RowsOwn'
  BY <1>0, AuthenticateMoves, Shapes DEF RowsOwn, OwnRow, Minted
<1>. QED  BY <1>1, <1>2, <1>3, <1>4, <1>5, <1>6, <1>7

LEMMA CreateThere ==
  ASSUME Inv, OwnInv, ThereInv, Inv', NEW r \in Rotations, CreateReplacement(r),
         UNCHANGED <<approval, poll, revocation>>
  PROVE  ThereInv'
<1>. USE DEF ThereInv
<1>0. TypeOK /\ NoToken \notin Tokens /\ NoDevice \notin Devices
  BY DeviceAssumption DEF Inv
<1>c. PICK t \in Tokens :
        /\ ~Minted(t) /\ rotation'[r].new = t
        /\ \A u \in Tokens :
             /\ credentials'[u].device = credentials[u].device
             /\ u # t => credentials'[u].user = credentials[u].user
             /\ u = t => Minted(u)'
  <2>1. credentials[rotation[r].old].user # NoUser
    BY CreateMoves DEF Inv, ReplacesMinted, Minted
  <2>. QED  BY <2>1, CreateMoves DEF Minted
<1>d. /\ credentials[t].device = NoDevice
      /\ \A d \in Devices : devices[d].credential # t
      /\ \A b \in Approvals : approval[b].replaced # t
  BY <1>0, <1>c, FreshApart DEF RowsOwn, ApprovalsThere
<1>e. \A u \in Tokens : \A m \in Machines :
        PlacedAt(u, m)' <=> IF u = t THEN m = rotation[r].machine ELSE PlacedAt(u, m)
  <2>0. rotation[r].new = NoToken
    BY CreateMoves DEF OwnInv, EmptyHands, Renewing
  <2>1. /\ \A b \in Approvals : approval[b].token # t
        /\ \A p \in Polls : poll[p].token # t
        /\ \A q \in Requests : requests[q].parked # t
        /\ \A s \in Rotations :
             rotation[s].new # t /\ (rotation[s].pc # "idle" => rotation[s].old # t)
        /\ \A m \in Machines : held[m] # t
    BY <1>0, <1>c, FreshApart DEF Inv, HeldMinted
  <2>2. ASSUME NEW u \in Tokens, u # t, NEW m \in Machines
        PROVE  PlacedAt(u, m)' <=> PlacedAt(u, m)
    BY SMTT(30), <1>0, <1>c, <2>2, CreateMoves, Shapes, <2>0 DEF PlacedAt, Along
  <2>3. ASSUME NEW m \in Machines PROVE PlacedAt(t, m)' <=> m = rotation[r].machine
    <3>1. /\ \A b \in Approvals : approval'[b].token # t
          /\ \A p \in Polls : poll'[p].token # t
          /\ \A q \in Requests : requests'[q].parked # t
          /\ \A k \in Machines : held'[k] # t
      BY <2>1, CreateMoves
    <3>2. \A s \in Rotations \ {r} :
            rotation'[s].new # t /\ (rotation'[s].pc # "idle" => rotation'[s].old # t)
      BY <2>1, CreateMoves DEF Along
    <3>3. /\ rotation'[r].machine = rotation[r].machine
          /\ rotation'[r].new = t /\ rotation'[r].old # t
      BY <1>c, <2>1, CreateMoves DEF Along
    <3>. QED  BY <3>1, <3>2, <3>3 DEF PlacedAt
  <2>. QED  BY <2>2, <2>3
<1>1. OnePlace'
  BY <1>0, <1>c, <1>d, <1>e, Shapes DEF OnePlace
<1>2. NamedThere'
  BY <1>0, <1>c, <1>d, <1>e, CreateMoves, Shapes DEF NamedThere, RowsOwn
<1>3. BoundThere'
  BY <1>0, <1>c, <1>d, <1>e, CreateMoves, Shapes DEF BoundThere
<1>4. ReplacedThere'
  BY <1>0, <1>c, <1>d, <1>e, CreateMoves, Shapes
  DEF ReplacedThere, ApprovalsThere, Along
<1>5. ApprovalsThere'
  BY <1>0, <1>c, <1>d, <1>e, CreateMoves, Shapes DEF ApprovalsThere, Minted, Along
<1>6. RotationsThere'
  BY <1>0, CreateMoves, Shapes DEF RotationsThere, Along
<1>7. RowsOwn'
  BY <1>0, <1>c, <1>d, <1>e, CreateMoves, Shapes DEF RowsOwn, OwnRow, Minted
<1>. QED  BY <1>1, <1>2, <1>3, <1>4, <1>5, <1>6, <1>7

LEMMA ReadBindingThere ==
  ASSUME Inv, OwnInv, ThereInv, Inv', NEW r \in Rotations, ReadBinding(r),
         UNCHANGED <<approval, poll, revocation>>
  PROVE  ThereInv'
<1>. USE DEF ThereInv
<1>0. TypeOK /\ NoToken \notin Tokens /\ NoDevice \notin Devices
  BY DeviceAssumption DEF Inv
<1>c. /\ rotation[r].machine \in Machines
      /\ rotation[r].old \in Tokens
      /\ PlacedAt(rotation[r].old, rotation[r].machine)
  <2>1. rotation[r].old \in Tokens
    BY ReadBindingMoves, Real DEF Renewing
  <2>. QED  BY <1>0, <2>1, ReadBindingMoves, Shapes DEF PlacedAt
<1>b. NoNewPlace
  BY <1>0, ReadBindingMoves, Shapes DEF NoNewPlace, PlacedAt, Along
<1>1. OnePlace'
  BY <1>b DEF OnePlace, NoNewPlace
<1>2. NamedThere'
  BY <1>b, ReadBindingMoves DEF NamedThere, NoNewPlace
<1>3. BoundThere'
  BY <1>0, <1>b, ReadBindingMoves, Shapes DEF BoundThere, NoNewPlace
<1>4. ReplacedThere'
  BY <1>0, <1>b, ReadBindingMoves DEF ReplacedThere, NoNewPlace, Along
<1>5. ApprovalsThere'
  BY <1>0, ReadBindingMoves, Shapes DEF ApprovalsThere, Minted, Along
<1>6. RotationsThere'
  BY <1>c, ReadBindingMoves DEF RotationsThere, BoundThere, Along
<1>7. RowsOwn'
  BY <1>0, ReadBindingMoves, Shapes DEF RowsOwn, OwnRow, Minted
<1>. QED  BY <1>1, <1>2, <1>3, <1>4, <1>5, <1>6, <1>7

LEMMA BindReplacementThere ==
  ASSUME Inv, OwnInv, ThereInv, Inv', NEW r \in Rotations, BindReplacement(r),
         UNCHANGED <<approval, poll, revocation>>
  PROVE  ThereInv'
<1>. USE DEF ThereInv
<1>0. TypeOK /\ NoToken \notin Tokens /\ NoDevice \notin Devices
  BY DeviceAssumption DEF Inv
<1>c. /\ rotation[r].machine \in Machines
      /\ rotation[r].new \in Tokens
      /\ PlacedAt(rotation[r].new, rotation[r].machine)
  <2>1. rotation[r].new \in Tokens
    BY BindReplacementMoves, Real DEF Renewing
  <2>. QED  BY <1>0, <2>1, Shapes DEF PlacedAt
<1>b. NoNewPlace
  BY <1>0, BindReplacementMoves, Shapes DEF NoNewPlace, PlacedAt, Along
<1>1. OnePlace'
  BY <1>b DEF OnePlace, NoNewPlace
<1>2. NamedThere'
  BY <1>b, BindReplacementMoves DEF NamedThere, NoNewPlace
<1>3. BoundThere'
  <2>1. rotation[r].device # NoDevice =>
          devices[rotation[r].device].machine = rotation[r].machine
    BY DEF RotationsThere
  <2>2. \A m \in Machines : PlacedAt(rotation[r].new, m) => m = rotation[r].machine
    BY <1>c DEF OnePlace
  <2>. QED  BY <1>b, <2>1, <2>2, BindReplacementMoves DEF BoundThere, NoNewPlace
<1>4. ReplacedThere'
  BY <1>0, <1>b, BindReplacementMoves DEF ReplacedThere, NoNewPlace, Along
<1>5. ApprovalsThere'
  BY <1>0, BindReplacementMoves, Shapes DEF ApprovalsThere, Minted, Along
<1>6. RotationsThere'
  BY <1>0, BindReplacementMoves, Shapes DEF RotationsThere, Along
<1>7. RowsOwn'
  BY <1>0, BindReplacementMoves, Shapes DEF RowsOwn, OwnRow, Minted
<1>. QED  BY <1>1, <1>2, <1>3, <1>4, <1>5, <1>6, <1>7

LEMMA RepointThere ==
  ASSUME Inv, OwnInv, ThereInv, Inv', NEW r \in Rotations, RepointDevice(r),
         UNCHANGED <<approval, poll, revocation>>
  PROVE  ThereInv'
<1>. USE DEF ThereInv
<1>0. TypeOK /\ NoToken \notin Tokens /\ NoDevice \notin Devices
  BY DeviceAssumption DEF Inv
<1>c. /\ rotation[r].machine \in Machines
      /\ rotation[r].new \in Tokens
      /\ PlacedAt(rotation[r].new, rotation[r].machine)
  <2>1. rotation[r].new \in Tokens
    BY RepointMoves, Real DEF Renewing
  <2>. QED  BY <1>0, <2>1, Shapes DEF PlacedAt
<1>b. NoNewPlace
  BY <1>0, RepointMoves, Shapes DEF NoNewPlace, PlacedAt, Along
<1>1. OnePlace'
  BY <1>b DEF OnePlace, NoNewPlace
<1>2. NamedThere'
  <2>1. \A d \in Devices : d = rotation[r].device =>
          devices[d].machine = rotation[r].machine
    BY <1>0 DEF RotationsThere
  <2>2. \A m \in Machines : PlacedAt(rotation[r].new, m) => m = rotation[r].machine
    BY <1>c DEF OnePlace
  <2>. QED  BY <1>b, <2>1, <2>2, RepointMoves DEF NamedThere, NoNewPlace
<1>3. BoundThere'
  BY <1>0, <1>b, RepointMoves, Shapes DEF BoundThere, NoNewPlace
<1>4. ReplacedThere'
  BY <1>0, <1>b, RepointMoves DEF ReplacedThere, NoNewPlace, Along
<1>5. ApprovalsThere'
  BY <1>0, RepointMoves, Shapes DEF ApprovalsThere, Minted, Along
<1>6. RotationsThere'
  BY <1>0, RepointMoves, Shapes DEF RotationsThere, Along
<1>7. RowsOwn'
  <2>1. rotation[r].device \in Devices =>
          OwnRow(rotation[r].device, credentials[rotation[r].new].user)
    BY <1>0 DEF OwnInv, RotationsOwn
  <2>2. Minted(rotation[r].new)
    BY RepointMoves DEF Inv, InRotation, Renewing
  <2>. QED  BY <1>c, <2>1, <2>2, RepointMoves DEF RowsOwn, OwnRow, Minted
<1>. QED  BY <1>1, <1>2, <1>3, <1>4, <1>5, <1>6, <1>7

LEMMA SaveThere ==
  ASSUME Inv, OwnInv, ThereInv, Inv', NEW r \in Rotations, SaveReplacement(r),
         UNCHANGED <<approval, poll, revocation>>
  PROVE  ThereInv'
<1>. USE DEF ThereInv
<1>0. TypeOK /\ NoToken \notin Tokens /\ NoDevice \notin Devices
  BY DeviceAssumption DEF Inv
<1>a. /\ IdleRotation.new = NoToken /\ IdleRotation.old = NoToken
      /\ IdleRotation.device = NoDevice
  BY DEF IdleRotation
<1>b. NoNewPlace
  BY <1>0, <1>a, SaveMoves, Shapes DEF NoNewPlace, PlacedAt
<1>1. OnePlace'
  BY <1>b DEF OnePlace, NoNewPlace
<1>2. NamedThere'
  BY <1>b, SaveMoves DEF NamedThere, NoNewPlace
<1>3. BoundThere'
  BY <1>0, <1>b, SaveMoves, Shapes DEF BoundThere, NoNewPlace
<1>4. ReplacedThere'
  BY <1>0, <1>a, <1>b, SaveMoves DEF ReplacedThere, NoNewPlace
<1>5. ApprovalsThere'
  BY <1>0, <1>a, SaveMoves, Shapes DEF ApprovalsThere, Minted
<1>6. RotationsThere'
  BY <1>0, <1>a, SaveMoves, Shapes DEF RotationsThere
<1>7. RowsOwn'
  BY <1>0, <1>a, SaveMoves, Shapes DEF RowsOwn, OwnRow, Minted
<1>. QED  BY <1>1, <1>2, <1>3, <1>4, <1>5, <1>6, <1>7

LEMMA InitThere == ASSUME Init PROVE ThereInv
<1>0. NoToken \notin Tokens
  BY DeviceAssumption
<1>1. /\ \A t \in Tokens : credentials[t].device = NoDevice
      /\ \A d \in Devices : devices[d].credential = NoToken
      /\ \A q \in Requests : requests[q].parked = NoToken
      /\ \A m \in Machines : held[m] = NoToken
      /\ \A a \in Approvals : /\ approval[a].pc = "idle"
                              /\ approval[a].token = NoToken
                              /\ approval[a].device = NoDevice
                              /\ approval[a].replaced = NoToken
      /\ \A p \in Polls : poll[p].token = NoToken
      /\ \A r \in Rotations : /\ rotation[r].new = NoToken
                              /\ rotation[r].old = NoToken
                              /\ rotation[r].device = NoDevice
  BY DEF Init, TablesInit, PairingInit, CredentialsInit, IdleApproval, IdlePoll,
     IdleRotation
<1>2. \A t \in Tokens : \A m \in Machines : ~PlacedAt(t, m)
  BY <1>0, <1>1 DEF PlacedAt
<1>. QED
  BY <1>1, <1>2 DEF ThereInv, OnePlace, NamedThere, BoundThere, ReplacedThere,
     ApprovalsThere, RotationsThere, RowsOwn

LEMMA NextThere == ASSUME Inv, OwnInv, ThereInv, [Next]_vars PROVE ThereInv'
<1>. SUFFICES ASSUME Inv' PROVE ThereInv'
  BY StepInv
<1>2. CASE ~HandsOn
  BY <1>2, StillSteps, StillThere
<1>3. CASE HandsOn
  <2>1. ASSUME NEW a \in Approvals,
               \/ MintCredential(a) \/ ClaimRequest(a) \/ FindDevice(a)
               \/ PointDevice(a) \/ InsertDevice(a) \/ BindCredential(a)
               \/ ParkToken(a),
               UNCHANGED <<held, poll, handed, rotation, revocation>>
        PROVE  ThereInv'
    BY <2>1, MintThere, ClaimThere, FindThere, PointThere, InsertThere, BindThere,
       ParkThere
  <2>2. ASSUME NEW p \in Polls,
               \/ (ReadRequest(p) \/ Collect(p)) /\ UNCHANGED held
               \/ Deliver(p),
               UNCHANGED <<devices, credentials, approval, rotation, revocation>>
        PROVE  ThereInv'
    BY <2>2, ReadThere, CollectThere, DeliverThere
  <2>3. ASSUME NEW r \in Rotations,
               \/ Authenticate(r) \/ CreateReplacement(r) \/ ReadBinding(r)
               \/ BindReplacement(r) \/ RepointDevice(r) \/ SaveReplacement(r),
               UNCHANGED <<approval, poll, revocation>>
        PROVE  ThereInv'
    BY <2>3, AuthenticateThere, CreateThere, ReadBindingThere, BindReplacementThere,
       RepointThere, SaveThere
  <2>. QED  BY <1>3, <2>1, <2>2, <2>3 DEF HandsOn
<1>. QED  BY <1>2, <1>3

(* What an approval takes away is what it replaces or what it minted. *)
LEMMA ApprovalKills ==
  ASSUME Inv, Approve, NEW t \in Tokens, Live(t), ~Live(t)'
  PROVE  \E a \in Approvals :
           \/ approval[a].pc = "retire" /\ approval[a].replaced = t
           \/ approval[a].pc = "abandon" /\ approval[a].token = t
<1>. USE DEF tables
<1>0. credentials \in [Tokens -> CredentialRow]
  BY Shapes DEF Inv
<1>1. credentials' # credentials
  BY DEF Live, Minted
<1>2. PICK a \in Approvals :
        MintCredential(a) \/ BindCredential(a) \/ RetireReplaced(a) \/ Abandon(a)
  BY <1>1 DEF Approve, ApprovalStep, LookUp, ClaimRequest, FindDevice, PointDevice,
     InsertDevice, ParkToken, ApprovalFails, ApprovalDies
<1>3. CASE MintCredential(a)
  <2>1. PICK x \in Tokens :
          ~Minted(x) /\ credentials' = [credentials EXCEPT ![x].user = approval[a].user]
    BY <1>3 DEF MintCredential, Mint
  <2>2. t # x => credentials'[t] = credentials[t]
    BY <1>0, <2>1
  <2>. QED  BY <2>1, <2>2 DEF Live, Minted
<1>4. CASE BindCredential(a)
  BY <1>0, <1>4 DEF BindCredential, Live, Minted, CredentialRow
<1>5. ASSUME NEW x, x # t, Revoke(x) PROVE FALSE
  <2>1. credentials'[t] = credentials[t]
    BY <1>0, <1>5 DEF Revoke
  <2>. QED  BY <2>1 DEF Live, Minted
<1>6. CASE RetireReplaced(a)
  BY <1>5, <1>6 DEF RetireReplaced, ApprovalAt
<1>7. CASE Abandon(a)
  BY <1>5, <1>7 DEF Abandon, ApprovalAt
<1>. QED  BY <1>2, <1>3, <1>4, <1>6, <1>7

(* What an approval takes from a machine is what it replaces, and the      *)
(* token it minted for that machine and account has been parked on its     *)
(* request, where it lies still or from where it was handed out.           *)
ParkedFirst(m) ==
  (held[m] # NoToken /\ Live(held[m]) /\ ~Live(held[m])' /\ Approve) =>
    \E a \in Approvals :
      LET t == approval[a].token
          q == approval[a].request
      IN  /\ approval[a].pc = "retire" /\ approval[a].replaced = held[m]
          /\ t \in Tokens \ {held[m]} /\ MachineOf[q] = m
          /\ credentials[t].user = credentials[held[m]].user
          /\ requests[q].parked = t \/ handed[t] > 0

LEMMA ReplacedFirst == ASSUME Inv, OwnInv, ThereInv, NEW m \in Machines PROVE ParkedFirst(m)
<1>. SUFFICES ASSUME Approve, held[m] # NoToken, Live(held[m]), ~Live(held[m])'
              PROVE  ParkedFirst(m)
  BY DEF ParkedFirst
<1>1. held[m] \in Tokens /\ PlacedAt(held[m], m)
  BY Rows DEF Inv, PlacedAt
<1>2. PICK a \in Approvals :
        \/ approval[a].pc = "retire" /\ approval[a].replaced = held[m]
        \/ approval[a].pc = "abandon" /\ approval[a].token = held[m]
  <2>1. PICK t \in Tokens : t = held[m]
    BY <1>1
  <2>2. Live(t) /\ ~Live(t)'
    BY <2>1 DEF Approve, Live, Minted
  <2>. QED  BY <2>1, <2>2, ApprovalKills
<1>3. ~(approval[a].pc = "abandon" /\ approval[a].token = held[m])
  BY CarriedApart DEF Carries
<1>4. approval[a].pc = "retire" /\ approval[a].replaced = held[m]
  BY <1>2, <1>3
<1>5. /\ approval[a].token \in Tokens \ {held[m]}
      /\ approval[a].token # NoToken
      /\ approval[a].request \in Requests
      /\ MachineOf[approval[a].request] = m
  BY <1>1, <1>4, Shapes, DeviceAssumption
  DEF Inv, OwnInv, Delivered, ThereInv, ApprovalsThere, ReplacedThere
<1>6. credentials[approval[a].token].user = credentials[held[m]].user
  BY <1>4, <1>5 DEF OwnInv, ApprovalsOwn, ThereInv, ApprovalsThere
<1>7. \/ requests[approval[a].request].parked = approval[a].token
      \/ handed[approval[a].token] > 0
  BY <1>4 DEF OwnInv, Delivered
<1>. QED  BY <1>4, <1>5, <1>6, <1>7 DEF ParkedFirst

(* An approval retires a machine's credential only after the one it minted *)
(* in its place, for the same account and the same machine, was parked     *)
(* (pairing.ts 194-196, 226-243): the row that named the old credential,   *)
(* the request and the machine that holds it are of one machine.  Whether  *)
(* that one can still be collected and still authenticates is not said.    *)
THEOREM ReplacedBeforeRetired == Spec => [][\A m \in Machines : ParkedFirst(m)]_vars
<1>1. ASSUME Inv, OwnInv, ThereInv PROVE \A m \in Machines : ParkedFirst(m)
  BY <1>1, ReplacedFirst
<1>. QED
  BY InitInv, StepInv, InitOwn, NextOwn, InitThere, NextThere, <1>1, PTL DEF Spec
===============================================================================
