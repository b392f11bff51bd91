----------------------------- MODULE MinerDevices ------------------------------
(***************************************************************************)
(* Devices and their credentials: approvals, polls, rotations and          *)
(* revocations of any accounts and machines, interleaved request by        *)
(* request, over the tables they share.                                    *)
(***************************************************************************)
EXTENDS Pairing, Credentials

VARIABLES
  withdrew      \* history: users who revoked a live credential of theirs, or
                \* had a rotation fail

vars == <<requests, devices, credentials, held, approval, poll, handed,
          rotation, revocation, failures, withdrew>>

(* At most MaxFailures requests fail, processes die or answers are lost.   *)
Failing == failures < MaxFailures /\ failures' = failures + 1

Init == TablesInit /\ PairingInit /\ CredentialsInit /\ withdrew = {}

AskOrAnswer ==
  /\ \E q \in Requests : StartPairing(q) \/ ExpireRequest(q) \/ Deny(q)
  /\ UNCHANGED <<held, poll, handed, rotation, revocation, failures, withdrew>>

Approve ==
  /\ \/ \E a \in Approvals : ApprovalStep(a) /\ UNCHANGED failures
     \/ \E a \in Approvals : (ApprovalFails(a) \/ ApprovalDies(a)) /\ Failing
  /\ UNCHANGED <<held, poll, handed, rotation, revocation, withdrew>>

CollectToken ==
  /\ \/ \E p \in Polls : (ReadRequest(p) \/ Collect(p))
          /\ UNCHANGED <<held, failures>>
     \/ \E p \in Polls : Deliver(p) /\ UNCHANGED failures
     \/ \E p \in Polls : PollDies(p) /\ Failing /\ UNCHANGED held
  /\ UNCHANGED <<devices, credentials, approval, rotation, revocation, withdrew>>

Rotate ==
  /\ \/ \E r \in Rotations : RotationStep(r) /\ UNCHANGED <<failures, withdrew>>
     \/ \E r \in Rotations :
          /\ RotationFails(r) \/ RotationDies(r)
          /\ Failing /\ withdrew' = withdrew \cup {credentials[rotation[r].old].user}
  /\ UNCHANGED <<approval, poll, revocation>>

RevokeByUser ==
  /\ \/ \E v \in Revocations :
          /\ RevokeDevice(v) \/ RevokeDeviceCredential(v) \/ RevokeCredential(v)
          /\ UNCHANGED failures
     \/ \E v \in Revocations : RevocationFails(v) /\ Failing
  /\ withdrew' = withdrew \cup
       {credentials[t].user : t \in {x \in Tokens : Live(x) /\ ~Live(x)'}}
  /\ UNCHANGED <<approval, poll, rotation>>

Next ==
  \/ AskOrAnswer
  \/ Approve
  \/ CollectToken
  \/ Rotate
  \/ RevokeByUser

Spec == Init /\ [][Next]_vars

-----------------------------------------------------------------------------
(* Every variable holds a value of the shape its table or process has. *)
TypeOK ==
  /\ TablesTypeOK /\ PairingTypeOK /\ CredentialsTypeOK
  /\ withdrew \subseteq Users

(* A pairing token is returned to one poller, once: whatever polls run     *)
(* together, are retried or lose their answer (collect's single            *)
(* conditional update, pairing.ts 279-286).                                *)
HandedOutOnce == \A t \in Tokens : handed[t] <= 1

(* A token that lies on a request, or that a poll has read there.          *)
Parked(t) ==
  \/ \E q \in Requests : requests[q].parked = t
  \/ \E p \in Polls : poll[p].token = t

(* A token that is parked or being collected authenticates the user who    *)
(* approved, on a device of that same user, whoever else approved the same *)
(* code at the same time (pairing.ts 198-233).                             *)
DeliveredToApprover ==
  /\ \A t \in Tokens : Parked(t) =>
       /\ credentials[t].device # NoDevice
       /\ devices[credentials[t].device].user = credentials[t].user
  /\ \A q \in Requests : requests[q].parked # NoToken =>
       credentials[requests[q].parked].user = requests[q].approver

(* Who still answers for a live credential that no machine was given.      *)
InHand(t) ==
  \/ \E a \in Approvals : approval[a].token = t
  \/ \E r \in Rotations : rotation[r].new = t

(* A poll will give the token out, or is giving it out: collect refuses a  *)
(* request that was denied or has expired.                                 *)
Refused(q) == requests[q].denied \/ requests[q].expired

Awaited(t) ==
  \/ \E q \in Requests : requests[q].parked = t /\ ~Refused(q)
  \/ \E p \in Polls : poll[p].token = t

(* A live credential that nobody holds or will be given stands for a       *)
(* request or process that failed, or for an approved request that was     *)
(* denied or expired before the machine collected, one each: the loser of  *)
(* a double approval and a failed one take theirs back (pairing.ts         *)
(* 210-214, 235-239), and only what is parked on a refused request is      *)
(* never taken back.                                                       *)
NoStrayCredential ==
  Cardinality({t \in Tokens :
     Live(t) /\ ~Awaited(t) /\ ~InHand(t) /\ handed[t] = 0})
    <= failures + Cardinality({q \in Requests :
                     Refused(q) /\ requests[q].approver # NoUser})

(* The token is on a machine or on its way there, and authenticates.       *)
Working(t, m) ==
  /\ Live(t)
  /\ \/ /\ handed[t] > 0 \/ Awaited(t)
        /\ credentials[t].device # NoDevice
        /\ devices[credentials[t].device].machine = m
     \/ \E r \in Rotations : rotation[r].machine = m /\ rotation[r].new = t

(* It was left on a request of the machine that was denied or has expired. *)
LeftBehind(t, m) ==
  \E q \in Requests : MachineOf[q] = m /\ requests[q].parked = t /\ Refused(q)

(* "Mint first, revoke last": an approval takes a machine's live           *)
(* credential away only when another one of the same account works or will *)
(* work in its place, however many approvals and rotations of the machine  *)
(* overtake each other.  Two things the code does not guard against are    *)
(* excepted: the request of the replacement was denied or expired since    *)
(* the approval looked it up, and the user has revoked a credential, or a  *)
(* rotation failed (pairing.ts 194-196, 226-243).                          *)
WorkingUntilReplaced ==
  [][\A m \in Machines :
       LET old == held[m]
           own == {t \in Tokens \ {old} : credentials[t].user = credentials[old].user}
       IN  (old # NoToken /\ Live(old) /\ ~Live(old)' /\ Approve
            /\ credentials[old].user \notin withdrew)
             => \E t \in own : Working(t, m) \/ LeftBehind(t, m)]_vars

(* "Whatever fails in between, a device that was working keeps a working   *)
(* credential" (pairing.ts 194-195), for an approval in between whose      *)
(* look-up and end the request is denied or expires.                       *)
DeviceKeepsWorking ==
  [][\A m \in Machines :
       LET old == held[m]
       IN  (old # NoToken /\ Live(old) /\ ~Live(old)' /\ Approve)
             => \E t \in Tokens \ {old} : Working(t, m)]_vars

(* "Device revoked. It can no longer route requests."  Once no revocation  *)
(* is still running, nothing that was given to a machine authenticates for *)
(* a revoked device.                                                       *)
RevokedDeviceCannotRoute ==
  \A m \in Machines :
    LET t == held[m]
        d == credentials[t].device
    IN  (held[m] # NoToken /\ d # NoDevice /\ devices[d].revoked
         /\ \A v \in Revocations : revocation[v] = NoToken)
          => ~Live(t)
=============================================================================
