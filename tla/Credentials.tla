------------------------------ MODULE Credentials ------------------------------
(***************************************************************************)
(* What happens to a credential after pairing: a miner replaces its own    *)
(* (six requests and an answer), a user revokes a device (two requests) or *)
(* a credential (one).                                                     *)
(***************************************************************************)
EXTENDS DeviceTables

CONSTANTS
  Rotations,    \* concurrent rotate calls
  Revocations   \* concurrent calls that revoke a device or a credential

VARIABLES
  rotation,     \* the local state of each rotate
  revocation    \* the local state of each revocation of a device

Rotation ==
  [ pc      : {"idle", "create", "retire", "read", "bind", "point", "respond"},
    machine : Machines,
    old     : Tokens \cup {NoToken},
    new     : Tokens \cup {NoToken},
    device  : Devices \cup {NoDevice} ]

(* Between the two requests it holds the credential the device row named.  *)
Revocation == Tokens \cup {NoToken}

IdleRotation ==
  [ pc |-> "idle", machine |-> CHOOSE m \in Machines : TRUE,
    old |-> NoToken, new |-> NoToken, device |-> NoDevice ]

CredentialsTypeOK ==
  /\ rotation \in [Rotations -> Rotation]
  /\ revocation \in [Revocations -> Revocation]

CredentialsInit ==
  /\ rotation = [r \in Rotations |-> IdleRotation]
  /\ revocation = [v \in Revocations |-> NoToken]

RotationAt(r, pc) == rotation[r].pc = pc
RotationTo(r, pc) == rotation' = [rotation EXCEPT ![r].pc = pc]
RotationEnds(r) == rotation' = [rotation EXCEPT ![r] = IdleRotation]

-----------------------------------------------------------------------------
(* rotate, authenticated by the credential it replaces.                    *)

Authenticate(r) ==
  /\ RotationAt(r, "idle")
  /\ \E m \in Machines :
       /\ held[m] # NoToken /\ Live(held[m])
       /\ rotation' = [rotation EXCEPT ![r] =
            [IdleRotation EXCEPT !.pc = "create", !.machine = m, !.old = held[m]]]
  /\ UNCHANGED <<tables, held, handed>>

(* For the owner the authentication found. *)
CreateReplacement(r) ==
  /\ RotationAt(r, "create")
  /\ \E t \in Tokens :
       /\ Mint(t, credentials[rotation[r].old].user)
       /\ rotation' = [rotation EXCEPT ![r].pc = "retire", ![r].new = t]
  /\ UNCHANGED <<requests, devices, held, handed>>

(* Whether it is still live is not asked. *)
RetireOld(r) ==
  /\ RotationAt(r, "retire")
  /\ Revoke(rotation[r].old)
  /\ RotationTo(r, "read")
  /\ UNCHANGED <<requests, devices, held, handed>>

ReadBinding(r) ==
  LET d == credentials[rotation[r].old].device IN
  /\ RotationAt(r, "read")
  /\ rotation' = [rotation EXCEPT ![r].device = d,
                    ![r].pc = IF d = NoDevice THEN "respond" ELSE "bind"]
  /\ UNCHANGED <<tables, held, handed>>

BindReplacement(r) ==
  /\ RotationAt(r, "bind")
  /\ credentials' =
       [credentials EXCEPT ![rotation[r].new].device = rotation[r].device]
  /\ RotationTo(r, "point")
  /\ UNCHANGED <<requests, devices, held, handed>>

(* By the row's id: that it is still live, or still names the old          *)
(* credential, is not asked.                                               *)
RepointDevice(r) ==
  /\ RotationAt(r, "point")
  /\ devices' = [devices EXCEPT ![rotation[r].device].credential = rotation[r].new]
  /\ RotationTo(r, "respond")
  /\ UNCHANGED <<requests, credentials, held, handed>>

(* The answer arrives and the machine saves it, over what it holds by now. *)
SaveReplacement(r) ==
  /\ RotationAt(r, "respond")
  /\ HandOut(rotation[r].new)
  /\ held' = [held EXCEPT ![rotation[r].machine] = rotation[r].new]
  /\ RotationEnds(r)
  /\ UNCHANGED tables

RotationStep(r) ==
  \/ Authenticate(r)
  \/ CreateReplacement(r)
  \/ RetireOld(r)
  \/ ReadBinding(r)
  \/ BindReplacement(r)
  \/ RepointDevice(r)
  \/ SaveReplacement(r)

(* A failed request.  The first two throw; the errors of the other three   *)
(* are dropped and the call goes on.                                       *)
RotationFails(r) ==
  /\ \/ rotation[r].pc \in {"create", "retire"} /\ RotationEnds(r)
     \/ rotation[r].pc \in {"read", "point"} /\ RotationTo(r, "respond")
     \/ RotationAt(r, "bind") /\ RotationTo(r, "point")
  /\ UNCHANGED <<tables, held, handed>>

(* The process dies, or its answer is lost. *)
RotationDies(r) ==
  /\ ~RotationAt(r, "idle")
  /\ RotationEnds(r)
  /\ UNCHANGED <<tables, held, handed>>

-----------------------------------------------------------------------------
(* revokeMinerDevice by the device's owner: the row first, if it was live, *)
(* then the credential that the update returned.  (Mutant: it hands on the *)
(* device's own id.)                                                       *)

RevokeByDeviceId(v) ==
  /\ revocation[v] = NoToken
  /\ \E d \in Devices :
       /\ devices[d].exists /\ ~devices[d].revoked
       /\ devices' = [devices EXCEPT ![d].revoked = TRUE]
       /\ revocation' = [revocation EXCEPT ![v] = d]
  /\ UNCHANGED <<requests, credentials, held, handed>>

RevokeDevice(v) ==
  /\ revocation[v] = NoToken
  /\ \E d \in Devices :
       /\ devices[d].exists /\ ~devices[d].revoked
       /\ devices' = [devices EXCEPT ![d].revoked = TRUE]
       /\ revocation' = [revocation EXCEPT ![v] = devices[d].credential]
  /\ UNCHANGED <<requests, credentials, held, handed>>

RevokeDeviceCredential(v) ==
  /\ revocation[v] # NoToken
  /\ Revoke(revocation[v])
  /\ revocation' = [revocation EXCEPT ![v] = NoToken]
  /\ UNCHANGED <<requests, devices, held, handed>>

(* The second request fails or is never made; its error is not looked at   *)
(* and the row, revoked, is not found again.                               *)
RevocationFails(v) ==
  /\ revocation[v] # NoToken
  /\ revocation' = [revocation EXCEPT ![v] = NoToken]
  /\ UNCHANGED <<tables, held, handed>>

(* revokeMinerCredential, by its owner, who is shown the credentials that  *)
(* are in use.                                                             *)
RevokeCredential(v) ==
  /\ revocation[v] = NoToken
  /\ \E t \in Tokens : Live(t) /\ Revoke(t)
  /\ UNCHANGED <<requests, devices, held, handed, revocation>>
=============================================================================
