----------------------------- MODULE DeviceTables ------------------------------
(***************************************************************************)
(* The tables behind a paired miner: pairing requests, devices and the     *)
(* credentials that authenticate them.  A token is its credential row: the *)
(* row's hash and the plaintext name the same model value, and whoever     *)
(* holds the value can present it.                                         *)
(***************************************************************************)
EXTENDS Naturals, FiniteSets

CONSTANTS
  Users,          \* accounts
  Machines,       \* computers a miner runs on
  Requests,       \* pairing attempts (bound: how many)
  MachineOf,      \* the machine each attempt is made by
  Identified,     \* attempts that send the installation id (the window does, the CLI does not)
  Devices,        \* device rows (bound)
  Tokens,         \* credential rows (bound)
  NoUser, NoDevice, NoToken   \* null columns

ASSUME DeviceAssumption ==
  /\ Users # {} /\ Machines # {} /\ Requests # {} /\ IsFiniteSet(Requests)
  /\ MachineOf \in [Requests -> Machines]
  /\ Identified \subseteq Requests
  /\ NoUser \notin Users
  /\ NoDevice \notin Devices
  /\ NoToken \notin Tokens

VARIABLES
  requests,     \* miner_pairing_requests
  devices,      \* miner_devices
  credentials,  \* usage_miner_credentials
  held,         \* the credential file of each machine
  handed        \* history: times a token was returned to a machine

tables == <<requests, devices, credentials>>

(* A pairing request; parked is pending_token.                             *)
RequestRow ==
  [ started   : BOOLEAN,
    approver  : Users \cup {NoUser},
    parked    : Tokens \cup {NoToken},
    collected : BOOLEAN,
    denied    : BOOLEAN,
    expired   : BOOLEAN ]

(* A device row; machine stands for its installation id, which a request   *)
(* that is not identified leaves out.                                      *)
DeviceRow ==
  [ exists     : BOOLEAN,
    user       : Users \cup {NoUser},
    identified : BOOLEAN,
    machine    : Machines,
    credential : Tokens \cup {NoToken},
    revoked    : BOOLEAN ]

(* A credential row. *)
CredentialRow ==
  [ user    : Users \cup {NoUser},     \* NoUser: no such row yet
    device  : Devices \cup {NoDevice},
    revoked : BOOLEAN ]

TablesTypeOK ==
  /\ requests \in [Requests -> RequestRow]
  /\ devices \in [Devices -> DeviceRow]
  /\ credentials \in [Tokens -> CredentialRow]
  /\ held \in [Machines -> Tokens \cup {NoToken}]
  /\ handed \in [Tokens -> Nat]

TablesInit ==
  /\ requests = [q \in Requests |->
       [started |-> FALSE, approver |-> NoUser, parked |-> NoToken,
        collected |-> FALSE, denied |-> FALSE, expired |-> FALSE]]
  /\ devices = [d \in Devices |->
       [exists |-> FALSE, user |-> NoUser, identified |-> FALSE,
        machine |-> CHOOSE m \in Machines : TRUE,
        credential |-> NoToken, revoked |-> FALSE]]
  /\ credentials = [t \in Tokens |->
       [user |-> NoUser, device |-> NoDevice, revoked |-> FALSE]]
  /\ held = [m \in Machines |-> NoToken]
  /\ handed = [t \in Tokens |-> 0]

-----------------------------------------------------------------------------
Minted(t) == credentials[t].user # NoUser

(* What authenticateMiner accepts: a row that exists and is not revoked.   *)
(* The device is not looked at.                                            *)
Live(t) == Minted(t) /\ ~credentials[t].revoked

(* lookup: what an approver can still act on.                              *)
Approvable(q) ==
  requests[q].started /\ ~requests[q].collected /\ ~requests[q].denied
  /\ ~requests[q].expired

(* The user's live row for the installation of a request.                  *)
LiveRow(d, u, q) ==
  /\ devices[d].exists /\ devices[d].user = u /\ ~devices[d].revoked
  /\ devices[d].identified /\ q \in Identified
  /\ devices[d].machine = MachineOf[q]

(* credentials.create: a new row, its token in the caller's hands.         *)
Mint(t, u) ==
  /\ ~Minted(t)
  /\ credentials' = [credentials EXCEPT ![t].user = u]

HandOut(t) == handed' = [handed EXCEPT ![t] = @ + 1]

Revoke(t) == credentials' = [credentials EXCEPT ![t].revoked = TRUE]
=============================================================================
