-------------------------------- MODULE Pairing --------------------------------
(***************************************************************************)
(* Browser pairing: a device asks for a code, a signed-in user approves or *)
(* denies it, the device polls for its credential.  An approval is nine    *)
(* requests in a row and a poll is two; both may be running more than      *)
(* once (two tabs, a poll whose answer timed out), and each await is a     *)
(* point where the others go on.                                           *)
(***************************************************************************)
EXTENDS DeviceTables

CONSTANTS
  Approvals,    \* concurrent approve calls
  Polls,        \* concurrent collect calls
  MaxFailures   \* bound: database requests that fail, and processes that die

ASSUME PairingAssumption == MaxFailures \in Nat

VARIABLES
  approval,     \* the local state of each approve
  poll,         \* the local state of each collect
  failures

ApprovalPc == {"idle", "mint", "claim", "find", "point", "insert", "bind",
               "park", "retire", "abandon"}

Approval ==
  [ pc       : ApprovalPc,
    request  : Requests,
    user     : Users,
    token    : Tokens \cup {NoToken},
    device   : Devices \cup {NoDevice},
    replaced : Tokens \cup {NoToken} ]

Poll == [ pc : {"idle", "claim", "respond"}, request : Requests,
          token : Tokens \cup {NoToken} ]

IdleApproval ==
  [ pc |-> "idle", request |-> CHOOSE q \in Requests : TRUE,
    user |-> CHOOSE u \in Users : TRUE, token |-> NoToken,
    device |-> NoDevice, replaced |-> NoToken ]

IdlePoll ==
  [ pc |-> "idle", request |-> CHOOSE q \in Requests : TRUE, token |-> NoToken ]

PairingTypeOK ==
  /\ approval \in [Approvals -> Approval]
  /\ poll \in [Polls -> Poll]
  /\ failures \in 0 .. MaxFailures

PairingInit ==
  /\ approval = [a \in Approvals |-> IdleApproval]
  /\ poll = [p \in Polls |-> IdlePoll]
  /\ failures = 0

ApprovalAt(a, pc) == approval[a].pc = pc
ApprovalTo(a, pc) == approval' = [approval EXCEPT ![a].pc = pc]
ApprovalEnds(a) == approval' = [approval EXCEPT ![a] = IdleApproval]

-----------------------------------------------------------------------------
(* The device asks.  Nobody owns the request yet.                          *)
StartPairing(q) ==
  /\ ~requests[q].started
  /\ requests' = [requests EXCEPT ![q].started = TRUE]
  /\ UNCHANGED <<devices, credentials, approval>>

(* Ten minutes pass; of a request already closed nobody would ask. *)
ExpireRequest(q) ==
  /\ Approvable(q)
  /\ requests' = [requests EXCEPT ![q].expired = TRUE]
  /\ UNCHANGED <<devices, credentials, approval>>

(* deny: one conditional update.                                           *)
Deny(q) ==
  /\ requests[q].started /\ ~requests[q].denied /\ ~requests[q].collected
  /\ requests' = [requests EXCEPT ![q].denied = TRUE]
  /\ UNCHANGED <<devices, credentials, approval>>

-----------------------------------------------------------------------------
(* approve.                                                                *)

LookUp(a) ==
  /\ ApprovalAt(a, "idle")
  /\ \E q \in Requests, u \in Users :
       /\ Approvable(q)
       /\ approval' = [approval EXCEPT ![a] =
            [IdleApproval EXCEPT !.pc = "mint", !.request = q, !.user = u]]
  /\ UNCHANGED tables

MintCredential(a) ==
  /\ ApprovalAt(a, "mint")
  /\ \E t \in Tokens :
       /\ Mint(t, approval[a].user)
       /\ approval' = [approval EXCEPT ![a].pc = "claim", ![a].token = t]
  /\ UNCHANGED <<requests, devices>>

(* The first approval takes the request; a later one revokes what it       *)
(* minted and changes nothing.  Neither denial nor expiry is asked again.  *)
(* (Mutant: the later one leaves what it minted.)                          *)
ClaimOrLeave(a) ==
  LET q == approval[a].request IN
  /\ ApprovalAt(a, "claim")
  /\ IF requests[q].approver = NoUser
     THEN /\ requests' = [requests EXCEPT ![q].approver = approval[a].user]
          /\ ApprovalTo(a, IF q \in Identified THEN "find" ELSE "insert")
     ELSE ApprovalEnds(a) /\ UNCHANGED requests
  /\ UNCHANGED <<devices, credentials>>

ClaimRequest(a) ==
  LET q == approval[a].request IN
  /\ ApprovalAt(a, "claim")
  /\ IF requests[q].approver = NoUser
     THEN /\ requests' = [requests EXCEPT ![q].approver = approval[a].user]
          /\ ApprovalTo(a, IF q \in Identified THEN "find" ELSE "insert")
     ELSE ApprovalTo(a, "abandon") /\ UNCHANGED requests
  /\ UNCHANGED <<devices, credentials>>

(* claimDeviceRow: this user's live row for the installation, if any.      *)
(* (Mutant: whoever's.)                                                    *)
FindAnyDevice(a) ==
  LET found == {d \in Devices : \E u \in Users :
                  LiveRow(d, u, approval[a].request)} IN
  /\ ApprovalAt(a, "find")
  /\ IF found = {} THEN ApprovalTo(a, "insert")
     ELSE \E d \in found :
            approval' = [approval EXCEPT
              ![a].pc = "point", ![a].device = d,
              ![a].replaced = devices[d].credential]
  /\ UNCHANGED tables

FindDevice(a) ==
  LET found == {d \in Devices :
                  LiveRow(d, approval[a].user, approval[a].request)} IN
  /\ ApprovalAt(a, "find")
  /\ IF found = {} THEN ApprovalTo(a, "insert")
     ELSE \E d \in found :
            approval' = [approval EXCEPT
              ![a].pc = "point", ![a].device = d,
              ![a].replaced = devices[d].credential]
  /\ UNCHANGED tables

(* The row is updated by its id; that it is still live is not asked again. *)
(* (Mutant: what it replaces is retired at once.)                          *)
PointAndRetire(a) ==
  LET d == approval[a].device IN
  /\ ApprovalAt(a, "point")
  /\ devices' = [devices EXCEPT ![d].credential = approval[a].token]
  /\ Revoke(approval[a].replaced)
  /\ ApprovalTo(a, "bind")
  /\ UNCHANGED requests

PointDevice(a) ==
  LET d == approval[a].device IN
  /\ ApprovalAt(a, "point")
  /\ devices' = [devices EXCEPT ![d].credential = approval[a].token]
  /\ ApprovalTo(a, "bind")
  /\ UNCHANGED <<requests, credentials>>

(* A new row, unless the unique index says another approval inserted one.  *)
InsertDevice(a) ==
  LET q == approval[a].request
      u == approval[a].user
  IN
  /\ ApprovalAt(a, "insert")
  /\ IF \E d \in Devices : LiveRow(d, u, q)
     THEN ApprovalTo(a, "abandon") /\ UNCHANGED devices
     ELSE \E d \in Devices :
            /\ ~devices[d].exists
            /\ devices' = [devices EXCEPT ![d] =
                 [exists |-> TRUE, user |-> u, identified |-> q \in Identified,
                  machine |-> MachineOf[q], credential |-> approval[a].token,
                  revoked |-> FALSE]]
            /\ approval' = [approval EXCEPT ![a].pc = "bind", ![a].device = d]
  /\ UNCHANGED <<requests, credentials>>

BindCredential(a) ==
  /\ ApprovalAt(a, "bind")
  /\ credentials' = [credentials EXCEPT
       ![approval[a].token].device = approval[a].device]
  /\ ApprovalTo(a, "park")
  /\ UNCHANGED <<requests, devices>>

(* From here the device's poll finds it.                                   *)
ParkToken(a) ==
  /\ ApprovalAt(a, "park")
  /\ requests' = [requests EXCEPT
       ![approval[a].request].parked = approval[a].token]
  /\ IF approval[a].replaced \notin {NoToken, approval[a].token}
     THEN ApprovalTo(a, "retire") ELSE ApprovalEnds(a)
  /\ UNCHANGED <<devices, credentials>>

RetireReplaced(a) ==
  /\ ApprovalAt(a, "retire")
  /\ Revoke(approval[a].replaced)
  /\ ApprovalEnds(a)
  /\ UNCHANGED <<requests, devices>>

(* What was minted was never delivered; it is not left live.               *)
Abandon(a) ==
  /\ ApprovalAt(a, "abandon")
  /\ Revoke(approval[a].token)
  /\ ApprovalEnds(a)
  /\ UNCHANGED <<requests, devices>>

(* The claim or a request after it fails, and the token is revoked; or the *)
(* process dies, or one of the other requests throws.                      *)
ApprovalFails(a) ==
  /\ approval[a].pc \in {"claim", "find", "point", "insert", "bind", "park"}
  /\ ApprovalTo(a, "abandon")
  /\ UNCHANGED tables

ApprovalDies(a) ==
  /\ ~ApprovalAt(a, "idle")
  /\ ApprovalEnds(a)
  /\ UNCHANGED tables

-----------------------------------------------------------------------------
(* collect, authenticated by the poll token alone.                         *)

ReadRequest(p) ==
  /\ poll[p].pc = "idle"
  /\ \E q \in Requests :
       /\ Approvable(q)
       /\ requests[q].approver # NoUser /\ requests[q].parked # NoToken
       /\ poll' = [poll EXCEPT ![p] =
            [pc |-> "claim", request |-> q, token |-> requests[q].parked]]
  /\ UNCHANGED <<requests, handed>>

(* Marked collected and cleared in one statement, once.  Denial is not     *)
(* asked again.  (Mutant: nor is collection.)                              *)
CollectAnyway(p) ==
  LET q == poll[p].request IN
  /\ poll[p].pc = "claim"
  /\ requests' = [requests EXCEPT ![q].collected = TRUE, ![q].parked = NoToken]
  /\ poll' = [poll EXCEPT ![p].pc = "respond"]
  /\ HandOut(poll[p].token)

Collect(p) ==
  LET q == poll[p].request IN
  /\ poll[p].pc = "claim"
  /\ IF requests[q].collected
     THEN poll' = [poll EXCEPT ![p] = IdlePoll] /\ UNCHANGED <<requests, handed>>
     ELSE /\ requests' = [requests EXCEPT ![q].collected = TRUE,
                                          ![q].parked = NoToken]
          /\ poll' = [poll EXCEPT ![p].pc = "respond"]
          /\ HandOut(poll[p].token)

(* The answer arrives and the machine saves it, over what it held.         *)
Deliver(p) ==
  /\ poll[p].pc = "respond"
  /\ held' = [held EXCEPT ![MachineOf[poll[p].request]] = poll[p].token]
  /\ poll' = [poll EXCEPT ![p] = IdlePoll]
  /\ UNCHANGED <<requests, handed>>

(* The process dies, or its answer is lost.                                *)
PollDies(p) ==
  /\ poll[p].pc # "idle"
  /\ poll' = [poll EXCEPT ![p] = IdlePoll]
  /\ UNCHANGED <<requests, handed>>

-----------------------------------------------------------------------------
ApprovalStep(a) ==
  \/ LookUp(a)
  \/ MintCredential(a)
  \/ ClaimRequest(a)
  \/ FindDevice(a)
  \/ PointDevice(a)
  \/ InsertDevice(a)
  \/ BindCredential(a)
  \/ ParkToken(a)
  \/ RetireReplaced(a)
  \/ Abandon(a)
=============================================================================
