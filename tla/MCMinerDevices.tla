---------------------------- MODULE MCMinerDevices -----------------------------
(***************************************************************************)
(* Small instances of MinerDevices for TLC.                                *)
(***************************************************************************)
EXTENDS MinerDevices, TLC

CONSTANTS laptop

(* Every pairing attempt is made by the one machine. *)
OneMachine == [q \in Requests |-> laptop]

(* Rows, tokens and concurrent calls are interchangeable. *)
Interchangeable ==
  Permutations(Tokens) \cup Permutations(Devices) \cup Permutations(Approvals)
    \cup Permutations(Polls)
=============================================================================
