--------------------------- MODULE MCProviderBilling ---------------------------
(***************************************************************************)
(* Small instances of ProviderBilling for TLC.                             *)
(***************************************************************************)
EXTENDS ProviderBilling, TLC

OneDay == <<<<5, 4>>>>
MonthEnd == <<<<4, 30>>, <<5, 1>>>>

(* Nothing, or one identity in every period. *)
NothingBilled == [t \in Periods |-> NoAnswer]
OneBilled ==
  LET one == CHOOSE i \in Items : TRUE
      value == CHOOSE v \in Values : TRUE
  IN [t \in Periods |-> [NoAnswer EXCEPT ![one] = value]]

(* Calls of a kind are interchangeable. *)
Calls ==
  Permutations(Users) \cup Permutations(Connects) \cup Permutations(Disconnects) \cup Permutations(Syncs)
=============================================================================
