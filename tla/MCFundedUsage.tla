----------------------------- MODULE MCFundedUsage -----------------------------
(***************************************************************************)
(* Small instances of FundedUsage for TLC.                                 *)
(***************************************************************************)
EXTENDS FundedUsage, TLC

TopUp == [kind |-> "topup", amount |-> 2, reference |-> "pi_1"]
RefundOfPayment == [kind |-> "refund", amount |-> -2, reference |-> "pi_1"]

Paid == {TopUp}
RefundedByReference == {TopUp, RefundOfPayment}

EventIds == 1..3

Slots == Permutations(Calls)
=============================================================================
