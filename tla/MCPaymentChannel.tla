-------------------------- MODULE MCPaymentChannel --------------------------
(***************************************************************************)
(* Small instances of PaymentChannel for TLC.                              *)
(***************************************************************************)
EXTENDS PaymentChannel

MCPeriodLedgers == [p \in Periods |-> IF p = "PerLedger" THEN 1 ELSE 2]

\* Callers may pass any i128: a negative amount and zero are among them.
MCAmounts == -1..3

MCRoutes == {<<>>}
=============================================================================
