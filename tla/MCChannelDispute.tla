-------------------------- MODULE MCChannelDispute --------------------------
(***************************************************************************)
(* A small instance of ChannelDispute for TLC.                             *)
(***************************************************************************)
EXTENDS ChannelDispute

MCPeriodLedgers == [p \in Periods |-> 1]
MCRoutes == {}
=============================================================================
