----------------------------- MODULE SpendRate ------------------------------
(***************************************************************************)
(* The spend limit as a rate: PaymentChannel with a record of how much the *)
(* agent spent in each ledger, whichever of the three payment entry points *)
(* it used.                                                                *)
(***************************************************************************)
EXTENDS PaymentChannel

VARIABLE spentAt    \* history: the agent's spending, by channel and ledger

rateVars == <<vars, spentAt>>

RateInit ==
  /\ Init
  /\ spentAt = [c \in Ids |-> [l \in 0..MaxLedger |-> 0]]

\* A payment, by pay, pay_with_conversion or pay_with_route.
RecordedPayment ==
  /\ AgentPays
  /\ spentAt' = [c \in Ids |->
       IF IsOpenedId(c)
       THEN [spentAt[c] EXCEPT ![ledger] =
               @ + channels'[c].total_spent - channels[c].total_spent]
       ELSE spentAt[c]]

RateNext ==
  \/ RecordedPayment
  \/ (Fund \/ Reclaim \/ VoucherSetup \/ Settle \/ CloseLedger \/ SetPaused)
       /\ UNCHANGED spentAt

RateSpec == RateInit /\ [][RateNext]_rateVars

SpentBetween(c, first, last) ==
  Total([l \in first..last |-> spentAt[c][l]])

(* The lazily rolled window never forgets a payment: what the channel      *)
(* records for the current period is what was spent since it started.      *)
WindowIsExact ==
  \A c \in 1..Len(channels) :
    channels[c].spent_this_period =
      SpentBetween(c, channels[c].period_start_ledger, ledger)

(* The limit as a rate: whatever the agent does around a period boundary,  *)
(* no stretch of ledgers as long as the period sees more than twice the    *)
(* limit, and a per-ledger limit is never exceeded at all.                 *)
RateBound ==
  \A c \in 1..Len(channels), first \in 0..MaxLedger :
    LET length == PeriodLedgers[channels[c].period]
        last == IF first + length - 1 <= MaxLedger
                THEN first + length - 1 ELSE MaxLedger
        bound == IF length = 1 THEN channels[c].limit_per_period
                 ELSE 2 * channels[c].limit_per_period
    IN SpentBetween(c, first, last) <= bound

(* Both, for every payment of the agent's.                                 *)
SpendingIsBounded == WindowIsExact /\ RateBound
=============================================================================
