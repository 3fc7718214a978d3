--------------------------- MODULE PaymentChannel ---------------------------
(***************************************************************************)
(* contracts/payment_channel: channels that custody an owner's deposit,    *)
(* let an agent spend it at a bounded rate, and settle signed vouchers     *)
(* through cooperative closes, unilateral closes, challenges and           *)
(* finalisation.                                                           *)
(*                                                                         *)
(* Operators named Mutant... are broken variants of the definition that    *)
(* follows them; nothing uses them but the mutation runs.                  *)
(*                                                                         *)
(* One contract invocation is one action: a panic rolls the invocation     *)
(* back, so each panic is a conjunct that disables the action.  Channel    *)
(* ids count from 1, so the channels map is a sequence.                    *)
(***************************************************************************)
EXTENDS Totals, Sequences

CONSTANTS
  PriceScale,               \* fixed-point scale of an oracle price
  BpsDenominator,
  MaxSlippageBps,           \* deviation from fair value the contract tolerates
  MaxRouteHops,
  Owners, Agents, Recipients,
  Others,                   \* addresses without a role: watchtowers, keepers
  Tokens,
  Self,                     \* the contract's own address
  Keys, NoKey,              \* voucher-signing keys
  NoSettlement,
  Periods, PeriodLedgers,   \* spend periods and their length in ledgers
  MinDispute, DefaultDispute,
  Windows,                  \* challenge windows that owners ask for
  Amounts,                  \* amounts that callers pass
  Prices,                   \* prices the oracle may quote
  Routes,                   \* routes that agents pass
  MaxChannels,              \* bound: channels ever opened
  MaxFunding,               \* bound: lifetime deposits of one channel
  MaxLedger,                \* bound: last ledger sequence modelled
  LastClose                 \* bound: last ledger at which a close is opened

Ids == 1..MaxChannels
Callers == Owners \cup Agents \cup Recipients \cup Others

ASSUME ConversionAssumption ==
  /\ PriceScale \in Nat \ {0}
  /\ BpsDenominator \in Nat \ {0}
  /\ MaxSlippageBps \in 0..BpsDenominator
  /\ MaxRouteHops \in Nat \ {0}

ASSUME ChannelAssumption ==
  /\ IsFiniteSet(Recipients)
  /\ NoKey \notin Keys
  /\ Self \notin Callers
  /\ PeriodLedgers \in [Periods -> Nat \ {0}]
  /\ MinDispute \in Nat \ {0}
  /\ DefaultDispute \in Nat
  /\ DefaultDispute >= MinDispute
  /\ Windows \subseteq Nat
  /\ Amounts \subseteq Int
  /\ Prices \subseteq Int
  /\ MaxChannels \in Nat
  /\ MaxFunding \in Nat
  /\ MaxLedger \in Nat
  /\ LastClose \in 0..MaxLedger

VARIABLES
  ledger,        \* env.ledger().sequence()
  paused,        \* what the configured circuit breaker reports
  channels,      \* the channels map, by id
  allocations,   \* DataKey::Allocation; a missing entry is all zero
  settlements,   \* DataKey::Settlement; NoSettlement when no close is open
  custody,       \* the contract's balance in each token contract
  deposited,     \* history: what owners put into each channel
  refunded       \* history: what went back to each channel's owner

vars == <<ledger, paused, channels, allocations, settlements, custody,
          deposited, refunded>>

-----------------------------------------------------------------------------
(* The rules a cross-asset payment obeys before the contract hands funds   *)
(* to a venue: the oracle's fair-value floor, the shape of an explicit     *)
(* route, and the output each hop must return.  A venue is external; it is *)
(* any contract that delivers the output it returns, as AmmSwap does.      *)

\* The least output the oracle's price allows for this trade, rounded down
\* twice, as the contract's two integer divisions do.
OracleFloor(amount, price) ==
  LET expected == (amount * price) \div PriceScale
  IN (expected * (BpsDenominator - MaxSlippageBps)) \div BpsDenominator

OracleAccepts(amount, price, minReceived) ==
  price > 0 /\ minReceived >= OracleFloor(amount, price)

\* A route is a non-empty, short, connected chain of swaps that visits no
\* asset twice and names no venue of its own.
RouteIsValid(route, self, from, to) ==
  /\ Len(route) \in 1..MaxRouteHops
  /\ route[1].from_token = from
  /\ route[Len(route)].to_token = to
  /\ \A i \in 2..Len(route) : route[i].from_token = route[i - 1].to_token
  /\ \A i \in 1..Len(route) :
       /\ route[i].min_out >= 0
       /\ route[i].venue # self
       /\ route[i].to_token # from
       /\ \A j \in 1..(i - 1) : route[i].to_token # route[j].to_token

\* What a hop must return: its own minimum, and on the last hop the
\* payment's end-to-end minimum as well.
HopFloor(route, i, minReceived) ==
  IF i = Len(route) /\ minReceived > route[i].min_out
  THEN minReceived
  ELSE route[i].min_out

\* outs[i] is what the venue of hop i returned.
RouteDelivers(route, minReceived, outs) ==
  /\ \A i \in 1..Len(route) :
       outs[i] > 0 /\ outs[i] >= HopFloor(route, i, minReceived)
  /\ outs[Len(route)] >= minReceived

-----------------------------------------------------------------------------
(* Records of the contract.                                                *)

Channel ==
  [agent : Agents, owner : Owners, token : Tokens,
   limit_per_period : Nat, period : Periods,
   spent_this_period : Nat, period_start_ledger : Nat, total_spent : Nat,
   active : BOOLEAN, collateral : Nat, allocated : Nat,
   voucher_signer : Keys \cup {NoKey}, dispute_ledgers : Nat]

Allocation == [amount : Nat, settled : Nat]

\* The sequence number is recorded for audit only and decides nothing.
Settlement ==
  [best_cumulative : Nat, opened_cumulative : Nat, opened_at_ledger : Nat,
   closed_by_payer : BOOLEAN]

\* A missing entry is told from every record.
ASSUME SettlementAssumption == NoSettlement \notin Settlement

Init ==
  /\ ledger = 0
  /\ paused = FALSE
  /\ channels = <<>>
  /\ allocations = [c \in Ids |-> [r \in Recipients |->
                      [amount |-> 0, settled |-> 0]]]
  /\ settlements = [c \in Ids |-> [r \in Recipients |-> NoSettlement]]
  /\ custody = [t \in Tokens |-> 0]
  /\ deposited = [c \in Ids |-> 0]
  /\ refunded = [c \in Ids |-> 0]

-----------------------------------------------------------------------------
(* Token transfers: out of the contract's own balance, or into it.         *)

Receive(token, amount) == custody' = [custody EXCEPT ![token] = @ + amount]

Send(token, amount) ==
  /\ custody[token] >= amount
  /\ custody' = [custody EXCEPT ![token] = @ - amount]

IsOpenedId(c) == c \in 1..Len(channels)

MutantFree(c) == channels[c].collateral

\* Collateral not reserved for any voucher allocation.
Free(c) == channels[c].collateral - channels[c].allocated

-----------------------------------------------------------------------------
(* Funding: the owner's deposit, top-ups, refunds.                         *)

OpenChannel(owner, agent, token, deposit, limit, period) ==
  /\ deposit > 0
  /\ limit > 0
  /\ limit <= deposit
  /\ Len(channels) < MaxChannels
  /\ deposit <= MaxFunding
  /\ Receive(token, deposit)
  /\ channels' = Append(channels,
       [agent |-> agent, owner |-> owner, token |-> token,
        limit_per_period |-> limit, period |-> period,
        spent_this_period |-> 0, period_start_ledger |-> ledger,
        total_spent |-> 0, active |-> TRUE,
        collateral |-> deposit, allocated |-> 0,
        voucher_signer |-> NoKey, dispute_ledgers |-> DefaultDispute])
  /\ deposited' = [deposited EXCEPT ![Len(channels) + 1] = @ + deposit]
  /\ UNCHANGED <<ledger, paused, allocations, settlements, refunded>>

\* The bug that the collateral field was added to fix.
MutantCredited(c, amount) == channels

Credited(c, amount) == [channels EXCEPT ![c].collateral = @ + amount]

TopUp(owner, c, amount) ==
  /\ IsOpenedId(c)
  /\ channels[c].owner = owner
  /\ channels[c].active
  /\ amount > 0
  /\ deposited[c] + amount <= MaxFunding
  /\ Receive(channels[c].token, amount)
  /\ channels' = Credited(c, amount)
  /\ deposited' = [deposited EXCEPT ![c] = @ + amount]
  /\ UNCHANGED <<ledger, paused, allocations, settlements, refunded>>

ClosingRefund(c) == IF Free(c) > 0 THEN Free(c) ELSE 0

\* Closing refunds what no allocation reserves, and never reopens.  It may
\* be called again on a closed channel, to sweep what settlements released.
CloseChannel(owner, c) ==
  /\ IsOpenedId(c)
  /\ channels[c].owner = owner
  /\ LET refund == ClosingRefund(c)
     IN /\ Send(channels[c].token, refund)
        /\ channels' = [channels EXCEPT ![c].collateral = @ - refund,
                                        ![c].active = FALSE]
        /\ refunded' = [refunded EXCEPT ![c] = @ + refund]
  /\ UNCHANGED <<ledger, paused, allocations, settlements, deposited>>

\* With nothing free the call returns 0 and changes nothing.
WithdrawFree(owner, c) ==
  /\ IsOpenedId(c)
  /\ channels[c].owner = owner
  /\ Free(c) > 0
  /\ Send(channels[c].token, Free(c))
  /\ channels' = [channels EXCEPT ![c].collateral = @ - Free(c)]
  /\ refunded' = [refunded EXCEPT ![c] = @ + Free(c)]
  /\ UNCHANGED <<ledger, paused, allocations, settlements, deposited>>

-----------------------------------------------------------------------------
(* On-chain payments by the agent, in the channel's asset or converted.    *)

\* The window starts over without counting from now, or without forgetting.
MutantRolledStale(ch) ==
  IF ledger >= ch.period_start_ledger + PeriodLedgers[ch.period]
  THEN [ch EXCEPT !.spent_this_period = 0]
  ELSE ch

\* The spend window is rolled lazily, by the payment that finds it over.
Rolled(ch) ==
  IF ledger >= ch.period_start_ledger + PeriodLedgers[ch.period]
  THEN [ch EXCEPT !.spent_this_period = 0, !.period_start_ledger = ledger]
  ELSE ch

MaySpend(agent, c, amount) ==
  /\ ~paused
  /\ IsOpenedId(c)
  /\ channels[c].active
  /\ channels[c].agent = agent
  /\ amount > 0
  /\ Rolled(channels[c]).spent_this_period + amount
       <= channels[c].limit_per_period
  /\ amount <= Free(c)

\* Whatever asset the recipient ends up with, the channel's own asset leaves.
Spend(c, amount) ==
  /\ Send(channels[c].token, amount)
  /\ LET rolled == Rolled(channels[c])
     IN channels' = [channels EXCEPT ![c] =
          [rolled EXCEPT !.spent_this_period = @ + amount,
                         !.total_spent = @ + amount,
                         !.collateral = @ - amount]]
  /\ UNCHANGED <<ledger, paused, allocations, settlements, deposited,
                 refunded>>

Pay(agent, c, amount) ==
  /\ MaySpend(agent, c, amount)
  /\ Spend(c, amount)

\* received is what the AMM returned.
PayWithConversion(agent, c, amount, dest, minReceived, price, received) ==
  /\ minReceived >= 0
  /\ MaySpend(agent, c, amount)
  /\ IF dest = channels[c].token
     THEN minReceived <= amount /\ received = amount
     ELSE OracleAccepts(amount, price, minReceived)
          /\ received >= minReceived
  /\ Spend(c, amount)

\* outs are the outputs the venues returned, hop by hop.
PayWithRoute(agent, c, amount, dest, route, minOut, until, price, outs) ==
  /\ minOut >= 0
  /\ ledger <= until
  /\ MaySpend(agent, c, amount)
  /\ IF dest = channels[c].token
     THEN route = <<>> /\ minOut <= amount
     ELSE /\ RouteIsValid(route, Self, channels[c].token, dest)
          /\ OracleAccepts(amount, price, minOut)
          /\ RouteDelivers(route, minOut, outs)
  /\ Spend(c, amount)

-----------------------------------------------------------------------------
(* Vouchers.                                                               *)

\* Calling it again rotates the key and resets the window length, also while
\* a close is open.
EnableVouchers(owner, c, key, window) ==
  /\ window >= MinDispute
  /\ IsOpenedId(c)
  /\ channels[c].owner = owner
  /\ channels[c].active
  /\ channels' = [channels EXCEPT ![c].voucher_signer = key,
                                  ![c].dispute_ledgers = window]
  /\ UNCHANGED <<ledger, paused, allocations, settlements, custody,
                 deposited, refunded>>

InFlight(c, r) == settlements[c][r] # NoSettlement

Allocate(owner, c, r, amount) ==
  /\ amount > 0
  /\ IsOpenedId(c)
  /\ channels[c].owner = owner
  /\ channels[c].active
  /\ channels[c].voucher_signer # NoKey
  /\ amount <= Free(c)
  /\ ~InFlight(c, r)
  /\ allocations' = [allocations EXCEPT ![c][r].amount = @ + amount]
  /\ channels' = [channels EXCEPT ![c].allocated = @ + amount]
  /\ UNCHANGED <<ledger, paused, settlements, custody, deposited, refunded>>

MutantVoucherIsValid(c, r, cum) ==
  /\ channels[c].voucher_signer # NoKey
  /\ cum > 0
  /\ cum <= allocations[c][r].amount

\* A voucher for the cumulative amount cum, signed by the channel's current
\* key, passes every check.
VoucherIsValid(c, r, cum) ==
  /\ channels[c].voucher_signer # NoKey
  /\ cum > 0
  /\ cum <= allocations[c][r].amount
  /\ cum > allocations[c][r].settled

MutantDue(c, r, cum, penalty) == cum + penalty

\* What the voucher adds to earlier settlements.
Due(c, r, cum, penalty) == cum - allocations[c][r].settled + penalty

\* Pay what is due and release the whole reservation.
PayOut(c, r, cum, penalty) ==
  LET due == Due(c, r, cum, penalty)
  IN /\ due >= 0
     /\ due <= channels[c].collateral
     /\ Send(channels[c].token, due)
     /\ channels' = [channels EXCEPT
                       ![c].allocated = @ - allocations[c][r].amount,
                       ![c].collateral = @ - due,
                       ![c].total_spent = @ + due]
     /\ allocations' = [allocations EXCEPT ![c][r] =
                          [amount |-> 0, settled |-> cum + penalty]]

MutantCloseCooperative(c, r, cum) ==
  /\ ~paused
  /\ IsOpenedId(c)
  /\ VoucherIsValid(c, r, cum)
  /\ PayOut(c, r, cum, 0)
  /\ UNCHANGED <<ledger, paused, settlements, deposited, refunded>>

CloseCooperative(c, r, cum) ==
  /\ ~paused
  /\ IsOpenedId(c)
  /\ VoucherIsValid(c, r, cum)
  /\ ~InFlight(c, r)
  /\ PayOut(c, r, cum, 0)
  /\ UNCHANGED <<ledger, paused, settlements, deposited, refunded>>

CloseUnilateral(closer, c, r, cum) ==
  /\ ~paused
  /\ IsOpenedId(c)
  /\ VoucherIsValid(c, r, cum)
  /\ ~InFlight(c, r)
  /\ ledger <= LastClose
  /\ settlements' = [settlements EXCEPT ![c][r] =
       [best_cumulative |-> cum, opened_cumulative |-> cum,
        opened_at_ledger |-> ledger,
        closed_by_payer |-> closer \in {channels[c].owner,
                                        channels[c].agent}]]
  /\ UNCHANGED <<ledger, paused, channels, allocations, custody, deposited,
                 refunded>>

\* The window is measured with the channel's length of today.
Deadline(c, r) ==
  settlements[c][r].opened_at_ledger + channels[c].dispute_ledgers

MutantWindowIsOver(c, r) == ~paused /\ ledger >= Deadline(c, r)

MutantWindowEarly(c, r) == ledger + 1 >= Deadline(c, r)

WindowIsOver(c, r) == ledger >= Deadline(c, r)

Supersedes(candidate, best) == candidate > best

Challenge(c, r, cum) ==
  /\ IsOpenedId(c)
  /\ VoucherIsValid(c, r, cum)
  /\ InFlight(c, r)
  /\ ~WindowIsOver(c, r)
  /\ Supersedes(cum, settlements[c][r].best_cumulative)
  /\ settlements' = [settlements EXCEPT ![c][r].best_cumulative = cum]
  /\ UNCHANGED <<ledger, paused, channels, allocations, custody, deposited,
                 refunded>>

MutantPenalty(c, r) ==
  LET s == settlements[c][r]
  IN IF s.closed_by_payer THEN s.best_cumulative - s.opened_cumulative ELSE 0

\* A payer caught understating forfeits the understatement, as far as the
\* rest of the allocation covers it.
Penalty(c, r) ==
  LET s == settlements[c][r]
      understatement == s.best_cumulative - s.opened_cumulative
      reclaimable == allocations[c][r].amount - s.best_cumulative
  IN IF s.closed_by_payer /\ understatement > 0
     THEN IF understatement < reclaimable THEN understatement ELSE reclaimable
     ELSE 0

Finalize(c, r) ==
  /\ IsOpenedId(c)
  /\ InFlight(c, r)
  /\ WindowIsOver(c, r)
  /\ settlements' = [settlements EXCEPT ![c][r] = NoSettlement]
  /\ PayOut(c, r, settlements[c][r].best_cumulative, Penalty(c, r))
  /\ UNCHANGED <<ledger, paused, deposited, refunded>>

-----------------------------------------------------------------------------
(* The environment: ledgers close, the circuit breaker is tripped or reset *)
(* (or another one is configured).                                         *)

CloseLedger ==
  /\ ledger < MaxLedger
  /\ ledger' = ledger + 1
  /\ UNCHANGED <<paused, channels, allocations, settlements, custody,
                 deposited, refunded>>

SetPaused ==
  /\ paused' = ~paused
  /\ UNCHANGED <<ledger, channels, allocations, settlements, custody,
                 deposited, refunded>>

-----------------------------------------------------------------------------
Fund ==
  \E owner \in Owners, amount \in Amounts :
    \/ \E agent \in Agents, token \in Tokens, limit \in Amounts,
          period \in Periods :
         OpenChannel(owner, agent, token, amount, limit, period)
    \/ \E c \in Ids : TopUp(owner, c, amount)

Reclaim ==
  \E owner \in Owners, c \in Ids :
    CloseChannel(owner, c) \/ WithdrawFree(owner, c)

AgentPays ==
  \E agent \in Agents, c \in Ids, amount \in Amounts :
    \/ Pay(agent, c, amount)
    \/ \E dest \in Tokens, minReceived \in Amounts, price \in Prices :
         \/ \E received \in Amounts :
              PayWithConversion(agent, c, amount, dest, minReceived, price,
                                received)
         \/ \E route \in Routes, validUntil \in 0..MaxLedger :
              \E outs \in [1..Len(route) -> Amounts] :
                PayWithRoute(agent, c, amount, dest, route, minReceived,
                             validUntil, price, outs)

VoucherSetup ==
  \E owner \in Owners, c \in Ids :
    \/ \E key \in Keys, window \in Windows :
         EnableVouchers(owner, c, key, window)
    \/ \E r \in Recipients, amount \in Amounts : Allocate(owner, c, r, amount)

Settle ==
  \E c \in Ids, r \in Recipients :
    \/ \E cum \in Amounts :
         \/ CloseCooperative(c, r, cum)
         \/ Challenge(c, r, cum)
         \/ \E closer \in Callers : CloseUnilateral(closer, c, r, cum)
    \/ Finalize(c, r)

Next ==
  Fund \/ Reclaim \/ AgentPays \/ VoucherSetup \/ Settle
    \/ CloseLedger \/ SetPaused

Spec == Init /\ [][Next]_vars

\* Ledgers keep closing, and a keeper or the recipient finalises a close
\* whose window is over: anyone may.
Fairness ==
  /\ WF_vars(CloseLedger)
  /\ \A c \in Ids, r \in Recipients : WF_vars(Finalize(c, r))

FairSpec == Spec /\ Fairness

-----------------------------------------------------------------------------
(* What must be true of the payment channel's accounting.                  *)

Reserved(c) == [r \in Recipients |-> allocations[c][r].amount]

Collateral(c) == IF IsOpenedId(c) THEN channels[c].collateral ELSE 0

(* Every stored amount is a natural number, every record complete.         *)
TypeOK ==
  /\ ledger \in Nat
  /\ paused \in BOOLEAN
  /\ channels \in Seq(Channel) /\ Len(channels) <= MaxChannels
  /\ allocations \in [Ids -> [Recipients -> Allocation]]
  /\ settlements \in [Ids -> [Recipients -> Settlement \cup {NoSettlement}]]
  /\ custody \in [Tokens -> Nat]
  /\ deposited \in [Ids -> Nat]
  /\ refunded \in [Ids -> Nat]

(* pay_out and allocate keep the channel's "allocated" counter equal to    *)
(* the sum of the per-recipient reservations, and no spend, refund or      *)
(* settlement ever leaves less collateral than that.                       *)
Backed ==
  \A c \in 1..Len(channels) :
    /\ channels[c].allocated = Total(Reserved(c))
    /\ channels[c].allocated <= channels[c].collateral

HeldFor(t) ==
  [c \in Ids |->
     IF IsOpenedId(c) /\ channels[c].token = t THEN Collateral(c) ELSE 0]

(* The contract's balance of a token is what its channels in that token    *)
(* record as collateral: no channel is paid from another one's deposit,    *)
(* and no transfer goes unrecorded.                                        *)
Custodied == \A t \in Tokens : custody[t] = Total(HeldFor(t))

(* Every unit an owner put into a channel is still collateral, was spent   *)
(* (by pay or by a voucher payout) or went back to the owner.              *)
Conserved ==
  \A c \in 1..Len(channels) :
    deposited[c] =
      channels[c].collateral + channels[c].total_spent + refunded[c]

(* An open close was begun with a voucher not settled before, can only     *)
(* have been raised, and stays within the reservation it was checked       *)
(* against: neither allocate, nor another recipient's payout, nor a key    *)
(* rotation disturbs it, so finalize has nothing left to panic on.         *)
SettlementBounded ==
  \A c \in Ids, r \in Recipients : InFlight(c, r) =>
    /\ allocations[c][r].settled < settlements[c][r].opened_cumulative
    /\ settlements[c][r].opened_cumulative
         <= settlements[c][r].best_cumulative
    /\ settlements[c][r].best_cumulative <= allocations[c][r].amount
    /\ settlements[c][r].opened_at_ledger <= ledger

(* What a recipient was paid through vouchers never shrinks, and while its *)
(* close is open nothing but finalize pays it: a cooperative close cannot  *)
(* sidestep the window, and the best voucher only improves.                *)
SettlementOrdered ==
  [][\A c \in Ids, r \in Recipients :
       /\ allocations'[c][r].settled >= allocations[c][r].settled
       /\ InFlight(c, r) /\ InFlight(c, r)' =>
            /\ allocations'[c][r] = allocations[c][r]
            /\ settlements'[c][r].best_cumulative
                 >= settlements[c][r].best_cumulative
       /\ InFlight(c, r) /\ ~InFlight(c, r)' =>
            allocations'[c][r].settled >= settlements[c][r].best_cumulative
    ]_vars

(* A close that was opened is paid out in the end, whatever the owner, the *)
(* agent, other recipients or the circuit breaker do meanwhile.            *)
ClosesSettle ==
  \A c \in Ids, r \in Recipients : InFlight(c, r) ~> ~InFlight(c, r)

-----------------------------------------------------------------------------
(* The channel is a vault: its recorded collateral is what is held.        *)

Phase(c) ==
  IF IsOpenedId(c)
  THEN IF channels[c].active THEN "open" ELSE "closed"
  ELSE "unopened"

Vault == INSTANCE ChannelVault WITH
  phase <- [c \in Ids |-> Phase(c)],
  held <- [c \in Ids |-> Collateral(c)],
  reserved <- [c \in Ids |-> Reserved(c)]

(* Spending and refunding take only unreserved funds, a recipient is paid  *)
(* from its own reservation alone, and a closed channel only pays out.     *)
IsVault == Vault!VaultSpec
=============================================================================
