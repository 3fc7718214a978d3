------------------------ MODULE PaymentChannelProofs ------------------------
(***************************************************************************)
(* Proofs, for every set of parties and every amount, of the channel's     *)
(* accounting: types, backing of the reservations, the bounds of an open   *)
(* close, the pooled balance, the refinement of the vault and the order of *)
(* settlements; and of its two windows, for every length: the one that     *)
(* bounds the agent's rate and the one in which a stale close is answered. *)
(***************************************************************************)
EXTENDS SpendRate, ChannelDispute, SequenceTheorems

(* The three invariants hold together: the payout of a close stays within  *)
(* its reservation (SettlementBounded), the reservations within the        *)
(* collateral (Backed), and so no subtraction goes below zero (TypeOK).    *)
(* A new channel starts backed because nothing is reserved under its id.   *)
UnopenedIsEmpty ==
  \A c \in Ids, r \in Recipients :
    ~IsOpenedId(c) => allocations[c][r].amount = 0

Inv == TypeOK /\ Backed /\ SettlementBounded /\ UnopenedIsEmpty

(* Storing a record under an existing id changes that channel only.        *)
LEMMA StoreChannel ==
  ASSUME NEW S, NEW s \in Seq(S), NEW i \in 1..Len(s), NEW v \in S
  PROVE  LET t == [s EXCEPT ![i] = v]
         IN  /\ t \in Seq(S)
             /\ Len(t) = Len(s)
             /\ t[i] = v
             /\ \A j \in 1..Len(s) : j # i => t[j] = s[j]
BY ExceptSeq

(* An action that rewrites one channel and leaves its reservations alone   *)
(* keeps the invariant when the new record covers what it reserves.        *)
LEMMA OneChannelChanges ==
  ASSUME Inv, NEW c \in 1..Len(channels), NEW new \in Channel,
         channels' = [channels EXCEPT ![c] = new],
         new.allocated = channels[c].allocated,
         new.allocated <= new.collateral,
         UNCHANGED <<ledger, paused, allocations, settlements>>,
         custody' \in [Tokens -> Nat],
         deposited' \in [Ids -> Nat],
         refunded' \in [Ids -> Nat]
  PROVE  Inv'
<1>1. /\ channels' \in Seq(Channel)
      /\ Len(channels') = Len(channels)
      /\ channels'[c] = new
      /\ \A d \in 1..Len(channels) : d # c => channels'[d] = channels[d]
  BY StoreChannel DEF Inv, TypeOK
<1>2. TypeOK'
  BY <1>1 DEF Inv, TypeOK
<1>3. Backed'
  BY <1>1 DEF Inv, Backed, Reserved
<1>4. SettlementBounded'
  BY DEF Inv, SettlementBounded, InFlight
<1>5. UnopenedIsEmpty'
  BY <1>1 DEF Inv, UnopenedIsEmpty, IsOpenedId
<1> QED
  BY <1>2, <1>3, <1>4, <1>5 DEF Inv

LEMMA InitInv == Init => Inv
<1> SUFFICES ASSUME Init PROVE Inv
  OBVIOUS
<1> USE ChannelAssumption
<1>1. channels \in Seq(Channel) /\ Len(channels) = 0
  BY EmptySeq DEF Init
<1>2. allocations \in [Ids -> [Recipients -> Allocation]]
  BY DEF Init, Allocation
<1>3. TypeOK
  <2>1. ledger \in Nat /\ paused \in BOOLEAN
    BY DEF Init
  <2>2. settlements \in [Ids -> [Recipients -> Settlement \cup {NoSettlement}]]
    BY DEF Init
  <2>3. /\ custody \in [Tokens -> Nat]
        /\ deposited \in [Ids -> Nat]
        /\ refunded \in [Ids -> Nat]
    BY DEF Init
  <2> QED
    BY <1>1, <1>2, <2>1, <2>2, <2>3 DEF TypeOK
<1>4. Backed
  BY <1>1 DEF Backed
<1>5. SettlementBounded
  BY DEF Init, SettlementBounded, InFlight
<1>6. UnopenedIsEmpty
  BY DEF Init, UnopenedIsEmpty
<1> QED
  BY <1>3, <1>4, <1>5, <1>6 DEF Inv

(* What an action knows of an opened channel.                              *)
LEMMA OpenedChannel ==
  ASSUME Inv, NEW c, IsOpenedId(c)
  PROVE  /\ c \in 1..Len(channels)
         /\ c \in Ids
         /\ channels[c] \in Channel
         /\ channels[c].token \in Tokens
         /\ channels[c].collateral \in Nat
         /\ channels[c].allocated \in Nat
         /\ channels[c].spent_this_period \in Nat
         /\ channels[c].total_spent \in Nat
         /\ channels[c].allocated <= channels[c].collateral
<1>1. c \in 1..Len(channels) /\ Len(channels) \in Nat
  BY LenProperties DEF IsOpenedId, Inv, TypeOK
<1>2. channels[c] \in Channel
  BY <1>1, ElementOfSeq DEF Inv, TypeOK
<1>3. c \in Ids
  BY <1>1, ChannelAssumption DEF Inv, TypeOK, Ids
<1>4. channels[c].allocated <= channels[c].collateral
  BY <1>1 DEF Inv, Backed
<1> QED
  BY <1>1, <1>2, <1>3, <1>4 DEF Channel

-----------------------------------------------------------------------------
(* Funding.                                                                *)

LEMMA OpenChannelInv ==
  ASSUME Inv,
         NEW owner \in Owners, NEW agent \in Agents, NEW token \in Tokens,
         NEW deposit \in Amounts, NEW limit \in Amounts,
         NEW period \in Periods,
         OpenChannel(owner, agent, token, deposit, limit, period)
  PROVE  Inv'
<1> USE ChannelAssumption
<1> DEFINE n == Len(channels)
           new == channels'[n + 1]
<1>1. deposit \in Nat /\ limit \in Nat /\ n \in Nat /\ n + 1 \in Ids
  BY LenProperties DEF OpenChannel, Inv, TypeOK, Ids
<1>2. /\ channels' \in Seq(Channel)
      /\ Len(channels') = n + 1
      /\ \A c \in 1..n : channels'[c] = channels[c]
      /\ new.allocated = 0
      /\ new.collateral = deposit
  BY <1>1, AppendProperties DEF OpenChannel, Inv, TypeOK, Channel
<1>3. TypeOK'
  <2>1. custody' \in [Tokens -> Nat]
    BY <1>1 DEF OpenChannel, Receive, Inv, TypeOK
  <2>2. deposited' \in [Ids -> Nat]
    BY <1>1 DEF OpenChannel, Inv, TypeOK
  <2>3. Len(channels') <= MaxChannels
    BY <1>1, <1>2 DEF Ids
  <2>4. UNCHANGED <<ledger, paused, allocations, settlements, refunded>>
    BY DEF OpenChannel
  <2> QED
    BY <1>2, <2>1, <2>2, <2>3, <2>4 DEF Inv, TypeOK
<1>4. Backed'
  <2>1. allocations' = allocations
    BY DEF OpenChannel
  <2>2. \A c \in 1..n : /\ channels'[c].allocated = Total(Reserved(c))'
                        /\ channels'[c].allocated <= channels'[c].collateral
    BY <1>2, <2>1 DEF Inv, Backed, Reserved
  <2>3. Total(Reserved(n + 1)) = 0
    <3>1. Reserved(n + 1) \in [Recipients -> Nat]
      BY <1>1 DEF Inv, TypeOK, Reserved, Allocation
    <3>2. \A r \in Recipients : Reserved(n + 1)[r] = 0
      BY <1>1 DEF Inv, UnopenedIsEmpty, Reserved, IsOpenedId
    <3> QED
      BY <3>1, <3>2, TotalZero
  <2>4. ASSUME NEW c \in 1..Len(channels')
        PROVE  /\ channels'[c].allocated = Total(Reserved(c))'
               /\ channels'[c].allocated <= channels'[c].collateral
    <3>1. CASE c \in 1..n
      BY <2>2, <3>1
    <3>2. CASE c = n + 1
      <4>1. Reserved(c)' = Reserved(c)
        BY <2>1 DEF Reserved
      <4> QED
        BY <1>1, <1>2, <2>3, <3>2, <4>1
    <3> QED
      BY <1>1, <1>2, <2>4, <3>1, <3>2
  <2> QED
    BY <2>4 DEF Backed
<1>5. SettlementBounded'
  BY DEF OpenChannel, Inv, SettlementBounded, InFlight
<1>6. UnopenedIsEmpty'
  BY <1>1, <1>2 DEF OpenChannel, Inv, UnopenedIsEmpty, IsOpenedId
<1> QED
  BY <1>3, <1>4, <1>5, <1>6 DEF Inv

LEMMA TopUpInv ==
  ASSUME Inv, NEW owner \in Owners, NEW c \in Ids, NEW amount \in Amounts,
         TopUp(owner, c, amount)
  PROVE  Inv'
<1> USE ChannelAssumption
<1> DEFINE new == [channels[c] EXCEPT !.collateral = @ + amount]
<1>1. /\ c \in 1..Len(channels)
      /\ channels[c] \in Channel
      /\ channels[c].collateral \in Nat
      /\ channels[c].allocated \in Nat
      /\ channels[c].allocated <= channels[c].collateral
      /\ channels[c].token \in Tokens
  BY OpenedChannel DEF TopUp
<1>2. amount \in Nat
  BY DEF TopUp
<1>7. /\ channels[c].collateral + amount \in Nat
      /\ channels[c].allocated <= channels[c].collateral + amount
  BY <1>1, <1>2
<1>3. /\ new \in Channel
      /\ new.allocated = channels[c].allocated
      /\ new.allocated <= new.collateral
  BY <1>1, <1>2, <1>7 DEF Channel
<1>4. channels' = [channels EXCEPT ![c] = new]
  BY DEF TopUp, Credited
<1>5. custody' \in [Tokens -> Nat] /\ deposited' \in [Ids -> Nat]
  <2>1. custody' \in [Tokens -> Nat]
    BY <1>1, <1>2 DEF TopUp, Receive, Inv, TypeOK
  <2>2. deposited' \in [Ids -> Nat]
    BY <1>2 DEF TopUp, Inv, TypeOK
  <2> QED
    BY <2>1, <2>2
<1>6. UNCHANGED <<ledger, paused, allocations, settlements, refunded>>
  BY DEF TopUp
<1> QED
  BY <1>1, <1>3, <1>4, <1>5, <1>6, OneChannelChanges DEF Inv, TypeOK

(* Taking unreserved collateral out, for a refund or a payment, leaves what *)
(* is reserved covered; a transfer out never overdraws the balance.        *)
LEMMA SendType ==
  ASSUME Inv, NEW token \in Tokens, NEW amount \in Nat, Send(token, amount)
  PROVE  custody' \in [Tokens -> Nat]
BY DEF Send, Inv, TypeOK

LEMMA CloseChannelInv ==
  ASSUME Inv, NEW owner \in Owners, NEW c \in Ids, CloseChannel(owner, c)
  PROVE  Inv'
<1> DEFINE refund == ClosingRefund(c)
           new == [channels[c] EXCEPT !.collateral = @ - refund,
                                      !.active = FALSE]
<1>1. /\ c \in 1..Len(channels)
      /\ channels[c] \in Channel
      /\ channels[c].collateral \in Nat
      /\ channels[c].allocated \in Nat
      /\ channels[c].allocated <= channels[c].collateral
      /\ channels[c].token \in Tokens
  BY OpenedChannel DEF CloseChannel
<1>2. refund \in Nat /\ refund <= channels[c].collateral - channels[c].allocated
  BY <1>1 DEF ClosingRefund, Free
<1>4. channels' = [channels EXCEPT ![c] = new]
  BY DEF CloseChannel
<1>8. /\ channels[c].collateral - refund \in Nat
      /\ channels[c].allocated <= channels[c].collateral - refund
  BY <1>1, <1>2
<1>5. custody' \in [Tokens -> Nat]
  BY <1>1, <1>2, SendType DEF CloseChannel
<1>6. refunded' \in [Ids -> Nat]
  BY <1>2 DEF CloseChannel, Inv, TypeOK
<1> HIDE DEF refund
<1>3. /\ new \in Channel
      /\ new.allocated = channels[c].allocated
      /\ new.allocated <= new.collateral
  BY <1>1, <1>2, <1>8 DEF Channel
<1>7. UNCHANGED <<ledger, paused, allocations, settlements, deposited>>
  BY DEF CloseChannel
<1> HIDE DEF new
<1> QED
  BY <1>1, <1>3, <1>4, <1>5, <1>6, <1>7, OneChannelChanges DEF Inv, TypeOK

LEMMA WithdrawFreeInv ==
  ASSUME Inv, NEW owner \in Owners, NEW c \in Ids, WithdrawFree(owner, c)
  PROVE  Inv'
<1> DEFINE new == [channels[c] EXCEPT !.collateral = @ - Free(c)]
<1>1. /\ c \in 1..Len(channels)
      /\ channels[c] \in Channel
      /\ channels[c].collateral \in Nat
      /\ channels[c].allocated \in Nat
      /\ channels[c].token \in Tokens
  BY OpenedChannel DEF WithdrawFree
<1>2. /\ Free(c) \in Nat
      /\ channels[c].collateral - Free(c) = channels[c].allocated
      /\ Send(channels[c].token, Free(c))
      /\ refunded' = [refunded EXCEPT ![c] = @ + Free(c)]
  BY <1>1 DEF Free, WithdrawFree
<1>3. /\ new \in Channel
      /\ new.allocated = channels[c].allocated
      /\ new.collateral = channels[c].allocated
  BY <1>1, <1>2 DEF Channel
<1>8. new.allocated <= new.collateral
  BY <1>1, <1>3
<1>4. channels' = [channels EXCEPT ![c] = new]
  BY DEF WithdrawFree
<1>5. custody' \in [Tokens -> Nat]
  BY <1>1, <1>2, SendType
<1>6. refunded' \in [Ids -> Nat]
  BY <1>2 DEF Inv, TypeOK
<1>7. UNCHANGED <<ledger, paused, allocations, settlements, deposited>>
  BY DEF WithdrawFree
<1> HIDE DEF new
<1> QED
  BY <1>1, <1>3, <1>4, <1>5, <1>6, <1>7, <1>8, OneChannelChanges
     DEF Inv, TypeOK

(* All three payment entry points come down to MaySpend and Spend.         *)
LEMMA PaymentInv ==
  ASSUME Inv, NEW agent \in Agents, NEW c \in Ids, NEW amount \in Amounts,
         MaySpend(agent, c, amount), Spend(c, amount)
  PROVE  Inv'
<1> USE ChannelAssumption
<1> DEFINE rolled == Rolled(channels[c])
           new == [rolled EXCEPT !.spent_this_period = @ + amount,
                                 !.total_spent = @ + amount,
                                 !.collateral = @ - amount]
<1>1. /\ c \in 1..Len(channels)
      /\ channels[c] \in Channel
      /\ channels[c].collateral \in Nat
      /\ channels[c].allocated \in Nat
      /\ channels[c].token \in Tokens
  BY OpenedChannel DEF MaySpend
<1>2. /\ rolled \in Channel
      /\ rolled.collateral = channels[c].collateral
      /\ rolled.allocated = channels[c].allocated
      /\ rolled.spent_this_period \in Nat
      /\ rolled.total_spent \in Nat
  BY <1>1 DEF Rolled, Channel, Inv, TypeOK
<1>3. amount \in Nat /\ amount <= channels[c].collateral - channels[c].allocated
  BY DEF MaySpend, Free
<1>4. channels' = [channels EXCEPT ![c] = new]
  BY DEF Spend
<1>5. /\ rolled.spent_this_period + amount \in Nat
      /\ rolled.total_spent + amount \in Nat
      /\ rolled.collateral - amount \in Nat
      /\ rolled.allocated <= rolled.collateral - amount
  <2> DEFINE x == channels[c].collateral
             y == channels[c].allocated
  <2>1. x \in Nat /\ y \in Nat /\ amount \in Nat /\ amount <= x - y
    BY <1>1, <1>3
  <2> HIDE DEF rolled, x, y
  <2>2. x - amount \in Nat /\ y <= x - amount
    BY <2>1
  <2>3. /\ rolled.spent_this_period + amount \in Nat
        /\ rolled.total_spent + amount \in Nat
    BY <1>2, <1>3
  <2> QED
    BY <1>2, <2>2, <2>3 DEF x, y
<1>6. /\ new \in Channel
      /\ new.allocated = channels[c].allocated
      /\ new.allocated <= new.collateral
  <2> HIDE DEF rolled
  <2> QED
    BY <1>2, <1>5 DEF Channel
<1>7. custody' \in [Tokens -> Nat]
  BY <1>1, <1>3, SendType DEF Spend
<1>8. UNCHANGED <<ledger, paused, allocations, settlements, deposited, refunded>>
  BY DEF Spend
<1> HIDE DEF new
<1> QED
  BY <1>1, <1>4, <1>6, <1>7, <1>8, OneChannelChanges DEF Inv, TypeOK

LEMMA EnableVouchersInv ==
  ASSUME Inv, NEW owner \in Owners, NEW c \in Ids, NEW key \in Keys,
         NEW window \in Windows, EnableVouchers(owner, c, key, window)
  PROVE  Inv'
<1> USE ChannelAssumption
<1> DEFINE new == [channels[c] EXCEPT !.voucher_signer = key,
                                      !.dispute_ledgers = window]
<1>1. /\ c \in 1..Len(channels)
      /\ channels[c] \in Channel
      /\ channels[c].allocated <= channels[c].collateral
  BY OpenedChannel DEF EnableVouchers
<1>2. /\ new \in Channel
      /\ new.allocated = channels[c].allocated
      /\ new.allocated <= new.collateral
  BY <1>1 DEF Channel
<1>3. channels' = [channels EXCEPT ![c] = new]
  BY DEF EnableVouchers
<1>4. UNCHANGED <<ledger, paused, allocations, settlements, custody,
                  deposited, refunded>>
  BY DEF EnableVouchers
<1> HIDE DEF new
<1> QED
  BY <1>1, <1>2, <1>3, <1>4, OneChannelChanges DEF Inv, TypeOK
-----------------------------------------------------------------------------
(* Vouchers.                                                               *)

(* The reservations of one channel, as a function to be totalled.          *)
LEMMA ReservedType ==
  ASSUME Inv, NEW c \in Ids, NEW r \in Recipients
  PROVE  /\ Reserved(c) \in [Recipients -> Nat]
         /\ Reserved(c)[r] = allocations[c][r].amount
         /\ allocations[c][r] \in Allocation
         /\ allocations[c][r].amount \in Nat
         /\ allocations[c][r].settled \in Nat
BY DEF Inv, TypeOK, Reserved, Allocation

(* One recipient's reservation is part of what the channel reserves.       *)
LEMMA ReservationWithinAllocated ==
  ASSUME Inv, NEW c \in 1..Len(channels), c \in Ids, NEW r \in Recipients
  PROVE  allocations[c][r].amount <= channels[c].allocated
<1>1. Reserved(c) \in [Recipients -> Nat]
      /\ Reserved(c)[r] = allocations[c][r].amount
  BY ReservedType
<1>2. Reserved(c)[r] <= Total(Reserved(c))
  BY <1>1, TotalPart, ChannelAssumption
<1>3. channels[c].allocated = Total(Reserved(c))
  BY DEF Inv, Backed
<1> QED
  BY <1>1, <1>2, <1>3

(* An action that rewrites one channel together with one of its            *)
(* reservations keeps the books when both move by the same amount.         *)
LEMMA OneReservationChanges ==
  ASSUME Inv, NEW c \in 1..Len(channels), c \in Ids, NEW r \in Recipients,
         NEW new \in Channel, NEW a \in Allocation,
         channels' = [channels EXCEPT ![c] = new],
         allocations' = [allocations EXCEPT ![c][r] = a],
         new.allocated
           = channels[c].allocated - allocations[c][r].amount + a.amount,
         new.allocated <= new.collateral,
         UNCHANGED <<ledger, paused, deposited, refunded>>,
         settlements' \in
           [Ids -> [Recipients -> Settlement \cup {NoSettlement}]],
         custody' \in [Tokens -> Nat],
         SettlementBounded'
  PROVE  Inv'
<1>1. /\ channels' \in Seq(Channel)
      /\ Len(channels') = Len(channels)
      /\ channels'[c] = new
      /\ \A d \in 1..Len(channels) : d # c => channels'[d] = channels[d]
  BY StoreChannel DEF Inv, TypeOK
<1>2. /\ allocations' \in [Ids -> [Recipients -> Allocation]]
      /\ allocations'[c][r] = a
      /\ \A q \in Recipients : q # r => allocations'[c][q] = allocations[c][q]
      /\ \A d \in Ids : d # c => allocations'[d] = allocations[d]
  BY DEF Inv, TypeOK
<1>3. TypeOK'
  BY <1>1, <1>2 DEF Inv, TypeOK
<1>4. PICK before : before = Reserved(c)
  OBVIOUS
<1>5. PICK after : after = [q \in Recipients |-> allocations'[c][q].amount]
  OBVIOUS
<1>6. Total(after) = Total(before) - allocations[c][r].amount + a.amount
  <2>1. before \in [Recipients -> Nat] /\ before[r] = allocations[c][r].amount
    BY <1>4, ReservedType
  <2>2. after \in [Recipients -> Nat]
    BY <1>2, <1>5 DEF Allocation
  <2>3. after[r] = a.amount
    BY <1>2, <1>5
  <2>4. \A q \in Recipients \ {r} : after[q] = before[q]
    BY <1>2, <1>4, <1>5 DEF Reserved
  <2>5. Total(after) = Total(before) - before[r] + after[r]
    <3>1. IsFiniteSet(Recipients)
      BY ChannelAssumption
    <3>2. before \in [Recipients -> Nat]
      BY <2>1
    <3>3. \A f, g \in [Recipients -> Nat] :
            (\A q \in Recipients \ {r} : g[q] = f[q])
              => Total(g) = Total(f) - f[r] + g[r]
      BY <3>1, TotalUpdate
    <3> QED
      BY <2>2, <2>4, <3>2, <3>3
  <2> QED
    BY <2>1, <2>3, <2>5
<1>7. Total(Reserved(c))'
        = Total(Reserved(c)) - allocations[c][r].amount + a.amount
  BY <1>4, <1>5, <1>6 DEF Reserved
<1>8. ASSUME NEW d \in 1..Len(channels')
      PROVE  /\ channels'[d].allocated = Total(Reserved(d))'
             /\ channels'[d].allocated <= channels'[d].collateral
  <2>1. CASE d = c
    <3>1. channels[c].allocated = Total(Reserved(c))
      BY DEF Inv, Backed
    <3> QED
      BY <1>1, <1>7, <2>1, <3>1
  <2>2. CASE d # c
    <3>1. d \in 1..Len(channels) /\ d \in Ids
      BY <1>1, LenProperties, ChannelAssumption DEF Inv, TypeOK, Ids
    <3>2. Reserved(d)' = Reserved(d)
      BY <1>2, <2>2, <3>1 DEF Reserved
    <3>3. channels'[d] = channels[d]
      BY <1>1, <2>2, <3>1
    <3> QED
      BY <3>1, <3>2, <3>3 DEF Inv, Backed
  <2> QED
    BY <2>1, <2>2
<1>9. Backed'
  BY <1>8 DEF Backed
<1>10. UnopenedIsEmpty'
  BY <1>1, <1>2 DEF Inv, UnopenedIsEmpty, IsOpenedId
<1> QED
  BY <1>3, <1>9, <1>10 DEF Inv

LEMMA AllocateInv ==
  ASSUME Inv, NEW owner \in Owners, NEW c \in Ids, NEW r \in Recipients,
         NEW amount \in Amounts, Allocate(owner, c, r, amount)
  PROVE  Inv'
<1> USE ChannelAssumption
<1> DEFINE new == [channels[c] EXCEPT !.allocated = @ + amount]
           a == [allocations[c][r] EXCEPT !.amount = @ + amount]
<1>1. /\ c \in 1..Len(channels)
      /\ channels[c] \in Channel
      /\ channels[c].collateral \in Nat
      /\ channels[c].allocated \in Nat
  BY OpenedChannel DEF Allocate
<1>2. /\ allocations[c][r] \in Allocation
      /\ allocations[c][r].amount \in Nat
  BY ReservedType
<1>3. amount \in Nat /\ amount <= channels[c].collateral - channels[c].allocated
  BY DEF Allocate, Free
<1>4. /\ channels[c].allocated + amount \in Nat
      /\ channels[c].allocated + amount <= channels[c].collateral
      /\ allocations[c][r].amount + amount \in Nat
  <2> DEFINE x == channels[c].collateral
             y == channels[c].allocated
             z == allocations[c][r].amount
  <2>1. x \in Nat /\ y \in Nat /\ z \in Nat
    BY <1>1, <1>2
  <2>2. amount \in Nat /\ amount <= x - y
    BY <1>3
  <2> HIDE DEF x, y, z
  <2>3. y + amount \in Nat /\ y + amount <= x /\ z + amount \in Nat
    BY <2>1, <2>2
  <2> QED
    BY <2>3 DEF x, y, z
<1>5. /\ new \in Channel
      /\ new.allocated = channels[c].allocated + amount
      /\ new.collateral = channels[c].collateral
  BY <1>1, <1>3, <1>4 DEF Channel
<1>6. a \in Allocation /\ a.amount = allocations[c][r].amount + amount
  BY <1>2, <1>3, <1>4 DEF Allocation
<1>7. /\ channels' = [channels EXCEPT ![c] = new]
      /\ allocations' = [allocations EXCEPT ![c][r] = a]
      /\ UNCHANGED <<ledger, paused, settlements, custody, deposited, refunded>>
  BY DEF Allocate
<1>8. SettlementBounded'
  <2>1. ~InFlight(c, r)
    BY DEF Allocate
  <2>2. \A d \in Ids, q \in Recipients :
          <<d, q>> # <<c, r>> => allocations'[d][q] = allocations[d][q]
    BY <1>7 DEF Inv, TypeOK
  <2> QED
    BY <1>7, <2>1, <2>2 DEF Inv, SettlementBounded, InFlight
<1> HIDE DEF new, a
<1>9. /\ new.allocated
           = channels[c].allocated - allocations[c][r].amount + a.amount
      /\ new.allocated <= new.collateral
  <2>1. PICK k : k = allocations[c][r].amount
    OBVIOUS
  <2>2. PICK n : n = channels[c].allocated
    OBVIOUS
  <2>3. n \in Nat /\ k \in Nat /\ amount \in Nat
    BY <1>1, <1>2, <1>3, <2>1, <2>2
  <2>4. n - k + (k + amount) = n + amount
    BY <2>3
  <2>5. a.amount = k + amount /\ new.allocated = n + amount
    BY <1>5, <1>6, <2>1, <2>2
  <2>6. new.allocated = n - k + a.amount
    BY <2>4, <2>5
  <2>7. new.allocated <= new.collateral
    BY <1>4, <1>5
  <2> QED
    BY <2>1, <2>2, <2>6, <2>7
<1> QED
  BY <1>1, <1>5, <1>6, <1>7, <1>8, <1>9, OneReservationChanges
     DEF Inv, TypeOK

(* A payout within the reservation: the amount sent is at most what is     *)
(* released, so what stays reserved stays covered.                         *)
LEMMA PayOutInv ==
  ASSUME Inv, NEW c \in 1..Len(channels), c \in Ids, NEW r \in Recipients,
         NEW cum \in Nat, NEW penalty \in Nat,
         cum + penalty <= allocations[c][r].amount,
         allocations[c][r].settled <= cum + penalty,
         PayOut(c, r, cum, penalty),
         UNCHANGED <<ledger, paused, deposited, refunded>>,
         settlements' \in
           [Ids -> [Recipients -> Settlement \cup {NoSettlement}]],
         \A d \in Ids, q \in Recipients :
           \/ settlements'[d][q] = NoSettlement
           \/ /\ settlements'[d][q] = settlements[d][q]
              /\ <<d, q>> # <<c, r>>
  PROVE  Inv'
<1> DEFINE due == Due(c, r, cum, penalty)
           new == [channels[c] EXCEPT
                     !.allocated = @ - allocations[c][r].amount,
                     !.collateral = @ - due,
                     !.total_spent = @ + due]
           a == [amount |-> 0, settled |-> cum + penalty]
<1>1. /\ channels[c] \in Channel
      /\ channels[c].collateral \in Nat
      /\ channels[c].allocated \in Nat
      /\ channels[c].total_spent \in Nat
      /\ channels[c].allocated <= channels[c].collateral
      /\ channels[c].token \in Tokens
  BY OpenedChannel DEF IsOpenedId
<1>2. /\ allocations[c][r].amount \in Nat
      /\ allocations[c][r].settled \in Nat
      /\ allocations[c][r].amount <= channels[c].allocated
  BY ReservedType, ReservationWithinAllocated
<1>3. /\ channels' = [channels EXCEPT ![c] = new]
      /\ allocations' = [allocations EXCEPT ![c][r] = a]
      /\ Send(channels[c].token, due)
  BY DEF PayOut
<1>4. due \in Nat /\ due <= allocations[c][r].amount
  <2> DEFINE z == allocations[c][r].amount
             before == allocations[c][r].settled
  <2>1. /\ z \in Nat /\ before \in Nat
        /\ cum + penalty <= z
        /\ before <= cum + penalty
    BY <1>2
  <2>2. due = cum - before + penalty
    BY DEF Due
  <2> HIDE DEF z, before, due
  <2>3. due \in Nat /\ due <= z
    BY <2>1, <2>2
  <2> QED
    BY <2>3 DEF z
<1> HIDE DEF due
<1>5. /\ channels[c].allocated - allocations[c][r].amount \in Nat
      /\ channels[c].collateral - due \in Nat
      /\ channels[c].total_spent + due \in Nat
      /\ channels[c].allocated - allocations[c][r].amount
           <= channels[c].collateral - due
  <2> DEFINE x == channels[c].collateral
             y == channels[c].allocated
             z == allocations[c][r].amount
             s == channels[c].total_spent
  <2>1. x \in Nat /\ y \in Nat /\ z \in Nat /\ s \in Nat
    BY <1>1, <1>2
  <2>2. y <= x /\ z <= y /\ due \in Nat /\ due <= z
    BY <1>1, <1>2, <1>4
  <2> HIDE DEF x, y, z, s
  <2>3. y - z \in Nat /\ x - due \in Nat /\ s + due \in Nat /\ y - z <= x - due
    BY <2>1, <2>2
  <2> QED
    BY <2>3 DEF x, y, z, s
<1>6. /\ new \in Channel
      /\ new.allocated = channels[c].allocated - allocations[c][r].amount
      /\ new.collateral = channels[c].collateral - due
  BY <1>1, <1>5 DEF Channel
<1>7. a \in Allocation /\ a.amount = 0
  BY DEF Allocation
<1>8. custody' \in [Tokens -> Nat]
  BY <1>1, <1>3, <1>4, SendType
<1>9. SettlementBounded'
  <2>1. \A d \in Ids, q \in Recipients :
          <<d, q>> # <<c, r>> => allocations'[d][q] = allocations[d][q]
    BY <1>3 DEF Inv, TypeOK
  <2> QED
    BY <2>1 DEF Inv, SettlementBounded, InFlight
<1>10. /\ new.allocated
            = channels[c].allocated - allocations[c][r].amount + a.amount
       /\ new.allocated <= new.collateral
  BY <1>1, <1>2, <1>5, <1>6, <1>7
<1> HIDE DEF new, a
<1> QED
  BY <1>3, <1>6, <1>7, <1>8, <1>9, <1>10, OneReservationChanges

LEMMA CloseCooperativeInv ==
  ASSUME Inv, NEW c \in Ids, NEW r \in Recipients, NEW cum \in Amounts,
         CloseCooperative(c, r, cum)
  PROVE  Inv'
<1>1. c \in 1..Len(channels)
  BY DEF CloseCooperative, IsOpenedId
<1>2. /\ cum \in Nat
      /\ cum + 0 <= allocations[c][r].amount
      /\ allocations[c][r].settled <= cum + 0
  BY ReservedType, ChannelAssumption DEF CloseCooperative, VoucherIsValid
<1>3. /\ PayOut(c, r, cum, 0)
      /\ UNCHANGED <<ledger, paused, settlements, deposited, refunded>>
      /\ settlements[c][r] = NoSettlement
  BY DEF CloseCooperative, InFlight
<1>4. \A d \in Ids, q \in Recipients :
        \/ settlements'[d][q] = NoSettlement
        \/ /\ settlements'[d][q] = settlements[d][q]
           /\ <<d, q>> # <<c, r>>
  BY <1>3
<1> QED
  BY <1>1, <1>2, <1>3, <1>4, PayOutInv DEF Inv, TypeOK

(* What is known of a close that is open.                                  *)
LEMMA InFlightFacts ==
  ASSUME Inv, NEW c \in Ids, NEW r \in Recipients, InFlight(c, r)
  PROVE  /\ settlements[c][r] \in Settlement
         /\ settlements[c][r].best_cumulative \in Nat
         /\ settlements[c][r].opened_cumulative \in Nat
         /\ settlements[c][r].opened_cumulative
              <= settlements[c][r].best_cumulative
         /\ settlements[c][r].best_cumulative <= allocations[c][r].amount
         /\ allocations[c][r].settled < settlements[c][r].opened_cumulative
BY DEF Inv, TypeOK, SettlementBounded, InFlight, Settlement

(* The penalty never takes the payout beyond the reservation.              *)
LEMMA PenaltyBounded ==
  ASSUME Inv, NEW c \in Ids, NEW r \in Recipients, InFlight(c, r)
  PROVE  /\ Penalty(c, r) \in Nat
         /\ settlements[c][r].best_cumulative + Penalty(c, r)
              <= allocations[c][r].amount
<1>1. allocations[c][r].amount \in Nat
  BY ReservedType
<1> QED
  BY <1>1, InFlightFacts DEF Penalty

LEMMA FinalizeInv ==
  ASSUME Inv, NEW c \in Ids, NEW r \in Recipients, Finalize(c, r)
  PROVE  Inv'
<1> DEFINE best == settlements[c][r].best_cumulative
           penalty == Penalty(c, r)
<1>1. c \in 1..Len(channels) /\ InFlight(c, r)
  BY DEF Finalize, IsOpenedId
<1>2. /\ best \in Nat
      /\ penalty \in Nat
      /\ best + penalty <= allocations[c][r].amount
      /\ allocations[c][r].settled <= best + penalty
  BY <1>1, InFlightFacts, PenaltyBounded, ReservedType
<1>3. /\ PayOut(c, r, best, penalty)
      /\ UNCHANGED <<ledger, paused, deposited, refunded>>
      /\ settlements' = [settlements EXCEPT ![c][r] = NoSettlement]
  BY DEF Finalize
<1>4. /\ settlements' \in
           [Ids -> [Recipients -> Settlement \cup {NoSettlement}]]
      /\ \A d \in Ids, q \in Recipients :
           \/ settlements'[d][q] = NoSettlement
           \/ /\ settlements'[d][q] = settlements[d][q]
              /\ <<d, q>> # <<c, r>>
  BY <1>3 DEF Inv, TypeOK
<1> HIDE DEF best, penalty
<1> QED
  BY <1>1, <1>2, <1>3, <1>4, PayOutInv

LEMMA CloseUnilateralInv ==
  ASSUME Inv, NEW closer \in Callers, NEW c \in Ids, NEW r \in Recipients,
         NEW cum \in Amounts, CloseUnilateral(closer, c, r, cum)
  PROVE  Inv'
<1> DEFINE new == [best_cumulative |-> cum, opened_cumulative |-> cum,
                   opened_at_ledger |-> ledger,
                   closed_by_payer |-> closer \in {channels[c].owner,
                                                   channels[c].agent}]
<1>1. /\ cum \in Nat
      /\ cum <= allocations[c][r].amount
      /\ allocations[c][r].settled < cum
  BY ReservedType, ChannelAssumption DEF CloseUnilateral, VoucherIsValid
<1>2. new \in Settlement /\ new.opened_at_ledger = ledger
  BY <1>1 DEF Settlement, Inv, TypeOK
<1>3. /\ settlements' = [settlements EXCEPT ![c][r] = new]
      /\ UNCHANGED <<ledger, paused, channels, allocations, custody,
                     deposited, refunded>>
  BY DEF CloseUnilateral
<1>4. TypeOK'
  BY <1>2, <1>3 DEF Inv, TypeOK
<1>5. Backed' /\ UnopenedIsEmpty'
  BY <1>3 DEF Inv, Backed, UnopenedIsEmpty, Reserved, IsOpenedId
<1>6. SettlementBounded'
  BY <1>1, <1>3 DEF Inv, TypeOK, SettlementBounded, InFlight
<1> QED
  BY <1>4, <1>5, <1>6 DEF Inv

LEMMA ChallengeInv ==
  ASSUME Inv, NEW c \in Ids, NEW r \in Recipients, NEW cum \in Amounts,
         Challenge(c, r, cum)
  PROVE  Inv'
<1> DEFINE new == [settlements[c][r] EXCEPT !.best_cumulative = cum]
<1>1. /\ cum \in Nat
      /\ cum <= allocations[c][r].amount
      /\ cum > settlements[c][r].best_cumulative
      /\ InFlight(c, r)
  BY ChannelAssumption DEF Challenge, VoucherIsValid, Supersedes
<1>2. /\ settlements[c][r] \in Settlement
      /\ settlements[c][r].opened_cumulative
           <= settlements[c][r].best_cumulative
      /\ allocations[c][r].settled < settlements[c][r].opened_cumulative
      /\ settlements[c][r].opened_at_ledger <= ledger
  BY <1>1, InFlightFacts DEF Inv, SettlementBounded
<1>3. /\ new \in Settlement
      /\ new.best_cumulative = cum
      /\ new.opened_cumulative = settlements[c][r].opened_cumulative
      /\ new.opened_at_ledger = settlements[c][r].opened_at_ledger
  BY <1>1, <1>2 DEF Settlement
<1>4. /\ settlements' = [settlements EXCEPT ![c][r] = new]
      /\ UNCHANGED <<ledger, paused, channels, allocations, custody,
                     deposited, refunded>>
  BY DEF Challenge
<1>5. TypeOK'
  BY <1>3, <1>4 DEF Inv, TypeOK
<1>6. Backed' /\ UnopenedIsEmpty'
  BY <1>4 DEF Inv, Backed, UnopenedIsEmpty, Reserved, IsOpenedId
<1>7. new.opened_cumulative <= new.best_cumulative
  BY <1>1, <1>2, <1>3 DEF Settlement
<1> HIDE DEF new
<1>8. SettlementBounded'
  BY <1>1, <1>2, <1>3, <1>4, <1>7
     DEF Inv, TypeOK, SettlementBounded, InFlight
<1> QED
  BY <1>5, <1>6, <1>8 DEF Inv

-----------------------------------------------------------------------------
LEMMA NextInv == Inv /\ [Next]_vars => Inv'
<1> SUFFICES ASSUME Inv, [Next]_vars PROVE Inv'
  OBVIOUS
<1>1. CASE Fund
  BY <1>1, OpenChannelInv, TopUpInv DEF Fund
<1>2. CASE Reclaim
  BY <1>2, CloseChannelInv, WithdrawFreeInv DEF Reclaim
<1>3. CASE AgentPays
  BY <1>3, PaymentInv DEF AgentPays, Pay, PayWithConversion, PayWithRoute
<1>4. CASE VoucherSetup
  BY <1>4, EnableVouchersInv, AllocateInv DEF VoucherSetup
<1>5. CASE Settle
  BY <1>5, CloseCooperativeInv, ChallengeInv, CloseUnilateralInv,
     FinalizeInv DEF Settle
<1>6. CASE CloseLedger
  <2>1. ledger' = ledger + 1 /\ ledger' \in Nat
    BY <1>6 DEF CloseLedger, Inv, TypeOK
  <2>2. UNCHANGED <<paused, channels, allocations, settlements, custody,
                    deposited, refunded>>
    BY <1>6 DEF CloseLedger
  <2>3. TypeOK' /\ Backed' /\ UnopenedIsEmpty'
    BY <2>1, <2>2
       DEF Inv, TypeOK, Backed, UnopenedIsEmpty, Reserved, IsOpenedId
  <2>4. SettlementBounded'
    BY <2>1, <2>2 DEF Inv, TypeOK, SettlementBounded, InFlight, Settlement
  <2> QED
    BY <2>3, <2>4 DEF Inv
<1>7. CASE SetPaused \/ UNCHANGED vars
  BY <1>7 DEF SetPaused, vars, Inv, TypeOK, Backed, UnopenedIsEmpty,
              Reserved, IsOpenedId, SettlementBounded, InFlight
<1> QED
  BY <1>1, <1>2, <1>3, <1>4, <1>5, <1>6, <1>7 DEF Next

THEOREM InvHolds == Spec => []Inv
BY InitInv, NextInv, PTL DEF Spec

(* Every stored amount stays a natural number: no operation of the         *)
(* contract can drive a balance, a reservation or a counter below zero.    *)
THEOREM TypeCorrect == Spec => []TypeOK
<1>1. Inv => TypeOK
  BY DEF Inv
<1> QED
  BY <1>1, InvHolds, PTL

(* What is reserved for recipients is always covered by the channel's      *)
(* collateral, whatever the agent spends and the owner withdraws.          *)
THEOREM ReservationsAreBacked == Spec => []Backed
<1>1. Inv => Backed
  BY DEF Inv
<1> QED
  BY <1>1, InvHolds, PTL

(* An open close stays within its reservation until it is finalised, so    *)
(* the arithmetic of finalize cannot fail.                                 *)
THEOREM ClosesStayBounded == Spec => []SettlementBounded
<1>1. Inv => SettlementBounded
  BY DEF Inv
<1> QED
  BY <1>1, InvHolds, PTL

-----------------------------------------------------------------------------
(* The pooled balance: the contract holds what its channels record, and    *)
(* every deposited unit is accounted for.                                  *)

(* An id that was not opened has no history.                               *)
UnopenedIsUnpaid ==
  \A c \in Ids : ~IsOpenedId(c) => deposited[c] = 0 /\ refunded[c] = 0

Books == Custodied /\ Conserved /\ UnopenedIsUnpaid

(* What each channel contributes to the balance of a token.                *)
LEMMA HeldType ==
  ASSUME Inv, NEW t \in Tokens
  PROVE  /\ HeldFor(t) \in [Ids -> Nat]
         /\ \A c \in Ids : HeldFor(t)[c] =
              IF IsOpenedId(c) /\ channels[c].token = t
              THEN channels[c].collateral ELSE 0
<1>1. \A c \in Ids : IsOpenedId(c) => channels[c].collateral \in Nat
  BY OpenedChannel
<1> QED
  BY <1>1 DEF HeldFor, Collateral

(* One channel's contribution to one token's balance changes, and so does  *)
(* the balance, by as much.                                                *)
LEMMA OneHolding ==
  ASSUME Inv, Inv', Custodied, NEW c \in Ids, NEW token \in Tokens,
         custody'[token]
           = custody[token] - HeldFor(token)[c] + HeldFor(token)'[c],
         \A t \in Tokens \ {token} : custody'[t] = custody[t],
         \A t \in Tokens \ {token} : HeldFor(t)'[c] = HeldFor(t)[c],
         \A t \in Tokens, d \in Ids \ {c} : HeldFor(t)'[d] = HeldFor(t)[d]
  PROVE  Custodied'
<1>1. IsFiniteSet(Ids)
  BY FS_Interval, ChannelAssumption DEF Ids
<1>2. ASSUME NEW t \in Tokens
      PROVE  custody'[t] = Total(HeldFor(t)')
  <2>1. PICK before \in [Ids -> Nat] : before = HeldFor(t)
    BY HeldType
  <2>2. PICK after \in [Ids -> Nat] : after = HeldFor(t)'
    <3>1. \A d \in 1..Len(channels') : channels'[d].collateral \in Nat
      <4>1. channels' \in Seq(Channel)
        BY DEF Inv, TypeOK
      <4>2. \A d \in 1..Len(channels') : channels'[d] \in Channel
        BY <4>1, ElementOfSeq
      <4> QED
        BY <4>2 DEF Channel
    <3>2. HeldFor(t)' = [d \in Ids |->
            IF d \in 1..Len(channels') /\ channels'[d].token = t
            THEN channels'[d].collateral ELSE 0]
      BY DEF HeldFor, Collateral, IsOpenedId
    <3>3. HeldFor(t)' \in [Ids -> Nat]
      BY <3>1, <3>2
    <3> QED
      BY <3>3
  <2>3. \A d \in Ids \ {c} : after[d] = before[d]
    BY <2>1, <2>2
  <2>4. Total(after) = Total(before) - before[c] + after[c]
    <3>1. \A f, g \in [Ids -> Nat] :
            (\A d \in Ids \ {c} : g[d] = f[d])
              => Total(g) = Total(f) - f[c] + g[c]
      BY <1>1, TotalUpdate
    <3> QED
      BY <2>3, <3>1
  <2>5. custody[t] = Total(before)
    BY <2>1 DEF Custodied
  <2>6. before[c] \in Nat /\ after[c] \in Nat /\ custody[t] \in Nat
    BY DEF Inv, TypeOK
  <2>7. CASE t = token
    BY <2>1, <2>2, <2>4, <2>5, <2>6, <2>7
  <2>8. CASE t # token
    <3>1. after[c] = before[c] /\ custody'[t] = custody[t]
      BY <2>1, <2>2, <2>8
    <3> QED
      BY <2>2, <2>4, <2>5, <2>6, <3>1
  <2> QED
    BY <2>7, <2>8
<1>3. \A t \in Tokens : Total(HeldFor(t)') = Total(HeldFor(t))'
  BY DEF HeldFor
<1> QED
  BY <1>2, <1>3 DEF Custodied

(* An action that rewrites one channel keeps the books when the balance    *)
(* follows the collateral, and the history follows both.                   *)
LEMMA OneChannelBooks ==
  ASSUME Inv, Inv', Books, NEW c, IsOpenedId(c), NEW new \in Channel,
         channels' = [channels EXCEPT ![c] = new],
         new.token = channels[c].token,
         custody'[new.token]
           = custody[new.token] - channels[c].collateral + new.collateral,
         \A t \in Tokens \ {new.token} : custody'[t] = custody[t],
         deposited'[c] = new.collateral + new.total_spent + refunded'[c],
         \A d \in Ids \ {c} : /\ deposited'[d] = deposited[d]
                              /\ refunded'[d] = refunded[d]
  PROVE  Books'
<1>1. c \in 1..Len(channels) /\ c \in Ids /\ channels[c].token \in Tokens
  BY OpenedChannel
<1>2. /\ Len(channels') = Len(channels)
      /\ channels'[c] = new
      /\ \A d \in 1..Len(channels) : d # c => channels'[d] = channels[d]
  BY <1>1, StoreChannel DEF Inv, TypeOK
<1>3. Custodied'
  <2>1. HeldFor(new.token)[c] = channels[c].collateral
    BY <1>1, HeldType
  <2>2. HeldFor(new.token)'[c] = new.collateral
    BY <1>1, <1>2 DEF HeldFor, Collateral, IsOpenedId
  <2>3. \A t \in Tokens \ {new.token} : HeldFor(t)'[c] = HeldFor(t)[c]
    BY <1>1, <1>2 DEF HeldFor, Collateral, IsOpenedId
  <2>4. \A t \in Tokens, d \in Ids \ {c} : HeldFor(t)'[d] = HeldFor(t)[d]
    BY <1>1, <1>2 DEF HeldFor, Collateral, IsOpenedId
  <2> QED
    BY <1>1, <2>1, <2>2, <2>3, <2>4, OneHolding DEF Books
<1>4. Conserved'
  <2>1. ASSUME NEW d \in 1..Len(channels')
        PROVE  deposited'[d] = channels'[d].collateral
                 + channels'[d].total_spent + refunded'[d]
    <3>1. CASE d = c
      BY <1>2, <3>1
    <3>2. CASE d # c
      <4>1. d \in 1..Len(channels) /\ d \in Ids
        BY <1>2, OpenedChannel DEF IsOpenedId
      <4>2. channels'[d] = channels[d]
        BY <1>2, <3>2, <4>1
      <4> QED
        BY <3>2, <4>1, <4>2 DEF Books, Conserved
    <3> QED
      BY <3>1, <3>2
  <2> QED
    BY <2>1 DEF Conserved
<1>5. UnopenedIsUnpaid'
  BY <1>1, <1>2 DEF Books, UnopenedIsUnpaid, IsOpenedId
<1> QED
  BY <1>3, <1>4, <1>5 DEF Books

(* What the books say of one channel.                                      *)
LEMMA ChannelBooks ==
  ASSUME Inv, Books, NEW c, IsOpenedId(c)
  PROVE  /\ deposited[c] = channels[c].collateral + channels[c].total_spent
                             + refunded[c]
         /\ c \in Ids
         /\ channels[c] \in Channel
         /\ channels[c].token \in Tokens
         /\ channels[c].collateral \in Nat
         /\ channels[c].allocated \in Nat
         /\ channels[c].allocated <= channels[c].collateral
         /\ channels[c].spent_this_period \in Nat
         /\ channels[c].total_spent \in Nat
         /\ deposited[c] \in Nat
         /\ refunded[c] \in Nat
         /\ custody[channels[c].token] \in Nat
<1>1. /\ c \in Ids
      /\ c \in 1..Len(channels)
      /\ channels[c].token \in Tokens
  BY OpenedChannel
<1>2. /\ deposited[c] \in Nat
      /\ refunded[c] \in Nat
      /\ custody[channels[c].token] \in Nat
  BY <1>1 DEF Inv, TypeOK
<1> QED
  BY <1>1, <1>2, OpenedChannel DEF Books, Conserved

(* A transfer out, in the terms of OneChannelBooks.                        *)
LEMMA SendMoves ==
  ASSUME Inv, NEW token \in Tokens, NEW amount \in Nat, Send(token, amount)
  PROVE  /\ custody'[token] = custody[token] - amount
         /\ \A t \in Tokens \ {token} : custody'[t] = custody[t]
BY DEF Send, Inv, TypeOK

-----------------------------------------------------------------------------
LEMMA OpenChannelBooks ==
  ASSUME Inv, Inv', Books,
         NEW owner \in Owners, NEW agent \in Agents, NEW token \in Tokens,
         NEW deposit \in Amounts, NEW limit \in Amounts,
         NEW period \in Periods,
         OpenChannel(owner, agent, token, deposit, limit, period)
  PROVE  Books'
<1> USE ChannelAssumption
<1> DEFINE n == Len(channels)
           new == channels'[n + 1]
<1>1. deposit \in Nat /\ n \in Nat /\ n + 1 \in Ids
  BY LenProperties DEF OpenChannel, Inv, TypeOK, Ids
<1>2. /\ Len(channels') = n + 1
      /\ \A c \in 1..n : channels'[c] = channels[c]
      /\ new.collateral = deposit
      /\ new.total_spent = 0
      /\ new.token = token
  BY <1>1, AppendProperties DEF OpenChannel, Inv, TypeOK, Channel
<1>6. deposited[n + 1] = 0 /\ refunded[n + 1] = 0
  BY <1>1 DEF Books, UnopenedIsUnpaid, IsOpenedId
<1>3. /\ custody'[token] = custody[token] + deposit
      /\ \A t \in Tokens \ {token} : custody'[t] = custody[t]
      /\ deposited'[n + 1] = deposit
      /\ \A d \in Ids \ {n + 1} : deposited'[d] = deposited[d]
      /\ refunded' = refunded
  BY <1>1, <1>6 DEF OpenChannel, Receive, Inv, TypeOK
<1>4. Custodied'
  <2>1. ~IsOpenedId(n + 1) /\ \A d \in Ids \ {n + 1} : IsOpenedId(d)' = IsOpenedId(d)
    BY <1>1, <1>2 DEF IsOpenedId, Ids
  <2>2. HeldFor(token)[n + 1] = 0
    BY <1>1, <2>1, HeldType
  <2>3. HeldFor(token)'[n + 1] = deposit
    BY <1>1, <1>2 DEF HeldFor, Collateral, IsOpenedId
  <2>4. \A t \in Tokens \ {token} : HeldFor(t)'[n + 1] = HeldFor(t)[n + 1]
    BY <1>1, <1>2, <2>1 DEF HeldFor, Collateral
  <2>5. \A t \in Tokens, d \in Ids \ {n + 1} : HeldFor(t)'[d] = HeldFor(t)[d]
    BY <1>1, <1>2, <2>1 DEF HeldFor, Collateral, IsOpenedId
  <2>6. custody[token] \in Nat
    BY DEF Inv, TypeOK
  <2>7. custody'[token]
          = custody[token] - HeldFor(token)[n + 1] + HeldFor(token)'[n + 1]
    BY <1>1, <1>3, <2>2, <2>3, <2>6
  <2> QED
    BY <1>1, <1>3, <2>4, <2>5, <2>7, OneHolding DEF Books
<1>5. Conserved'
  <2>1. ASSUME NEW d \in 1..Len(channels')
        PROVE  deposited'[d] = channels'[d].collateral
                 + channels'[d].total_spent + refunded'[d]
    <3>1. CASE d = n + 1
      BY <1>1, <1>2, <1>3, <1>6, <3>1
    <3>2. CASE d # n + 1
      <4>1. d \in 1..n /\ d \in Ids
        BY <1>1, <1>2, <3>2, OpenedChannel DEF IsOpenedId
      <4> QED
        BY <1>2, <1>3, <3>2, <4>1 DEF Books, Conserved
    <3> QED
      BY <3>1, <3>2
  <2> QED
    BY <2>1 DEF Conserved
<1>7. UnopenedIsUnpaid'
  <2>1. ASSUME NEW d \in Ids, ~IsOpenedId(d)'
        PROVE  d # n + 1 /\ ~IsOpenedId(d)
    BY <1>1, <1>2, <2>1 DEF IsOpenedId
  <2> QED
    BY <1>3, <2>1 DEF Books, UnopenedIsUnpaid
<1> QED
  BY <1>4, <1>5, <1>7 DEF Books

LEMMA TopUpBooks ==
  ASSUME Inv, Inv', Books, NEW owner \in Owners, NEW c \in Ids,
         NEW amount \in Amounts, TopUp(owner, c, amount)
  PROVE  Books'
<1> DEFINE new == [channels[c] EXCEPT !.collateral = @ + amount]
<1>1. IsOpenedId(c) /\ amount \in Nat
  BY ChannelAssumption DEF TopUp
<1>2. /\ new \in Channel
      /\ new.token = channels[c].token
      /\ new.collateral = channels[c].collateral + amount
      /\ new.total_spent = channels[c].total_spent
  BY <1>1, ChannelBooks DEF Channel
<1>3. channels' = [channels EXCEPT ![c] = new]
  BY DEF TopUp, Credited
<1>4. /\ custody'[channels[c].token] = custody[channels[c].token] + amount
      /\ \A t \in Tokens \ {channels[c].token} : custody'[t] = custody[t]
      /\ deposited'[c] = deposited[c] + amount
      /\ \A d \in Ids \ {c} : deposited'[d] = deposited[d]
      /\ refunded' = refunded
  BY <1>1, ChannelBooks DEF TopUp, Receive, Inv, TypeOK
<1> HIDE DEF new
<1>5. /\ custody'[new.token]
           = custody[new.token] - channels[c].collateral + new.collateral
      /\ deposited'[c] = new.collateral + new.total_spent + refunded'[c]
  BY <1>1, <1>2, <1>4, ChannelBooks
<1> QED
  BY <1>1, <1>2, <1>3, <1>4, <1>5, OneChannelBooks

(* A payment or a refund: the balance falls with the collateral, and the   *)
(* amount is recorded as spent or as refunded.                             *)
LEMMA OutgoingBooks ==
  ASSUME Inv, Inv', Books, NEW c, IsOpenedId(c), NEW new \in Channel,
         NEW amount \in Nat,
         channels' = [channels EXCEPT ![c] = new],
         new.token = channels[c].token,
         new.collateral = channels[c].collateral - amount,
         Send(channels[c].token, amount),
         deposited' = deposited,
         new.total_spent + refunded'[c]
           = channels[c].total_spent + refunded[c] + amount,
         \A d \in Ids \ {c} : refunded'[d] = refunded[d]
  PROVE  Books'
<1>1. /\ custody'[new.token] = custody[new.token] - amount
      /\ \A t \in Tokens \ {new.token} : custody'[t] = custody[t]
  BY ChannelBooks, SendMoves
<1>2. new.total_spent \in Nat /\ refunded'[c] \in Nat /\ new.collateral \in Nat
  BY ChannelBooks DEF Channel, Inv, TypeOK
<1>3. custody'[new.token]
        = custody[new.token] - channels[c].collateral + new.collateral
  BY <1>1, <1>2, ChannelBooks
<1>4. deposited'[c] = new.collateral + new.total_spent + refunded'[c]
  BY <1>2, ChannelBooks
<1> QED
  BY <1>1, <1>3, <1>4, OneChannelBooks

LEMMA CloseChannelBooks ==
  ASSUME Inv, Inv', Books, NEW owner \in Owners, NEW c \in Ids,
         CloseChannel(owner, c)
  PROVE  Books'
<1> DEFINE refund == ClosingRefund(c)
           new == [channels[c] EXCEPT !.collateral = @ - refund,
                                      !.active = FALSE]
<1>1. IsOpenedId(c)
  BY DEF CloseChannel
<1>2. refund \in Nat /\ refund <= channels[c].collateral
  BY <1>1, ChannelBooks DEF ClosingRefund, Free
<1>3. /\ channels' = [channels EXCEPT ![c] = new]
      /\ Send(channels[c].token, refund)
      /\ refunded' = [refunded EXCEPT ![c] = @ + refund]
      /\ deposited' = deposited
  BY DEF CloseChannel
<1> HIDE DEF refund
<1>4. channels[c].collateral - refund \in Nat
  BY <1>1, <1>2, ChannelBooks
<1>5. /\ new \in Channel
      /\ new.token = channels[c].token
      /\ new.collateral = channels[c].collateral - refund
      /\ new.total_spent = channels[c].total_spent
  BY <1>1, <1>4, ChannelBooks DEF Channel
<1> HIDE DEF new
<1>6. /\ refunded'[c] = refunded[c] + refund
      /\ \A d \in Ids \ {c} : refunded'[d] = refunded[d]
  BY <1>3 DEF Inv, TypeOK
<1>7. new.total_spent + refunded'[c]
        = channels[c].total_spent + refunded[c] + refund
  BY <1>1, <1>2, <1>5, <1>6, ChannelBooks
<1> QED
  BY <1>1, <1>2, <1>3, <1>5, <1>6, <1>7, OutgoingBooks

LEMMA WithdrawFreeBooks ==
  ASSUME Inv, Inv', Books, NEW owner \in Owners, NEW c \in Ids,
         WithdrawFree(owner, c)
  PROVE  Books'
<1> DEFINE refund == Free(c)
           new == [channels[c] EXCEPT !.collateral = @ - refund]
<1>1. IsOpenedId(c)
  BY DEF WithdrawFree
<1>2. refund \in Nat /\ refund <= channels[c].collateral
  BY <1>1, ChannelBooks DEF Free
<1>3. /\ channels' = [channels EXCEPT ![c] = new]
      /\ Send(channels[c].token, refund)
      /\ refunded' = [refunded EXCEPT ![c] = @ + refund]
      /\ deposited' = deposited
  BY DEF WithdrawFree
<1> HIDE DEF refund
<1>4. channels[c].collateral - refund \in Nat
  BY <1>1, <1>2, ChannelBooks
<1>5. /\ new \in Channel
      /\ new.token = channels[c].token
      /\ new.collateral = channels[c].collateral - refund
      /\ new.total_spent = channels[c].total_spent
  BY <1>1, <1>4, ChannelBooks DEF Channel
<1> HIDE DEF new
<1>6. /\ refunded'[c] = refunded[c] + refund
      /\ \A d \in Ids \ {c} : refunded'[d] = refunded[d]
  BY <1>3 DEF Inv, TypeOK
<1>7. new.total_spent + refunded'[c]
        = channels[c].total_spent + refunded[c] + refund
  BY <1>1, <1>2, <1>5, <1>6, ChannelBooks
<1> QED
  BY <1>1, <1>2, <1>3, <1>5, <1>6, <1>7, OutgoingBooks

LEMMA PaymentBooks ==
  ASSUME Inv, Inv', Books, NEW agent \in Agents, NEW c \in Ids,
         NEW amount \in Amounts, MaySpend(agent, c, amount), Spend(c, amount)
  PROVE  Books'
<1> USE ChannelAssumption
<1> DEFINE rolled == Rolled(channels[c])
           new == [rolled EXCEPT !.spent_this_period = @ + amount,
                                 !.total_spent = @ + amount,
                                 !.collateral = @ - amount]
<1>1. IsOpenedId(c) /\ amount \in Nat /\ amount <= channels[c].collateral
  <2>1. IsOpenedId(c) /\ amount > 0 /\ amount <= Free(c)
    BY DEF MaySpend
  <2> QED
    BY <2>1, ChannelBooks DEF Free
<1>2. /\ rolled \in Channel
      /\ rolled.token = channels[c].token
      /\ rolled.collateral = channels[c].collateral
      /\ rolled.total_spent = channels[c].total_spent
      /\ rolled.spent_this_period \in Nat
  BY <1>1, ChannelBooks DEF Rolled, Channel, Inv, TypeOK
<1>3. /\ channels' = [channels EXCEPT ![c] = new]
      /\ Send(channels[c].token, amount)
      /\ deposited' = deposited
      /\ refunded' = refunded
  BY DEF Spend
<1> HIDE DEF rolled
<1>4. /\ rolled.collateral - amount \in Nat
      /\ rolled.total_spent + amount \in Nat
      /\ rolled.spent_this_period + amount \in Nat
  BY <1>1, <1>2, ChannelBooks
<1>5. /\ new \in Channel
      /\ new.token = channels[c].token
      /\ new.collateral = channels[c].collateral - amount
      /\ new.total_spent = channels[c].total_spent + amount
  BY <1>2, <1>4 DEF Channel
<1> HIDE DEF new
<1>6. new.total_spent + refunded'[c]
        = channels[c].total_spent + refunded[c] + amount
  BY <1>1, <1>3, <1>5, ChannelBooks
<1> QED
  BY <1>1, <1>3, <1>5, <1>6, OutgoingBooks

(* Key rotations and allocations move no money.                            *)
LEMMA BookkeepingBooks ==
  ASSUME Inv, Inv', Books, NEW c, IsOpenedId(c), NEW new \in Channel,
         channels' = [channels EXCEPT ![c] = new],
         new.token = channels[c].token,
         new.collateral = channels[c].collateral,
         new.total_spent = channels[c].total_spent,
         UNCHANGED <<custody, deposited, refunded>>
  PROVE  Books'
<1>1. /\ custody'[new.token]
           = custody[new.token] - channels[c].collateral + new.collateral
      /\ deposited'[c] = new.collateral + new.total_spent + refunded'[c]
  BY ChannelBooks
<1> QED
  BY <1>1, OneChannelBooks

LEMMA EnableVouchersBooks ==
  ASSUME Inv, Inv', Books, NEW owner \in Owners, NEW c \in Ids,
         NEW key \in Keys, NEW window \in Windows,
         EnableVouchers(owner, c, key, window)
  PROVE  Books'
<1> DEFINE new == [channels[c] EXCEPT !.voucher_signer = key,
                                      !.dispute_ledgers = window]
<1>1. /\ IsOpenedId(c)
      /\ channels' = [channels EXCEPT ![c] = new]
      /\ UNCHANGED <<custody, deposited, refunded>>
  BY DEF EnableVouchers
<1>2. /\ new \in Channel
      /\ new.token = channels[c].token
      /\ new.collateral = channels[c].collateral
      /\ new.total_spent = channels[c].total_spent
  BY <1>1, ChannelBooks, ChannelAssumption DEF Channel
<1> HIDE DEF new
<1> QED
  BY <1>1, <1>2, BookkeepingBooks

LEMMA AllocateBooks ==
  ASSUME Inv, Inv', Books, NEW owner \in Owners, NEW c \in Ids,
         NEW r \in Recipients, NEW amount \in Amounts,
         Allocate(owner, c, r, amount)
  PROVE  Books'
<1> DEFINE new == [channels[c] EXCEPT !.allocated = @ + amount]
<1>1. /\ IsOpenedId(c)
      /\ channels' = [channels EXCEPT ![c] = new]
      /\ UNCHANGED <<custody, deposited, refunded>>
      /\ amount \in Nat
  BY ChannelAssumption DEF Allocate
<1>2. channels[c].allocated + amount \in Nat
  BY <1>1, ChannelBooks
<1>3. /\ new \in Channel
      /\ new.token = channels[c].token
      /\ new.collateral = channels[c].collateral
      /\ new.total_spent = channels[c].total_spent
  BY <1>1, <1>2, ChannelBooks DEF Channel
<1> HIDE DEF new
<1> QED
  BY <1>1, <1>3, BookkeepingBooks

LEMMA PayOutBooks ==
  ASSUME Inv, Inv', Books, NEW c \in Ids, IsOpenedId(c), NEW r \in Recipients,
         NEW cum \in Nat, NEW penalty \in Nat,
         PayOut(c, r, cum, penalty),
         UNCHANGED <<deposited, refunded>>
  PROVE  Books'
<1> DEFINE due == Due(c, r, cum, penalty)
           new == [channels[c] EXCEPT
                     !.allocated = @ - allocations[c][r].amount,
                     !.collateral = @ - due,
                     !.total_spent = @ + due]
<1>1. /\ channels' = [channels EXCEPT ![c] = new]
      /\ Send(channels[c].token, due)
      /\ due >= 0
      /\ due <= channels[c].collateral
  BY DEF PayOut
<1>2. c \in 1..Len(channels)
  BY DEF IsOpenedId
<1>3. due \in Nat
  BY <1>1, ReservedType DEF Due
<1>4. channels[c].allocated - allocations[c][r].amount \in Nat
  BY <1>2, ChannelBooks, ReservedType, ReservationWithinAllocated
<1> HIDE DEF due
<1>5. /\ channels[c].collateral - due \in Nat
      /\ channels[c].total_spent + due \in Nat
  BY <1>1, <1>3, ChannelBooks
<1>6. /\ new \in Channel
      /\ new.token = channels[c].token
      /\ new.collateral = channels[c].collateral - due
      /\ new.total_spent = channels[c].total_spent + due
  BY <1>4, <1>5, ChannelBooks DEF Channel
<1> HIDE DEF new
<1>7. new.total_spent + refunded'[c]
        = channels[c].total_spent + refunded[c] + due
  BY <1>3, <1>6, ChannelBooks
<1> QED
  BY <1>1, <1>3, <1>6, <1>7, OutgoingBooks

LEMMA SettleBooks ==
  ASSUME Inv, Inv', Books, Settle
  PROVE  Books'
<1>1. ASSUME NEW c \in Ids, NEW r \in Recipients, NEW cum \in Amounts,
             CloseCooperative(c, r, cum)
      PROVE  Books'
  <2>1. cum \in Nat
    BY <1>1, ChannelAssumption DEF CloseCooperative, VoucherIsValid
  <2>2. /\ IsOpenedId(c)
        /\ PayOut(c, r, cum, 0)
        /\ UNCHANGED <<deposited, refunded>>
    BY <1>1 DEF CloseCooperative
  <2> QED
    BY <2>1, <2>2, PayOutBooks
<1>2. ASSUME NEW c \in Ids, NEW r \in Recipients, Finalize(c, r)
      PROVE  Books'
  <2>1. /\ IsOpenedId(c)
        /\ InFlight(c, r)
        /\ PayOut(c, r, settlements[c][r].best_cumulative, Penalty(c, r))
        /\ UNCHANGED <<deposited, refunded>>
    BY <1>2 DEF Finalize
  <2>2. settlements[c][r].best_cumulative \in Nat /\ Penalty(c, r) \in Nat
    BY <2>1, InFlightFacts, PenaltyBounded
  <2> QED
    BY <2>1, <2>2, PayOutBooks
<1>3. ASSUME UNCHANGED <<channels, custody, deposited, refunded>>
      PROVE  Books'
  BY <1>3 DEF Books, Custodied, Conserved, UnopenedIsUnpaid, HeldFor,
              Collateral, IsOpenedId
<1>4. ASSUME NEW c \in Ids, NEW r \in Recipients, NEW cum \in Amounts,
             Challenge(c, r, cum)
               \/ \E closer \in Callers : CloseUnilateral(closer, c, r, cum)
      PROVE  Books'
  BY <1>3, <1>4 DEF Challenge, CloseUnilateral
<1> QED
  BY <1>1, <1>2, <1>4 DEF Settle

LEMMA InitBooks == Init => Books
<1> SUFFICES ASSUME Init PROVE Books
  OBVIOUS
<1>1. Inv /\ Len(channels) = 0
  BY InitInv, EmptySeq DEF Init
<1>2. \A c : ~IsOpenedId(c)
  BY <1>1 DEF IsOpenedId
<1>3. Custodied
  <2>1. ASSUME NEW t \in Tokens
        PROVE  custody[t] = Total(HeldFor(t))
    <3>1. HeldFor(t) \in [Ids -> Nat] /\ \A c \in Ids : HeldFor(t)[c] = 0
      BY <1>1, <1>2, HeldType
    <3>2. Total(HeldFor(t)) = 0
      BY <3>1, TotalZero
    <3> QED
      BY <3>2 DEF Init
  <2> QED
    BY <2>1 DEF Custodied
<1>4. Conserved
  BY <1>1 DEF Conserved
<1>5. UnopenedIsUnpaid
  BY DEF Init, UnopenedIsUnpaid
<1> QED
  BY <1>3, <1>4, <1>5 DEF Books

LEMMA NextBooks == Inv /\ Inv' /\ Books /\ [Next]_vars => Books'
<1> SUFFICES ASSUME Inv, Inv', Books, [Next]_vars PROVE Books'
  OBVIOUS
<1>1. CASE Fund
  BY <1>1, OpenChannelBooks, TopUpBooks DEF Fund
<1>2. CASE Reclaim
  BY <1>2, CloseChannelBooks, WithdrawFreeBooks DEF Reclaim
<1>3. CASE AgentPays
  BY <1>3, PaymentBooks DEF AgentPays, Pay, PayWithConversion, PayWithRoute
<1>4. CASE VoucherSetup
  BY <1>4, EnableVouchersBooks, AllocateBooks DEF VoucherSetup
<1>5. CASE Settle
  BY <1>5, SettleBooks
<1>6. CASE CloseLedger \/ SetPaused \/ UNCHANGED vars
  <2>1. UNCHANGED <<channels, custody, deposited, refunded>>
    BY <1>6 DEF CloseLedger, SetPaused, vars
  <2> QED
    BY <2>1 DEF Books, Custodied, Conserved, UnopenedIsUnpaid, HeldFor,
                Collateral, IsOpenedId
<1> QED
  BY <1>1, <1>2, <1>3, <1>4, <1>5, <1>6 DEF Next

THEOREM BooksHold == Spec => []Books
<1>1. Init => Inv /\ Books
  BY InitInv, InitBooks
<1>2. Inv /\ Books /\ [Next]_vars => (Inv /\ Books)'
  BY NextInv, NextBooks
<1>3. Spec => [](Inv /\ Books)
  BY <1>1, <1>2, PTL DEF Spec
<1> QED
  BY <1>3, PTL

(* With any number of channels, owners and tokens, no sequence of          *)
(* payments, refunds and settlements makes the contract hold more or less  *)
(* of a token than its channels record: nobody is paid from another        *)
(* owner's deposit.                                                        *)
THEOREM BalanceIsCustodied == Spec => []Custodied
<1>1. Books => Custodied
  BY DEF Books
<1> QED
  BY <1>1, BooksHold, PTL

(* No unit an owner deposited is lost or created: it is collateral, was    *)
(* spent, or went back.                                                    *)
THEOREM DepositsAreConserved == Spec => []Conserved
<1>1. Books => Conserved
  BY DEF Books
<1> QED
  BY <1>1, BooksHold, PTL

-----------------------------------------------------------------------------
(* The channel is a vault: what its mapping makes of each action.          *)

(* What the mapping makes of an action that rewrites one channel.          *)
LEMMA OneChannelMaps ==
  ASSUME Inv, NEW c, IsOpenedId(c), NEW new \in Channel,
         channels' = [channels EXCEPT ![c] = new]
  PROVE  /\ c \in Ids
         /\ Phase(c) = (IF channels[c].active = TRUE THEN "open" ELSE "closed")
         /\ Phase(c)' = (IF new.active = TRUE THEN "open" ELSE "closed")
         /\ Collateral(c) = channels[c].collateral
         /\ Collateral(c)' = new.collateral
         /\ \A d \in Ids \ {c} : /\ Phase(d)' = Phase(d)
                                 /\ Collateral(d)' = Collateral(d)
<1>1. c \in 1..Len(channels) /\ c \in Ids /\ channels[c] \in Channel
  BY OpenedChannel
<1>3. channels[c].active \in BOOLEAN /\ new.active \in BOOLEAN
  BY <1>1 DEF Channel
<1>2. /\ Len(channels') = Len(channels)
      /\ channels'[c] = new
      /\ \A d \in 1..Len(channels) : d # c => channels'[d] = channels[d]
  BY <1>1, StoreChannel DEF Inv, TypeOK
<1> QED
  BY <1>1, <1>2, <1>3 DEF Phase, Collateral, IsOpenedId

(* The reservations an open channel counts are those of the vault.         *)
LEMMA VaultAvailable ==
  ASSUME Inv, NEW c, IsOpenedId(c)
  PROVE  /\ Total(Reserved(c)) = channels[c].allocated
         /\ Vault!Available(c) = Free(c)
<1>1. /\ c \in 1..Len(channels) /\ c \in Ids
  BY OpenedChannel
<1>2. Total(Reserved(c)) = channels[c].allocated
  BY <1>1 DEF Inv, Backed
<1>3. Vault!Available(c) = Collateral(c) - Total(Reserved(c))
  BY <1>1 DEF Vault!Available
<1> QED
  BY <1>1, <1>2, <1>3 DEF Collateral, Free

(* A step that leaves the allocations alone leaves the reservations.       *)
LEMMA ReservedStays ==
  ASSUME allocations' = allocations
  PROVE  \A d \in Ids : Reserved(d)' = Reserved(d)
BY DEF Reserved

(* open_channel opens a vault.                                             *)
LEMMA OpenChannelMaps ==
  ASSUME Inv,
         NEW owner \in Owners, NEW agent \in Agents, NEW token \in Tokens,
         NEW deposit \in Amounts, NEW limit \in Amounts,
         NEW period \in Periods,
         OpenChannel(owner, agent, token, deposit, limit, period)
  PROVE  Vault!Open(Len(channels) + 1)
<1>0. PICK k : k = Len(channels) + 1
  OBVIOUS
<1>1. /\ deposit \in Nat /\ Len(channels) \in Nat /\ k \in Ids /\ deposit > 0
      /\ Len(channels) = k - 1
  BY <1>0, LenProperties, ChannelAssumption DEF OpenChannel, Inv, TypeOK, Ids
<1>2. /\ Len(channels') = k
      /\ \A c \in 1..(k - 1) : channels'[c] = channels[c]
      /\ channels'[k].active = TRUE
      /\ channels'[k].collateral = deposit
  BY <1>0, <1>1, AppendProperties, ChannelAssumption DEF OpenChannel, Inv, TypeOK, Channel
<1>3. /\ Phase(k) = "unopened"
      /\ Phase(k)' = "open"
      /\ Collateral(k)' = deposit
      /\ \A d \in Ids \ {k} : /\ Phase(d)' = Phase(d)
                                  /\ Collateral(d)' = Collateral(d)
  <2>1. Phase(k) = "unopened"
    BY <1>1 DEF Phase, IsOpenedId
  <2>2. Phase(k)' = "open" /\ Collateral(k)' = deposit
    BY <1>1, <1>2 DEF Phase, Collateral, IsOpenedId
  <2>3. ASSUME NEW d \in Ids \ {k}
        PROVE  Phase(d)' = Phase(d) /\ Collateral(d)' = Collateral(d)
    BY <1>1, <1>2 DEF Phase, Collateral, IsOpenedId, Ids
  <2> QED
    BY <2>1, <2>2, <2>3
<1>4. \A d \in Ids : Reserved(d)' = Reserved(d)
  BY ReservedStays DEF OpenChannel
<1> QED
  BY <1>0, <1>1, <1>3, <1>4 DEF Vault!Open

(* top_up deposits into it.                                                *)
LEMMA TopUpMaps ==
  ASSUME Inv, NEW owner \in Owners, NEW c \in Ids, NEW amount \in Amounts,
         TopUp(owner, c, amount)
  PROVE  Vault!Deposit(c)
<1> DEFINE new == [channels[c] EXCEPT !.collateral = @ + amount]
<1>1. /\ IsOpenedId(c)
      /\ channels[c] \in Channel
      /\ channels[c].active = TRUE
      /\ channels[c].collateral \in Nat
      /\ amount \in Nat \ {0}
  BY OpenedChannel, ChannelAssumption DEF TopUp, Channel
<1>2. /\ new \in Channel
      /\ new.active = TRUE
      /\ new.collateral = channels[c].collateral + amount
      /\ channels' = [channels EXCEPT ![c] = new]
  BY <1>1 DEF Channel, TopUp, Credited
<1>3. \A d \in Ids : Reserved(d)' = Reserved(d)
  BY ReservedStays DEF TopUp
<1> HIDE DEF new
<1>4. /\ Phase(c) = "open"
      /\ Phase(c)' = "open"
      /\ Collateral(c)' = new.collateral
      /\ Collateral(c) = channels[c].collateral
      /\ \A d \in Ids \ {c} : /\ Phase(d)' = Phase(d)
                              /\ Collateral(d)' = Collateral(d)
  BY <1>1, <1>2, OneChannelMaps
<1>5. Collateral(c)' > Collateral(c)
  BY <1>1, <1>2, <1>4
<1> QED
  BY <1>3, <1>4, <1>5 DEF Vault!Deposit

(* A refund leaves the channel exactly what it has reserved.               *)
LEMMA RefundMaps ==
  ASSUME Inv, NEW c, IsOpenedId(c), NEW new \in Channel,
         channels' = [channels EXCEPT ![c] = new],
         new.collateral = channels[c].allocated,
         new.active = channels[c].active \/ new.active = FALSE,
         allocations' = allocations
  PROVE  Vault!Refund(c)
<1>1. channels[c] \in Channel /\ channels[c].active \in BOOLEAN
  BY OpenedChannel DEF Channel
<1>2. /\ c \in Ids
      /\ Phase(c) = (IF channels[c].active = TRUE THEN "open" ELSE "closed")
      /\ Phase(c)' = (IF new.active = TRUE THEN "open" ELSE "closed")
      /\ Collateral(c)' = new.collateral
      /\ \A d \in Ids \ {c} : /\ Phase(d)' = Phase(d)
                              /\ Collateral(d)' = Collateral(d)
  BY OneChannelMaps
<1>3. \A d \in Ids : Reserved(d)' = Reserved(d)
  BY ReservedStays
<1>4. Collateral(c)' = Total(Reserved(c))
  BY <1>2, VaultAvailable
<1>5. Phase(c) # "unopened" /\ Phase(c)' \in {Phase(c), "closed"}
  BY <1>1, <1>2
<1> QED
  BY <1>2, <1>3, <1>4, <1>5 DEF Vault!Refund

(* close_channel is such a refund, and closes the vault.                   *)
LEMMA CloseChannelMaps ==
  ASSUME Inv, NEW owner \in Owners, NEW c \in Ids, CloseChannel(owner, c)
  PROVE  Vault!Refund(c)
<1> DEFINE new == [channels[c] EXCEPT !.collateral = @ - ClosingRefund(c),
                                      !.active = FALSE]
<1>1. /\ IsOpenedId(c)
      /\ channels[c] \in Channel
      /\ channels[c].collateral \in Nat
      /\ channels[c].allocated \in Nat
      /\ channels[c].allocated <= channels[c].collateral
  BY OpenedChannel DEF CloseChannel
<1>2. channels[c].collateral - ClosingRefund(c) = channels[c].allocated
  BY <1>1 DEF ClosingRefund, Free
<1>3. /\ new \in Channel
      /\ new.active = FALSE
      /\ new.collateral = channels[c].allocated
  BY <1>1, <1>2 DEF Channel
<1>4. channels' = [channels EXCEPT ![c] = new] /\ allocations' = allocations
  BY DEF CloseChannel
<1> HIDE DEF new
<1> QED
  BY <1>1, <1>3, <1>4, RefundMaps

(* withdraw_free is such a refund, and keeps it open.                      *)
LEMMA WithdrawFreeMaps ==
  ASSUME Inv, NEW owner \in Owners, NEW c \in Ids, WithdrawFree(owner, c)
  PROVE  Vault!Refund(c)
<1> DEFINE new == [channels[c] EXCEPT !.collateral = @ - Free(c)]
<1>1. /\ IsOpenedId(c)
      /\ channels[c] \in Channel
      /\ channels[c].collateral \in Nat
      /\ channels[c].allocated \in Nat
  BY OpenedChannel DEF WithdrawFree
<1>2. channels[c].collateral - Free(c) = channels[c].allocated
  BY <1>1 DEF Free
<1>3. /\ new \in Channel
      /\ new.active = channels[c].active
      /\ new.collateral = channels[c].allocated
  BY <1>1, <1>2 DEF Channel
<1>4. channels' = [channels EXCEPT ![c] = new] /\ allocations' = allocations
  BY DEF WithdrawFree
<1> HIDE DEF new
<1> QED
  BY <1>1, <1>3, <1>4, RefundMaps

(* A payment of the agent's takes from what is not reserved.               *)
LEMMA PaymentMaps ==
  ASSUME Inv, NEW agent \in Agents, NEW c \in Ids, NEW amount \in Amounts,
         MaySpend(agent, c, amount), Spend(c, amount)
  PROVE  Vault!Spend(c)
<1> DEFINE rolled == Rolled(channels[c])
           new == [rolled EXCEPT !.spent_this_period = @ + amount,
                                 !.total_spent = @ + amount,
                                 !.collateral = @ - amount]
<1>1. /\ IsOpenedId(c)
      /\ channels[c] \in Channel
      /\ channels[c].active = TRUE
      /\ channels[c].collateral \in Nat
      /\ channels[c].allocated \in Nat
      /\ channels[c].allocated <= channels[c].collateral
  BY OpenedChannel DEF MaySpend, Channel
<1>2. /\ amount \in Nat \ {0}
      /\ amount <= Free(c)
      /\ channels[c].collateral - amount \in Nat
  BY <1>1, ChannelAssumption DEF MaySpend, Free
<1>3. /\ rolled \in Channel
      /\ rolled.active = TRUE
      /\ rolled.collateral = channels[c].collateral
      /\ rolled.spent_this_period \in Nat
      /\ rolled.total_spent \in Nat
  BY <1>1 DEF Rolled, Channel, Inv, TypeOK
<1> HIDE DEF rolled
<1>10. /\ rolled.spent_this_period + amount \in Nat
       /\ rolled.total_spent + amount \in Nat
       /\ rolled.collateral - amount \in Nat
  BY <1>2, <1>3
<1>4. /\ new \in Channel
      /\ new.active = TRUE
      /\ new.collateral = channels[c].collateral - amount
  BY <1>3, <1>10 DEF Channel
<1>5. channels' = [channels EXCEPT ![c] = new] /\ allocations' = allocations
  BY DEF Spend, rolled
<1> HIDE DEF new
<1>6. /\ Phase(c) = "open"
      /\ Phase(c)' = "open"
      /\ Collateral(c)' = new.collateral
      /\ Collateral(c) = channels[c].collateral
      /\ \A d \in Ids \ {c} : /\ Phase(d)' = Phase(d)
                              /\ Collateral(d)' = Collateral(d)
  BY <1>1, <1>4, <1>5, OneChannelMaps
<1>7. \A d \in Ids : Reserved(d)' = Reserved(d)
  BY <1>5, ReservedStays
<1>8. amount \in 1..Vault!Available(c)
  BY <1>1, <1>2, VaultAvailable DEF Free
<1>9. Collateral(c)' = Collateral(c) - amount
  BY <1>4, <1>6
<1> QED
  BY <1>6, <1>7, <1>8, <1>9 DEF Vault!Spend

(* An action that rewrites one channel and one of its reservations.        *)
LEMMA OneReservationMaps ==
  ASSUME Inv, NEW c \in Ids, NEW r \in Recipients, NEW a \in Allocation,
         allocations' = [allocations EXCEPT ![c][r] = a]
  PROVE  /\ Reserved(c)' = [Reserved(c) EXCEPT ![r] = a.amount]
         /\ \A d \in Ids \ {c} : Reserved(d)' = Reserved(d)
<1>1. \A d \in Ids, q \in Recipients :
        allocations'[d][q] = IF d = c /\ q = r THEN a ELSE allocations[d][q]
  BY DEF Inv, TypeOK
<1>2. Reserved(c)' = [q \in Recipients |-> allocations'[c][q].amount]
  BY DEF Reserved
<1>5. Reserved(c)' = [q \in Recipients |->
                        IF q = r THEN a.amount ELSE allocations[c][q].amount]
  <2>1. \A q \in Recipients : allocations'[c][q].amount
          = IF q = r THEN a.amount ELSE allocations[c][q].amount
    BY <1>1
  <2> QED
    BY <1>2, <2>1
<1>3. Reserved(c)' = [Reserved(c) EXCEPT ![r] = a.amount]
  BY <1>5 DEF Reserved
<1>4. ASSUME NEW d \in Ids \ {c}
      PROVE  Reserved(d)' = Reserved(d)
  BY <1>1 DEF Reserved
<1> QED
  BY <1>3, <1>4

(* allocate reserves for one recipient what was free.                      *)
LEMMA AllocateMaps ==
  ASSUME Inv, NEW owner \in Owners, NEW c \in Ids, NEW r \in Recipients,
         NEW amount \in Amounts, Allocate(owner, c, r, amount)
  PROVE  Vault!Reserve(c, r)
<1> DEFINE new == [channels[c] EXCEPT !.allocated = @ + amount]
           a == [allocations[c][r] EXCEPT !.amount = @ + amount]
<1>1. /\ IsOpenedId(c)
      /\ channels[c] \in Channel
      /\ channels[c].active = TRUE
      /\ channels[c].collateral \in Nat
      /\ channels[c].allocated \in Nat
      /\ channels[c].allocated <= channels[c].collateral
  BY OpenedChannel DEF Allocate, Channel
<1>2. /\ amount \in Nat \ {0}
      /\ amount <= Free(c)
      /\ channels[c].allocated + amount \in Nat
  BY <1>1, ChannelAssumption DEF Allocate, Free
<1>3. /\ new \in Channel
      /\ new.active = TRUE
      /\ new.collateral = channels[c].collateral
  BY <1>1, <1>2 DEF Channel
<1>4. /\ allocations[c][r] \in Allocation
      /\ allocations[c][r].amount \in Nat
      /\ Reserved(c) \in [Recipients -> Nat]
      /\ Reserved(c)[r] = allocations[c][r].amount
  BY ReservedType
<1>5. a \in Allocation /\ a.amount = Reserved(c)[r] + amount
  BY <1>2, <1>4 DEF Allocation
<1>6. /\ channels' = [channels EXCEPT ![c] = new]
      /\ allocations' = [allocations EXCEPT ![c][r] = a]
  BY DEF Allocate
<1> HIDE DEF new, a
<1>7. /\ Phase(c) = "open"
      /\ Phase(c)' = "open"
      /\ Collateral(c)' = new.collateral
      /\ Collateral(c) = channels[c].collateral
      /\ \A d \in Ids \ {c} : /\ Phase(d)' = Phase(d)
                              /\ Collateral(d)' = Collateral(d)
  BY <1>1, <1>3, <1>6, OneChannelMaps
<1>8. /\ Reserved(c)' = [Reserved(c) EXCEPT ![r] = a.amount]
      /\ \A d \in Ids \ {c} : Reserved(d)' = Reserved(d)
  BY <1>5, <1>6, OneReservationMaps
<1>9. amount \in 1..Vault!Available(c)
  BY <1>1, <1>2, VaultAvailable DEF Free
<1>10. Collateral(c)' = Collateral(c)
  BY <1>3, <1>7
<1>11. Reserved(c)' = [Reserved(c) EXCEPT ![r] = Reserved(c)[r] + amount]
  BY <1>5, <1>8
<1>12. [d \in Ids |-> Reserved(d)]'
         = [[d \in Ids |-> Reserved(d)] EXCEPT
              ![c] = [Reserved(c) EXCEPT ![r] = Reserved(c)[r] + amount]]
  BY <1>8, <1>11
<1> QED
  BY <1>7, <1>9, <1>10, <1>12 DEF Vault!Reserve

(* A payout takes something, at most the recipient's reservation, which it *)
(* releases as a whole.                                                    *)
LEMMA PayOutMaps ==
  ASSUME Inv, NEW c \in Ids, IsOpenedId(c), NEW r \in Recipients,
         NEW cum \in Nat, NEW penalty \in Nat,
         cum + penalty <= allocations[c][r].amount,
         allocations[c][r].settled < cum,
         PayOut(c, r, cum, penalty)
  PROVE  Vault!Redeem(c, r)
<1> DEFINE due == Due(c, r, cum, penalty)
           new == [channels[c] EXCEPT
                     !.allocated = @ - allocations[c][r].amount,
                     !.collateral = @ - due,
                     !.total_spent = @ + due]
           a == [amount |-> 0, settled |-> cum + penalty]
<1>1. /\ c \in 1..Len(channels)
      /\ channels[c] \in Channel
      /\ channels[c].collateral \in Nat
      /\ channels[c].allocated \in Nat
      /\ channels[c].total_spent \in Nat
  BY OpenedChannel
<1>2. /\ allocations[c][r].amount \in Nat
      /\ allocations[c][r].settled \in Nat
      /\ allocations[c][r].amount <= channels[c].allocated
      /\ Reserved(c) \in [Recipients -> Nat]
      /\ Reserved(c)[r] = allocations[c][r].amount
  BY <1>1, ReservedType, ReservationWithinAllocated
<1>3. due \in 1..Reserved(c)[r]
  <2> DEFINE z == allocations[c][r].amount
             before == allocations[c][r].settled
  <2>1. /\ z \in Nat /\ before \in Nat
        /\ cum + penalty <= z
        /\ before < cum
    BY <1>2
  <2>2. due = cum - before + penalty
    BY DEF Due
  <2> HIDE DEF z, before, due
  <2>3. due \in 1..z
    BY <2>1, <2>2
  <2> QED
    BY <1>2, <2>3 DEF z
<1>4. due <= channels[c].collateral
  BY DEF PayOut
<1>5. /\ channels' = [channels EXCEPT ![c] = new]
      /\ allocations' = [allocations EXCEPT ![c][r] = a]
  BY DEF PayOut
<1>6. a \in Allocation /\ a.amount = 0
  BY DEF Allocation
<1> HIDE DEF due, a
<1>7. /\ channels[c].allocated - allocations[c][r].amount \in Nat
      /\ channels[c].collateral - due \in Nat
      /\ channels[c].total_spent + due \in Nat
  <2>1. /\ channels[c].allocated \in Nat /\ channels[c].collateral \in Nat
        /\ channels[c].total_spent \in Nat
    BY <1>1 DEF Channel
  <2>2. due \in Nat
    BY <1>2, <1>3
  <2> QED
    BY <1>2, <1>4, <2>1, <2>2
<1>8. /\ new \in Channel
      /\ new.active = channels[c].active
      /\ new.collateral = channels[c].collateral - due
  BY <1>1, <1>7 DEF Channel
<1> HIDE DEF new
<1>9. /\ Phase(c) = (IF channels[c].active = TRUE THEN "open" ELSE "closed")
      /\ Phase(c)' = (IF new.active = TRUE THEN "open" ELSE "closed")
      /\ Collateral(c)' = new.collateral
      /\ Collateral(c) = channels[c].collateral
      /\ \A d \in Ids \ {c} : /\ Phase(d)' = Phase(d)
                              /\ Collateral(d)' = Collateral(d)
  BY <1>5, <1>8, OneChannelMaps
<1>10. /\ Phase(c)' = Phase(c)
       /\ Collateral(c)' = Collateral(c) - due
  BY <1>8, <1>9
<1>11. /\ Reserved(c)' = [Reserved(c) EXCEPT ![r] = 0]
       /\ \A d \in Ids \ {c} : Reserved(d)' = Reserved(d)
  <2>1. /\ Reserved(c)' = [Reserved(c) EXCEPT ![r] = a.amount]
        /\ \A d \in Ids \ {c} : Reserved(d)' = Reserved(d)
    BY <1>5, <1>6, OneReservationMaps
  <2> QED
    BY <1>6, <2>1
<1>12. /\ [d \in Ids |-> Reserved(d)]'
            = [[d \in Ids |-> Reserved(d)] EXCEPT
                 ![c] = [Reserved(c) EXCEPT ![r] = 0]]
       /\ [d \in Ids |-> Collateral(d)]'
            = [[d \in Ids |-> Collateral(d)] EXCEPT ![c] = Collateral(c) - due]
       /\ [d \in Ids |-> Phase(d)]' = [d \in Ids |-> Phase(d)]
  BY <1>9, <1>10, <1>11
<1> QED
  BY <1>3, <1>12 DEF Vault!Redeem

(* What a step does that leaves the channels' money and reservations alone.*)
LEMMA Unmapped ==
  ASSUME UNCHANGED <<channels, allocations>>
  PROVE  UNCHANGED Vault!vault
BY DEF Vault!vault, Phase, Collateral, Reserved, IsOpenedId

(* No channel: no vault is open.                                           *)
LEMMA InitMaps == Init => Vault!VaultInit
<1> SUFFICES ASSUME Init PROVE Vault!VaultInit
  OBVIOUS
<1>1. Len(channels) = 0
  BY EmptySeq DEF Init
<1>2. \A c \in Ids : ~IsOpenedId(c)
  BY <1>1 DEF IsOpenedId
<1>3. \A c \in Ids : Reserved(c) = [r \in Recipients |-> 0]
  BY DEF Init, Reserved
<1> QED
  BY <1>2, <1>3 DEF Vault!VaultInit, Phase, Collateral

(* Every step of the contract is a step of the vault, or changes nothing   *)
(* the vault shows.                                                        *)
LEMMA NextMaps == Inv /\ [Next]_vars => [Vault!VaultNext]_(Vault!vault)
<1> SUFFICES ASSUME Inv, [Next]_vars
             PROVE  Vault!VaultNext \/ UNCHANGED Vault!vault
  OBVIOUS
<1>1. CASE Fund
  <2>1. ASSUME NEW owner \in Owners, NEW agent \in Agents, NEW token \in Tokens,
               NEW deposit \in Amounts, NEW limit \in Amounts,
               NEW period \in Periods,
               OpenChannel(owner, agent, token, deposit, limit, period)
        PROVE  Vault!VaultNext
    <3>1. Len(channels) + 1 \in Ids
      BY <2>1, LenProperties, ChannelAssumption
         DEF OpenChannel, Inv, TypeOK, Ids
    <3> QED
      BY <2>1, <3>1, OpenChannelMaps DEF Vault!VaultNext
  <2> QED
    BY <1>1, <2>1, TopUpMaps DEF Fund, Vault!VaultNext
<1>2. CASE Reclaim
  BY <1>2, CloseChannelMaps, WithdrawFreeMaps DEF Reclaim, Vault!VaultNext
<1>3. CASE AgentPays
  BY <1>3, PaymentMaps
     DEF AgentPays, Pay, PayWithConversion, PayWithRoute, Vault!VaultNext
<1>4. CASE VoucherSetup
  <2>1. ASSUME NEW owner \in Owners, NEW c \in Ids, NEW key \in Keys,
               NEW window \in Windows, EnableVouchers(owner, c, key, window)
        PROVE  UNCHANGED Vault!vault
    <3> DEFINE new == [channels[c] EXCEPT !.voucher_signer = key,
                                          !.dispute_ledgers = window]
    <3>1. IsOpenedId(c) /\ channels[c] \in Channel
      BY <2>1, OpenedChannel DEF EnableVouchers
    <3>2. /\ new \in Channel
          /\ new.active = channels[c].active
          /\ new.collateral = channels[c].collateral
      BY <3>1, ChannelAssumption DEF Channel
    <3>3. channels' = [channels EXCEPT ![c] = new] /\ allocations' = allocations
      BY <2>1 DEF EnableVouchers
    <3> HIDE DEF new
    <3>4. /\ Phase(c) = (IF channels[c].active = TRUE THEN "open" ELSE "closed")
          /\ Phase(c)' = (IF new.active = TRUE THEN "open" ELSE "closed")
          /\ Collateral(c)' = new.collateral
          /\ Collateral(c) = channels[c].collateral
          /\ \A d \in Ids \ {c} : /\ Phase(d)' = Phase(d)
                                  /\ Collateral(d)' = Collateral(d)
      BY <3>1, <3>2, <3>3, OneChannelMaps
    <3>5. \A d \in Ids : /\ Phase(d)' = Phase(d)
                         /\ Collateral(d)' = Collateral(d)
      BY <3>2, <3>4
    <3>6. \A d \in Ids : Reserved(d)' = Reserved(d)
      BY <3>3, ReservedStays
    <3> QED
      BY <3>5, <3>6 DEF Vault!vault
  <2> QED
    BY <1>4, <2>1, AllocateMaps DEF VoucherSetup, Vault!VaultNext
<1>5. CASE Settle
  <2>1. ASSUME NEW c \in Ids, NEW r \in Recipients, NEW cum \in Amounts,
               CloseCooperative(c, r, cum)
        PROVE  Vault!Redeem(c, r)
    <3>1. /\ IsOpenedId(c)
          /\ PayOut(c, r, cum, 0)
          /\ cum \in Nat
          /\ cum + 0 <= allocations[c][r].amount
          /\ allocations[c][r].settled < cum
      BY <2>1, ReservedType, ChannelAssumption
         DEF CloseCooperative, VoucherIsValid
    <3> QED
      BY <3>1, PayOutMaps
  <2>2. ASSUME NEW c \in Ids, NEW r \in Recipients, Finalize(c, r)
        PROVE  Vault!Redeem(c, r)
    <3>1. /\ IsOpenedId(c)
          /\ InFlight(c, r)
          /\ PayOut(c, r, settlements[c][r].best_cumulative, Penalty(c, r))
      BY <2>2 DEF Finalize
    <3>2. /\ settlements[c][r].best_cumulative \in Nat
          /\ Penalty(c, r) \in Nat
          /\ settlements[c][r].best_cumulative + Penalty(c, r)
               <= allocations[c][r].amount
          /\ allocations[c][r].settled < settlements[c][r].best_cumulative
      BY <3>1, InFlightFacts, PenaltyBounded, ReservedType
    <3> QED
      BY <3>1, <3>2, PayOutMaps
  <2>3. ASSUME NEW c \in Ids, NEW r \in Recipients, NEW cum \in Amounts,
               Challenge(c, r, cum)
                 \/ \E closer \in Callers : CloseUnilateral(closer, c, r, cum)
        PROVE  UNCHANGED Vault!vault
    BY <2>3, Unmapped DEF Challenge, CloseUnilateral
  <2> QED
    BY <1>5, <2>1, <2>2, <2>3 DEF Settle, Vault!VaultNext
<1>6. CASE CloseLedger \/ SetPaused \/ UNCHANGED vars
  BY <1>6, Unmapped DEF CloseLedger, SetPaused, vars
<1> QED
  BY <1>1, <1>2, <1>3, <1>4, <1>5, <1>6 DEF Next

(* The contract is a vault: spending and refunding take only unreserved    *)
(* funds, a recipient is paid from its own reservation alone, and a closed *)
(* channel only pays out.                                                  *)
THEOREM ContractIsVault == Spec => IsVault
BY InitMaps, NextMaps, InvHolds, PTL DEF Spec, IsVault, Vault!VaultSpec

-----------------------------------------------------------------------------
(* The order of settlements.                                               *)

(* What a step may do to the close and the payouts of one recipient.       *)
KeepsOrder(c, r) ==
  /\ allocations'[c][r].settled >= allocations[c][r].settled
  /\ InFlight(c, r) /\ InFlight(c, r)' =>
       /\ allocations'[c][r] = allocations[c][r]
       /\ settlements'[c][r].best_cumulative
            >= settlements[c][r].best_cumulative
  /\ InFlight(c, r) /\ ~InFlight(c, r)' =>
       allocations'[c][r].settled >= settlements[c][r].best_cumulative

(* A step that touches neither keeps the order.                            *)
LEMMA UntouchedKeepsOrder ==
  ASSUME Inv, NEW c \in Ids, NEW r \in Recipients,
         allocations'[c][r] = allocations[c][r],
         settlements'[c][r] = settlements[c][r]
  PROVE  KeepsOrder(c, r)
<1>1. allocations[c][r].settled \in Nat
  BY ReservedType
<1>2. InFlight(c, r) => settlements[c][r].best_cumulative \in Nat
  BY InFlightFacts
<1> QED
  BY <1>1, <1>2 DEF KeepsOrder, InFlight

(* Reserving more for a recipient keeps the order: it has no open close.   *)
LEMMA AllocateKeepsOrder ==
  ASSUME Inv, NEW owner \in Owners, NEW c \in Ids, NEW r \in Recipients,
         NEW amount \in Amounts, Allocate(owner, c, r, amount),
         NEW d \in Ids, NEW q \in Recipients
  PROVE  KeepsOrder(d, q)
<1> DEFINE a == [allocations[c][r] EXCEPT !.amount = @ + amount]
<1>1. /\ allocations' = [allocations EXCEPT ![c][r] = a]
      /\ settlements' = settlements
      /\ ~InFlight(c, r)
  BY DEF Allocate
<1>2. CASE <<d, q>> = <<c, r>>
  <2>1. allocations[c][r] \in Allocation /\ allocations[c][r].settled \in Nat
    BY ReservedType
  <2>2. a.settled = allocations[c][r].settled
    BY <2>1 DEF Allocation
  <2>3. allocations'[c][r] = a
    BY <1>1 DEF Inv, TypeOK
  <2>4. ~InFlight(c, r)'
    BY <1>1 DEF InFlight
  <2> QED
    BY <1>1, <1>2, <2>1, <2>2, <2>3, <2>4 DEF KeepsOrder
<1>3. CASE <<d, q>> # <<c, r>>
  <2>1. allocations'[d][q] = allocations[d][q] /\ settlements'[d][q] = settlements[d][q]
    BY <1>1, <1>3 DEF Inv, TypeOK
  <2> QED
    BY <2>1, UntouchedKeepsOrder
<1> QED
  BY <1>2, <1>3

(* A payout leaves no close open and settles at least what it was given.   *)
LEMMA PayOutKeepsOrder ==
  ASSUME Inv, NEW c \in Ids, NEW r \in Recipients,
         NEW cum \in Nat, NEW penalty \in Nat,
         allocations[c][r].settled < cum,
         PayOut(c, r, cum, penalty),
         settlements' = [settlements EXCEPT ![c][r] = NoSettlement],
         InFlight(c, r) => cum = settlements[c][r].best_cumulative,
         NEW d \in Ids, NEW q \in Recipients
  PROVE  KeepsOrder(d, q)
<1> DEFINE a == [amount |-> 0, settled |-> cum + penalty]
<1>1. allocations' = [allocations EXCEPT ![c][r] = a]
  BY DEF PayOut
<1>2. CASE <<d, q>> = <<c, r>>
  <2>1. /\ allocations'[c][r].settled = cum + penalty
        /\ ~InFlight(c, r)'
    BY <1>1 DEF Inv, TypeOK, InFlight
  <2>2. cum + penalty >= cum /\ cum + penalty >= allocations[c][r].settled
    BY ReservedType
  <2> QED
    BY <1>2, <2>1, <2>2 DEF KeepsOrder
<1>3. CASE <<d, q>> # <<c, r>>
  <2>1. allocations'[d][q] = allocations[d][q] /\ settlements'[d][q] = settlements[d][q]
    BY <1>1, <1>3 DEF Inv, TypeOK
  <2> QED
    BY <2>1, UntouchedKeepsOrder
<1> QED
  BY <1>2, <1>3

(* Closes, challenges and finalisations keep the order.                    *)
LEMMA SettleKeepsOrder ==
  ASSUME Inv, Settle, NEW d \in Ids, NEW q \in Recipients
  PROVE  KeepsOrder(d, q)
<1>1. ASSUME NEW c \in Ids, NEW r \in Recipients, NEW cum \in Amounts,
             CloseCooperative(c, r, cum)
      PROVE  KeepsOrder(d, q)
  <2>1. /\ PayOut(c, r, cum, 0)
        /\ cum \in Nat
        /\ allocations[c][r].settled < cum
        /\ settlements' = settlements
        /\ ~InFlight(c, r)
    BY <1>1, ReservedType, ChannelAssumption
       DEF CloseCooperative, VoucherIsValid
  <2>2. settlements' = [settlements EXCEPT ![c][r] = NoSettlement]
    BY <2>1 DEF InFlight, Inv, TypeOK
  <2> QED
    BY <2>1, <2>2, PayOutKeepsOrder
<1>2. ASSUME NEW c \in Ids, NEW r \in Recipients, Finalize(c, r)
      PROVE  KeepsOrder(d, q)
  <2>1. /\ InFlight(c, r)
        /\ PayOut(c, r, settlements[c][r].best_cumulative, Penalty(c, r))
        /\ settlements' = [settlements EXCEPT ![c][r] = NoSettlement]
    BY <1>2 DEF Finalize
  <2>2. /\ settlements[c][r].best_cumulative \in Nat
        /\ Penalty(c, r) \in Nat
        /\ allocations[c][r].settled < settlements[c][r].best_cumulative
    BY <2>1, InFlightFacts, PenaltyBounded, ReservedType
  <2> QED
    BY <2>1, <2>2, PayOutKeepsOrder
<1>3. ASSUME NEW c \in Ids, NEW r \in Recipients, NEW cum \in Amounts,
             Challenge(c, r, cum)
      PROVE  KeepsOrder(d, q)
  <2>1. /\ allocations' = allocations
        /\ InFlight(c, r)
        /\ cum > settlements[c][r].best_cumulative
        /\ settlements' = [settlements EXCEPT ![c][r].best_cumulative = cum]
    BY <1>3 DEF Challenge, Supersedes
  <2>2. /\ settlements[c][r] \in Settlement
        /\ settlements[c][r].best_cumulative \in Nat
        /\ allocations[d][q].settled \in Nat
    BY <2>1, InFlightFacts, ReservedType
  <2>3. CASE <<d, q>> = <<c, r>>
    <3> DEFINE new == [settlements[c][r] EXCEPT !.best_cumulative = cum]
    <3>1. cum \in Nat
      BY <1>3, ChannelAssumption DEF Challenge, VoucherIsValid
    <3>2. new \in Settlement /\ new.best_cumulative = cum
      BY <2>2, <3>1 DEF Settlement
    <3>3. settlements'[c][r] = new
      BY <2>1 DEF Inv, TypeOK
    <3>4. InFlight(c, r)'
      BY <3>2, <3>3, SettlementAssumption DEF InFlight
    <3> HIDE DEF new
    <3>5. settlements'[c][r].best_cumulative = cum
      BY <3>2, <3>3
    <3> QED
      BY <2>1, <2>2, <2>3, <3>1, <3>4, <3>5 DEF KeepsOrder
  <2>4. CASE <<d, q>> # <<c, r>>
    <3>1. allocations'[d][q] = allocations[d][q] /\ settlements'[d][q] = settlements[d][q]
      BY <2>1, <2>4 DEF Inv, TypeOK
    <3> QED
      BY <3>1, UntouchedKeepsOrder
  <2> QED
    BY <2>3, <2>4
<1>4. ASSUME NEW c \in Ids, NEW r \in Recipients, NEW cum \in Amounts,
             NEW closer \in Callers, CloseUnilateral(closer, c, r, cum)
      PROVE  KeepsOrder(d, q)
  <2>1. /\ allocations' = allocations
        /\ ~InFlight(c, r)
        /\ \A e \in Ids, p \in Recipients : <<e, p>> # <<c, r>> =>
             settlements'[e][p] = settlements[e][p]
    BY <1>4 DEF CloseUnilateral, Inv, TypeOK
  <2>2. CASE <<d, q>> = <<c, r>>
    BY <2>1, <2>2, ReservedType DEF KeepsOrder
  <2>3. CASE <<d, q>> # <<c, r>>
    BY <2>1, <2>3, UntouchedKeepsOrder
  <2> QED
    BY <2>2, <2>3
<1> QED
  BY <1>1, <1>2, <1>3, <1>4 DEF Settle

(* Funding, refunds, payments and the breaker leave the closes alone.      *)
LEMMA ClosesUntouched ==
  ASSUME Fund \/ Reclaim \/ AgentPays \/ SetPaused
  PROVE  UNCHANGED <<settlements, allocations, ledger>>
<1>1. CASE Fund
  <2>1. CASE \E owner \in Owners, amount \in Amounts, c \in Ids :
               TopUp(owner, c, amount)
    BY <2>1 DEF TopUp
  <2>2. CASE \E owner \in Owners, amount \in Amounts, agent \in Agents,
                token \in Tokens, limit \in Amounts, period \in Periods :
               OpenChannel(owner, agent, token, amount, limit, period)
    BY <2>2 DEF OpenChannel
  <2> QED
    BY <1>1, <2>1, <2>2 DEF Fund
<1>2. CASE Reclaim
  <2>1. PICK owner \in Owners, c \in Ids :
               CloseChannel(owner, c) \/ WithdrawFree(owner, c)
    BY <1>2 DEF Reclaim
  <2> QED
    BY <2>1 DEF CloseChannel, WithdrawFree
<1>3. CASE AgentPays
  <2>1. PICK c \in Ids, amount \in Amounts : Spend(c, amount)
    BY <1>3 DEF AgentPays, Pay, PayWithConversion, PayWithRoute
  <2> QED
    BY <2>1 DEF Spend
<1>4. CASE SetPaused
  BY <1>4 DEF SetPaused
<1> QED
  BY <1>1, <1>2, <1>3, <1>4

(* Every step keeps the order.                                             *)
LEMMA NextKeepsOrder ==
  ASSUME Inv, [Next]_vars, NEW d \in Ids, NEW q \in Recipients
  PROVE  KeepsOrder(d, q)
<1>1. CASE UNCHANGED <<allocations, settlements>>
  BY <1>1, UntouchedKeepsOrder
<1>2. CASE Settle
  BY <1>2, SettleKeepsOrder
<1>3. ASSUME NEW owner \in Owners, NEW c \in Ids, NEW r \in Recipients,
             NEW amount \in Amounts, Allocate(owner, c, r, amount)
      PROVE  KeepsOrder(d, q)
  BY <1>3, AllocateKeepsOrder
<1>4. CASE Fund \/ Reclaim
  BY <1>1, <1>4, ClosesUntouched
<1>5. CASE AgentPays
  BY <1>1, <1>5, ClosesUntouched
<1>6. CASE VoucherSetup
  <2>1. CASE \E owner \in Owners, c \in Ids, r \in Recipients, amount \in Amounts :
               Allocate(owner, c, r, amount)
    BY <1>3, <2>1
  <2>2. CASE UNCHANGED <<allocations, settlements>>
    BY <1>1, <2>2
  <2> QED
    BY <1>6, <2>1, <2>2 DEF VoucherSetup, EnableVouchers
<1>7. CASE CloseLedger \/ SetPaused \/ UNCHANGED vars
  BY <1>1, <1>7 DEF CloseLedger, SetPaused, vars
<1> QED
  BY <1>2, <1>4, <1>5, <1>6, <1>7 DEF Next

(* What a recipient was paid never shrinks, and while its close is open    *)
(* nothing but finalize pays it, with the best voucher presented.          *)
THEOREM SettlementsAreOrdered == Spec => SettlementOrdered
<1>1. Inv /\ [Next]_vars => [\A c \in Ids, r \in Recipients : KeepsOrder(c, r)]_vars
  BY NextKeepsOrder
<1>2. Spec => [][\A c \in Ids, r \in Recipients : KeepsOrder(c, r)]_vars
  BY <1>1, InvHolds, PTL DEF Spec
<1> QED
  BY <1>2 DEF SettlementOrdered, KeepsOrder

-----------------------------------------------------------------------------
(* The rate at which an agent spends.  h is the agent's spending by ledger *)
(* in one channel, Over(h, i, j) what it spent from ledger i to ledger j.  *)

Ledgers == 0..MaxLedger

Over(h, i, j) == Total([l \in i..j |-> h[l]])

(* The ledgers of the model are the natural numbers up to the last one.    *)
LEMMA LedgerFacts ==
  /\ MaxLedger \in Nat
  /\ \A l : l \in Ledgers <=> l \in Nat /\ l <= MaxLedger
BY ChannelAssumption DEF Ledgers

(* A stretch of ledgers, typed.                                            *)
LEMMA OverType ==
  ASSUME NEW h \in [Ledgers -> Nat], NEW i \in Nat, NEW j \in Int,
         j <= MaxLedger
  PROVE  /\ Over(h, i, j) \in Nat
         /\ [l \in i..j |-> h[l]] \in [i..j -> Nat]
         /\ IsFiniteSet(i..j)
<1>1. i \in Int
  OBVIOUS
<1>2. IsFiniteSet(i..j)
  BY <1>1, FS_Interval
<1>3. i..j \subseteq Ledgers
  BY ChannelAssumption DEF Ledgers
<1>4. [l \in i..j |-> h[l]] \in [i..j -> Nat]
  BY <1>3
<1> QED
  BY <1>2, <1>4, TotalType DEF Over

(* What was spent in a stretch is a natural number.                        *)
LEMMA OverNat ==
  ASSUME NEW h \in [Ledgers -> Nat], NEW i \in Nat, NEW j \in Int,
         j <= MaxLedger
  PROVE  Over(h, i, j) \in Nat
BY OverType

(* A stretch of ledgers cut in two.                                        *)
LEMMA OverCut ==
  ASSUME NEW h \in [Ledgers -> Nat],
         NEW i \in Nat, NEW j \in Nat, NEW k \in Int,
         i <= j, j <= k + 1, k <= MaxLedger
  PROVE  Over(h, i, k) = Over(h, i, j - 1) + Over(h, j, k)
<1>1. /\ j - 1 \in Int /\ j - 1 <= MaxLedger /\ j <= MaxLedger + 1
      /\ (i..(j - 1)) \cup (j..k) = i..k
      /\ (i..(j - 1)) \cap (j..k) = {}
  BY ChannelAssumption
<1> DEFINE S == i..(j - 1)
           T == j..k
           f == [l \in i..k |-> h[l]]
           g == [l \in S |-> h[l]]
           e == [l \in T |-> h[l]]
<1>2. /\ IsFiniteSet(S) /\ IsFiniteSet(T) /\ S \cap T = {}
      /\ f \in [S \cup T -> Nat] /\ g \in [S -> Nat] /\ e \in [T -> Nat]
  BY <1>1, OverType
<1>3. (\A l \in S : g[l] = f[l]) /\ (\A l \in T : e[l] = f[l])
  BY <1>1
<1>4. /\ Over(h, i, k) = Total(f)
      /\ Over(h, i, j - 1) = Total(g)
      /\ Over(h, j, k) = Total(e)
  BY DEF Over
<1> HIDE DEF S, T, f, g, e
<1>5. Total(f) = Total(g) + Total(e)
  BY <1>2, <1>3, TotalUnion
<1> QED
  BY <1>4, <1>5

(* A longer stretch sees no less spending.                                 *)
LEMMA OverPart ==
  ASSUME NEW h \in [Ledgers -> Nat],
         NEW i \in Nat, NEW j \in Nat, NEW k \in Int, NEW m \in Int,
         i <= j, k <= m, m <= MaxLedger
  PROVE  Over(h, j, k) <= Over(h, i, m)
<1>1. CASE k < j
  <2>1. j..k = {}
    BY <1>1
  <2>2. Over(h, j, k) = 0
    BY <2>1, TotalZero DEF Over
  <2> QED
    BY <2>2, OverType
<1>2. CASE j <= k
  <2>1. Over(h, i, m) = Over(h, i, j - 1) + Over(h, j, m)
    BY <1>2, OverCut
  <2>2. Over(h, j, m) = Over(h, j, (k + 1) - 1) + Over(h, k + 1, m)
    BY <1>2, OverCut
  <2>3. (k + 1) - 1 = k
    OBVIOUS
  <2>4. /\ Over(h, i, j - 1) \in Nat
        /\ Over(h, j, k) \in Nat
        /\ Over(h, k + 1, m) \in Nat
    <3>1. /\ j - 1 \in Int /\ j - 1 <= MaxLedger
          /\ k <= MaxLedger /\ k + 1 \in Nat
      BY <1>2, ChannelAssumption
    <3> QED
      BY <3>1, OverType
  <2> QED
    BY <2>1, <2>2, <2>3, <2>4
<1> QED
  BY <1>1, <1>2

(* Where nothing was spent, the total is zero.                             *)
LEMMA OverNothing ==
  ASSUME NEW h \in [Ledgers -> Nat], NEW i \in Nat, NEW j \in Int,
         j <= MaxLedger, \A l \in i..j : h[l] = 0
  PROVE  Over(h, i, j) = 0
BY OverType, TotalZero DEF Over

(* Spending n in one ledger adds n to the stretches that contain it.       *)
LEMMA OverSpent ==
  ASSUME NEW h \in [Ledgers -> Nat], NEW now \in Ledgers, NEW n \in Nat,
         NEW g \in [Ledgers -> Nat], g[now] = h[now] + n,
         \A l \in Ledgers \ {now} : g[l] = h[l],
         NEW i \in Nat, NEW j \in Int, j <= MaxLedger
  PROVE  Over(g, i, j) = Over(h, i, j) + (IF now \in i..j THEN n ELSE 0)
<1> DEFINE D == i..j
           f == [l \in D |-> h[l]]
           e == [l \in D |-> g[l]]
<1>1. /\ f \in [D -> Nat] /\ e \in [D -> Nat] /\ IsFiniteSet(D)
      /\ Over(h, i, j) = Total(f) /\ Over(g, i, j) = Total(e)
      /\ Over(h, i, j) \in Nat
  BY OverType DEF Over
<1>2. CASE now \in D
  <2>1. \A l \in D \ {now} : e[l] = f[l]
    BY ChannelAssumption DEF Ledgers
  <2>2. e[now] = f[now] + n /\ f[now] \in Nat
    BY <1>2
  <2> HIDE DEF f, e, D
  <2>3. Total(e) = Total(f) - f[now] + e[now]
    BY <1>1, <1>2, <2>1, TotalUpdate
  <2>4. Total(f) \in Nat
    BY <1>1
  <2>5. Total(e) = Total(f) + n
    BY <2>2, <2>3, <2>4
  <2> QED
    BY <1>1, <1>2, <2>5 DEF D
<1>3. CASE now \notin D
  <2>1. e = f
    BY <1>3, ChannelAssumption DEF Ledgers
  <2> QED
    BY <1>1, <1>3, <2>1
<1> QED
  BY <1>2, <1>3

\* The last ledger of a stretch as long as a period.
LastOf(first, length) ==
  IF first + length - 1 <= MaxLedger THEN first + length - 1 ELSE MaxLedger

\* What holds of a channel's window, started at ledger start, at each ledger:
\* it recorded all that was spent since, nothing was spent beyond its end, and
\* a stretch as long as the period sees at most a limit before the window.
Paced(h, now, length, limit, start, spent) ==
  /\ start <= now
  /\ spent <= limit
  /\ spent = Over(h, start, now)
  /\ \A l \in Ledgers : l > now \/ l >= start + length => h[l] = 0
  /\ \A first \in 0..start :
       first + length > start => Over(h, first, start - 1) <= limit
  /\ \A first \in Ledgers :
       Over(h, first, LastOf(first, length))
         <= IF length = 1 THEN limit ELSE 2 * limit

(* The last ledger of a stretch is one of its ledgers.                     *)
LEMMA LastOfType ==
  ASSUME NEW first \in Ledgers, NEW length \in Nat \ {0}
  PROVE  /\ LastOf(first, length) \in first..MaxLedger
         /\ LastOf(first, length) <= first + length - 1
         /\ LastOf(first, length) \in Nat
BY LedgerFacts DEF LastOf

(* A channel that spent nothing is paced, whenever its window starts.      *)
LEMMA PacedAtFirst ==
  ASSUME NEW h \in [Ledgers -> Nat], \A l \in Ledgers : h[l] = 0,
         NEW now \in Ledgers, NEW length \in Nat \ {0}, NEW limit \in Nat
  PROVE  Paced(h, now, length, limit, now, 0)
<1>1. ASSUME NEW i \in Nat, NEW j \in Int, j <= MaxLedger
      PROVE  Over(h, i, j) = 0
  BY <1>1, OverNothing, LedgerFacts
<1>2. Over(h, now, now) = 0
  BY <1>1, LedgerFacts
<1>3. \A first \in 0..now : Over(h, first, now - 1) = 0
  BY <1>1, LedgerFacts
<1>4. \A first \in Ledgers : Over(h, first, LastOf(first, length)) = 0
  BY <1>1, LastOfType, LedgerFacts
<1> QED
  BY <1>2, <1>3, <1>4, LedgerFacts DEF Paced

(* The next ledger begins with nothing spent in it.                        *)
LEMMA PacedLater ==
  ASSUME NEW h \in [Ledgers -> Nat], NEW now \in Ledgers, now + 1 <= MaxLedger,
         NEW length \in Nat \ {0}, NEW limit \in Nat,
         NEW start \in Nat, NEW spent \in Nat,
         Paced(h, now, length, limit, start, spent)
  PROVE  Paced(h, now + 1, length, limit, start, spent)
<1>1. now + 1 \in Ledgers /\ now \in Nat
  BY LedgerFacts
<1>2. h[now + 1] = 0 /\ start <= now
  BY <1>1 DEF Paced
<1>3. Over(h, now + 1, now + 1) = 0
  BY <1>1, <1>2, OverNothing
<1>4. Over(h, start, now + 1)
        = Over(h, start, (now + 1) - 1) + Over(h, now + 1, now + 1)
  BY <1>1, <1>2, OverCut
<1>5. (now + 1) - 1 = now
  BY <1>1
<1>6. Over(h, start, now) = spent
  BY DEF Paced
<1>7. Over(h, start, now + 1) = spent
  BY <1>3, <1>4, <1>5, <1>6
<1> QED
  BY <1>1, <1>2, <1>7 DEF Paced

(* A payment that finds the window over may start another one now: what    *)
(* was spent in the old one is what precedes the new one.                  *)
LEMMA PacedRolls ==
  ASSUME NEW h \in [Ledgers -> Nat], NEW now \in Ledgers,
         NEW length \in Nat \ {0}, NEW limit \in Nat,
         NEW start \in Nat, NEW spent \in Nat,
         Paced(h, now, length, limit, start, spent),
         now >= start + length
  PROVE  Paced(h, now, length, limit, now, 0)
<1>1. now \in Nat /\ now <= MaxLedger
  BY LedgerFacts
<1>2. h[now] = 0
  BY DEF Paced
<1>3. Over(h, now, now) = 0
  <2>1. ASSUME NEW i \in Nat, NEW j \in Int, i = now, j = now
        PROVE  Over(h, i, j) = 0
    <3>1. j <= MaxLedger /\ \A l \in i..j : h[l] = 0
      BY <1>1, <1>2, <2>1
    <3> QED
      BY <3>1, OverNothing
  <2> QED
    BY <1>1, <2>1
<1>4. ASSUME NEW first \in 0..now, first + length > now
      PROVE  Over(h, first, now - 1) <= limit
  <2>1. /\ first \in Nat /\ start <= first
        /\ now - 1 \in Int /\ now - 1 <= now
    BY <1>1, <1>4
  <2>2. Over(h, first, now - 1) <= Over(h, start, now)
    BY <1>1, <2>1, OverPart
  <2>3. Over(h, first, now - 1) \in Nat
    BY <1>1, <2>1, OverNat, LedgerFacts
  <2> QED
    BY <2>2, <2>3 DEF Paced
<1>5. \A l \in Ledgers : l > now \/ l >= now + length => h[l] = 0
  BY <1>1 DEF Paced
<1> QED
  BY <1>1, <1>3, <1>4, <1>5 DEF Paced

(* A payment within the window and the limit.                              *)
LEMMA PacedSpends ==
  ASSUME NEW h \in [Ledgers -> Nat], NEW now \in Ledgers,
         NEW length \in Nat \ {0}, NEW limit \in Nat,
         NEW start \in Nat, NEW spent \in Nat, NEW n \in Nat,
         Paced(h, now, length, limit, start, spent),
         now < start + length, spent + n <= limit,
         NEW g \in [Ledgers -> Nat], g[now] = h[now] + n,
         \A l \in Ledgers \ {now} : g[l] = h[l]
  PROVE  Paced(g, now, length, limit, start, spent + n)
<1>1. now \in Nat /\ now <= MaxLedger /\ start <= now
  BY LedgerFacts DEF Paced
<1>2. ASSUME NEW i \in Nat, NEW j \in Int, j <= MaxLedger
      PROVE  Over(g, i, j) = Over(h, i, j) + (IF now \in i..j THEN n ELSE 0)
  BY <1>2, OverSpent
<1>3. Over(g, start, now) = spent + n
  <2>1. Over(g, start, now) = Over(h, start, now) + n
    BY <1>1, <1>2
  <2> QED
    BY <2>1 DEF Paced
<1>4. \A l \in Ledgers : l > now \/ l >= start + length => g[l] = 0
  BY <1>1 DEF Paced
<1>5. ASSUME NEW first \in 0..start, first + length > start
      PROVE  Over(g, first, start - 1) <= limit
  <2>1. first \in Nat /\ start - 1 \in Int /\ start - 1 <= MaxLedger
        /\ now \notin first..(start - 1)
    BY <1>1, LedgerFacts
  <2>2. Over(g, first, start - 1) = Over(h, first, start - 1) + 0
    BY <1>2, <2>1
  <2>3. Over(h, first, start - 1) \in Nat
    BY <2>1, OverNat
  <2> QED
    BY <1>5, <2>2, <2>3 DEF Paced
<1>6. ASSUME NEW first \in Ledgers
      PROVE  Over(g, first, LastOf(first, length))
               <= IF length = 1 THEN limit ELSE 2 * limit
  <2> DEFINE last == LastOf(first, length)
  <2>1. /\ first \in Nat /\ last \in Nat /\ first <= last
        /\ last <= MaxLedger /\ last <= first + length - 1
    BY LastOfType, LedgerFacts
  <2>2. Over(h, first, last) <= IF length = 1 THEN limit ELSE 2 * limit
    BY DEF Paced
  <2> HIDE DEF last
  <2>3. Over(h, first, last) \in Nat
    BY <2>1, OverNat, LedgerFacts
  <2>7. \A l \in (now + 1)..last : g[l] = 0
    BY <1>1, <1>4, <2>1, LedgerFacts
  <2>4. CASE now \notin first..last
    <3>1. Over(g, first, last) = Over(h, first, last) + 0
      BY <1>2, <2>1, <2>4, LedgerFacts
    <3> QED
      BY <2>2, <2>3, <3>1 DEF last
  <2>5. CASE now \in first..last /\ start <= first
    <3>1. Over(g, first, last) <= Over(g, start, last)
      BY <2>1, <2>5, OverPart, LedgerFacts
    <3>2. Over(g, start, last)
            = Over(g, start, (now + 1) - 1) + Over(g, now + 1, last)
      <4>1. now + 1 \in Nat /\ start <= now + 1 /\ now + 1 <= last + 1
        BY <1>1, <2>1, <2>5
      <4> QED
        BY <2>1, <4>1, OverCut
    <3>3. Over(g, now + 1, last) = 0
      BY <1>1, <2>1, <2>7, OverNothing
    <3>4. (now + 1) - 1 = now
      BY <1>1
    <3>5. Over(g, first, last) \in Nat
      BY <2>1, OverNat
    <3>6. Over(g, first, last) <= limit
      BY <1>3, <3>1, <3>2, <3>3, <3>4, <3>5
    <3> QED
      BY <3>5, <3>6 DEF last
  <2>6. CASE now \in first..last /\ first < start
    <3>1. first \in 0..start /\ first + length > start /\ length # 1
      BY <1>1, <2>1, <2>6
    <3>2. Over(g, first, last)
            = Over(g, first, start - 1) + Over(g, start, last)
      BY <1>1, <2>1, <2>6, OverCut
    <3>3. Over(g, start, last)
            = Over(g, start, (now + 1) - 1) + Over(g, now + 1, last)
      BY <1>1, <2>1, <2>6, OverCut
    <3>4. Over(g, now + 1, last) = 0
      BY <1>1, <2>1, <2>7, OverNothing
    <3>5. (now + 1) - 1 = now
      BY <1>1
    <3>6. Over(g, first, start - 1) <= limit
      BY <1>5, <3>1
    <3>7. Over(g, first, start - 1) \in Nat
      BY <1>1, <2>1, OverNat, LedgerFacts
    <3>8. Over(g, first, last) <= 2 * limit
      BY <1>3, <3>2, <3>3, <3>4, <3>5, <3>6, <3>7
    <3> QED
      BY <3>1, <3>8 DEF last
  <2> QED
    BY <1>1, <2>1, <2>4, <2>5, <2>6 DEF last
<1> QED
  BY <1>1, <1>3, <1>4, <1>5, <1>6 DEF Paced

-----------------------------------------------------------------------------
(* Every channel is paced.                                                 *)

PacedChannel(c) ==
  Paced(spentAt[c], ledger, PeriodLedgers[channels[c].period],
        channels[c].limit_per_period, channels[c].period_start_ledger,
        channels[c].spent_this_period)

NothingSpent(c) == \A l \in Ledgers : spentAt[c][l] = 0

RateInv ==
  /\ Inv
  /\ ledger <= MaxLedger
  /\ spentAt \in [Ids -> [Ledgers -> Nat]]
  /\ \A c \in Ids :
       IF IsOpenedId(c) THEN PacedChannel(c) ELSE NothingSpent(c)

\* The step leaves a channel's limit, period and window alone.
SameTerms(c) ==
  /\ channels'[c].period = channels[c].period
  /\ channels'[c].limit_per_period = channels[c].limit_per_period
  /\ channels'[c].period_start_ledger = channels[c].period_start_ledger
  /\ channels'[c].spent_this_period = channels[c].spent_this_period

AllSameTerms ==
  Len(channels') = Len(channels) /\ \A c \in 1..Len(channels) : SameTerms(c)

(* The terms of an opened channel, typed.                                  *)
LEMMA Terms ==
  ASSUME Inv, NEW c, IsOpenedId(c)
  PROVE  /\ PeriodLedgers[channels[c].period] \in Nat \ {0}
         /\ channels[c].limit_per_period \in Nat
         /\ channels[c].period_start_ledger \in Nat
         /\ channels[c].spent_this_period \in Nat
         /\ channels[c].total_spent \in Nat
         /\ channels[c].period \in Periods
<1>1. channels[c] \in Channel
  BY OpenedChannel
<1> QED
  BY <1>1, ChannelAssumption DEF Channel

(* An action that rewrites one channel's money or vouchers.                *)
LEMMA OneChannelSameTerms ==
  ASSUME Inv, NEW c, IsOpenedId(c), NEW new,
         channels' = [channels EXCEPT ![c] = new],
         new.period = channels[c].period,
         new.limit_per_period = channels[c].limit_per_period,
         new.period_start_ledger = channels[c].period_start_ledger,
         new.spent_this_period = channels[c].spent_this_period
  PROVE  AllSameTerms
<1>1. c \in 1..Len(channels) /\ channels \in Seq(Channel)
  BY OpenedChannel DEF Inv, TypeOK
<1>2. /\ Len(channels') = Len(channels)
      /\ channels'[c] = new
      /\ \A d \in 1..Len(channels) : d # c => channels'[d] = channels[d]
  BY <1>1
<1> QED
  BY <1>2 DEF AllSameTerms, SameTerms

(* Refunds, top-ups, voucher setup and settlements leave the terms alone.  *)
LEMMA OthersSameTerms ==
  ASSUME Inv,
         \/ \E owner \in Owners, c \in Ids, amount \in Amounts :
              TopUp(owner, c, amount)
         \/ Reclaim \/ VoucherSetup \/ Settle
  PROVE  AllSameTerms /\ ledger' = ledger
<1>1. ASSUME NEW owner \in Owners, NEW c \in Ids, NEW amount \in Amounts,
             TopUp(owner, c, amount)
      PROVE  AllSameTerms
  <2> DEFINE new == [channels[c] EXCEPT !.collateral = @ + amount]
  <2>1. IsOpenedId(c) /\ channels' = [channels EXCEPT ![c] = new]
    BY <1>1 DEF TopUp, Credited
  <2>2. channels[c] \in Channel
    BY <2>1, OpenedChannel
  <2> QED
    BY <2>1, <2>2, OneChannelSameTerms DEF Channel
<1>2. ASSUME NEW owner \in Owners, NEW c \in Ids, CloseChannel(owner, c)
      PROVE  AllSameTerms
  <2> DEFINE new == [channels[c] EXCEPT !.collateral = @ - ClosingRefund(c),
                                        !.active = FALSE]
  <2>1. IsOpenedId(c) /\ channels' = [channels EXCEPT ![c] = new]
    BY <1>2 DEF CloseChannel
  <2>2. channels[c] \in Channel
    BY <2>1, OpenedChannel
  <2> QED
    BY <2>1, <2>2, OneChannelSameTerms DEF Channel
<1>3. ASSUME NEW owner \in Owners, NEW c \in Ids, WithdrawFree(owner, c)
      PROVE  AllSameTerms
  <2> DEFINE new == [channels[c] EXCEPT !.collateral = @ - Free(c)]
  <2>1. IsOpenedId(c) /\ channels' = [channels EXCEPT ![c] = new]
    BY <1>3 DEF WithdrawFree
  <2>2. channels[c] \in Channel
    BY <2>1, OpenedChannel
  <2> QED
    BY <2>1, <2>2, OneChannelSameTerms DEF Channel
<1>4. ASSUME NEW owner \in Owners, NEW c \in Ids, NEW key \in Keys,
             NEW window \in Windows, EnableVouchers(owner, c, key, window)
      PROVE  AllSameTerms
  <2> DEFINE new == [channels[c] EXCEPT !.voucher_signer = key,
                                        !.dispute_ledgers = window]
  <2>1. IsOpenedId(c) /\ channels' = [channels EXCEPT ![c] = new]
    BY <1>4 DEF EnableVouchers
  <2>2. channels[c] \in Channel
    BY <2>1, OpenedChannel
  <2> QED
    BY <2>1, <2>2, OneChannelSameTerms DEF Channel
<1>5. ASSUME NEW owner \in Owners, NEW c \in Ids, NEW r \in Recipients,
             NEW amount \in Amounts, Allocate(owner, c, r, amount)
      PROVE  AllSameTerms
  <2> DEFINE new == [channels[c] EXCEPT !.allocated = @ + amount]
  <2>1. IsOpenedId(c) /\ channels' = [channels EXCEPT ![c] = new]
    BY <1>5 DEF Allocate
  <2>2. channels[c] \in Channel
    BY <2>1, OpenedChannel
  <2> QED
    BY <2>1, <2>2, OneChannelSameTerms DEF Channel
<1>6. ASSUME NEW c \in Ids, NEW r \in Recipients, NEW cum, NEW penalty,
             IsOpenedId(c), PayOut(c, r, cum, penalty)
      PROVE  AllSameTerms
  <2> DEFINE due == Due(c, r, cum, penalty)
             new == [channels[c] EXCEPT
                       !.allocated = @ - allocations[c][r].amount,
                       !.collateral = @ - due,
                       !.total_spent = @ + due]
  <2>1. channels' = [channels EXCEPT ![c] = new]
    BY <1>6 DEF PayOut
  <2>2. channels[c] \in Channel
    BY <1>6, OpenedChannel
  <2> QED
    BY <1>6, <2>1, <2>2, OneChannelSameTerms DEF Channel
<1>7. ASSUME channels' = channels
      PROVE  AllSameTerms
  BY <1>7 DEF AllSameTerms, SameTerms
<1>8. CASE Settle
  BY <1>6, <1>7, <1>8
     DEF Settle, CloseCooperative, CloseUnilateral, Challenge, Finalize
<1>9. AllSameTerms
  BY <1>1, <1>2, <1>3, <1>4, <1>5, <1>8 DEF Reclaim, VoucherSetup
<1>10. CASE Settle
  BY <1>9, <1>10
     DEF Settle, CloseCooperative, CloseUnilateral, Challenge, Finalize
<1>11. CASE Reclaim \/ VoucherSetup
  BY <1>9, <1>11
     DEF Reclaim, VoucherSetup, CloseChannel, WithdrawFree, EnableVouchers,
         Allocate
<1> QED
  BY <1>9, <1>10, <1>11 DEF TopUp

(* Terms that stay, in the same ledger: the channels stay paced.           *)
LEMMA SameTermsArePaced ==
  ASSUME RateInv, Inv', AllSameTerms, ledger' = ledger, spentAt' = spentAt
  PROVE  RateInv'
<1>1. \A c \in Ids : IsOpenedId(c)' <=> IsOpenedId(c)
  BY DEF AllSameTerms, IsOpenedId
<1>2. ASSUME NEW c \in Ids, IsOpenedId(c)
      PROVE  PacedChannel(c)'
  <2>1. SameTerms(c) /\ PacedChannel(c)
    BY <1>2 DEF AllSameTerms, IsOpenedId, RateInv
  <2> QED
    BY <2>1 DEF PacedChannel, SameTerms
<1> QED
  BY <1>1, <1>2 DEF RateInv, NothingSpent

(* A new channel has spent nothing.                                        *)
LEMMA OpenIsPaced ==
  ASSUME RateInv,
         NEW owner \in Owners, NEW agent \in Agents, NEW token \in Tokens,
         NEW deposit \in Amounts, NEW limit \in Amounts,
         NEW period \in Periods,
         OpenChannel(owner, agent, token, deposit, limit, period),
         spentAt' = spentAt
  PROVE  RateInv'
<1> DEFINE n == Len(channels)
           new == [agent |-> agent, owner |-> owner, token |-> token,
                   limit_per_period |-> limit, period |-> period,
                   spent_this_period |-> 0, period_start_ledger |-> ledger,
                   total_spent |-> 0, active |-> TRUE,
                   collateral |-> deposit, allocated |-> 0,
                   voucher_signer |-> NoKey,
                   dispute_ledgers |-> DefaultDispute]
<1>1. Inv /\ Inv'
  BY OpenChannelInv DEF RateInv
<1>2. limit \in Nat /\ n \in Nat /\ n + 1 \in Ids /\ ledger' = ledger
  BY <1>1, LenProperties, ChannelAssumption
     DEF OpenChannel, Inv, TypeOK, Ids
<1>3. channels' = Append(channels, new) /\ channels \in Seq(Channel)
  BY <1>1 DEF OpenChannel, Inv, TypeOK
<1>4. /\ Len(channels') = n + 1
      /\ channels'[n + 1] = new
      /\ \A c \in 1..n : channels'[c] = channels[c]
  <2> HIDE DEF new
  <2> QED
    BY <1>3
<1>5. ledger \in Ledgers
  BY <1>1, LedgerFacts DEF RateInv, Inv, TypeOK
<1>6. ASSUME NEW c \in 1..n
      PROVE  c \in Ids => PacedChannel(c)'
  BY <1>2, <1>4 DEF PacedChannel, RateInv, IsOpenedId
<1>7. ASSUME NEW c \in Ids, c = n + 1
      PROVE  PacedChannel(c)'
  <2>1. /\ spentAt[n + 1] \in [Ledgers -> Nat]
        /\ \A l \in Ledgers : spentAt[n + 1][l] = 0
    BY <1>2 DEF RateInv, IsOpenedId, NothingSpent
  <2>2. PeriodLedgers[period] \in Nat \ {0}
    BY ChannelAssumption
  <2>3. Paced(spentAt[n + 1], ledger, PeriodLedgers[period], limit, ledger, 0)
    BY <1>2, <1>5, <2>1, <2>2, PacedAtFirst
  <2>4. /\ channels'[c].period = period
        /\ channels'[c].limit_per_period = limit
        /\ channels'[c].period_start_ledger = ledger
        /\ channels'[c].spent_this_period = 0
    BY <1>4, <1>7
  <2> QED
    BY <1>2, <1>7, <2>3, <2>4 DEF PacedChannel
<1>8. ASSUME NEW c \in Ids
      PROVE  (IF IsOpenedId(c) THEN PacedChannel(c) ELSE NothingSpent(c))'
  <2>1. IsOpenedId(c)' <=> c \in 1..n \/ c = n + 1
    BY <1>2, <1>4 DEF IsOpenedId, Ids
  <2>2. c \notin 1..n => NothingSpent(c)'
    BY DEF RateInv, NothingSpent, IsOpenedId
  <2> QED
    BY <1>6, <1>7, <2>1, <2>2
<1> QED
  BY <1>1, <1>2, <1>8 DEF RateInv

(* Time passes.                                                            *)
LEMMA CloseLedgerIsPaced ==
  ASSUME RateInv, Inv', CloseLedger, spentAt' = spentAt
  PROVE  RateInv'
<1>1. /\ ledger' = ledger + 1 /\ channels' = channels
      /\ ledger + 1 <= MaxLedger /\ ledger \in Ledgers /\ ledger + 1 \in Nat
  <2>1. ledger \in Nat /\ ledger <= MaxLedger
    BY DEF RateInv, Inv, TypeOK
  <2> QED
    BY <2>1, LedgerFacts DEF CloseLedger
<1>2. ASSUME NEW c \in Ids, IsOpenedId(c)
      PROVE  PacedChannel(c)'
  <2>1. spentAt[c] \in [Ledgers -> Nat] /\ PacedChannel(c)
    BY <1>2 DEF RateInv
  <2>2. Paced(spentAt[c], ledger + 1, PeriodLedgers[channels[c].period],
              channels[c].limit_per_period, channels[c].period_start_ledger,
              channels[c].spent_this_period)
    <3>1. /\ PeriodLedgers[channels[c].period] \in Nat \ {0}
          /\ channels[c].limit_per_period \in Nat
          /\ channels[c].period_start_ledger \in Nat
          /\ channels[c].spent_this_period \in Nat
      BY <1>2, Terms DEF RateInv
    <3> QED
      BY <1>1, <2>1, <3>1, PacedLater DEF PacedChannel
  <2> QED
    BY <1>1, <2>2 DEF PacedChannel
<1> QED
  BY <1>1, <1>2 DEF RateInv, NothingSpent, IsOpenedId

(* A payment rolls the window if it is over, and stays within the limit.   *)
LEMMA PaymentIsPaced ==
  ASSUME RateInv, NEW agent \in Agents, NEW c \in Ids,
         NEW amount \in Amounts, MaySpend(agent, c, amount), Spend(c, amount),
         RecordedPayment
  PROVE  RateInv'
<1> DEFINE ch == channels[c]
           rolled == Rolled(ch)
           new == [rolled EXCEPT !.spent_this_period = @ + amount,
                                 !.total_spent = @ + amount,
                                 !.collateral = @ - amount]
           h == spentAt[c]
           length == PeriodLedgers[ch.period]
<1>1. Inv /\ Inv'
  BY PaymentInv DEF RateInv
<1>2. /\ IsOpenedId(c) /\ ch \in Channel /\ amount \in Nat \ {0}
      /\ ledger \in Ledgers /\ ledger' = ledger
      /\ h \in [Ledgers -> Nat]
  <2>1. IsOpenedId(c) /\ amount > 0
    BY DEF MaySpend
  <2>2. ch \in Channel
    BY <1>1, <2>1, OpenedChannel
  <2>3. amount \in Nat \ {0}
    BY <2>1, ChannelAssumption
  <2>4. ledger \in Ledgers /\ h \in [Ledgers -> Nat]
    BY <1>1, LedgerFacts DEF RateInv, Inv, TypeOK
  <2>5. ledger' = ledger
    BY DEF Spend
  <2> QED
    BY <2>1, <2>2, <2>3, <2>4, <2>5
<1>3. /\ length \in Nat \ {0}
      /\ ch.limit_per_period \in Nat
      /\ ch.period_start_ledger \in Nat
      /\ ch.spent_this_period \in Nat
      /\ ch.total_spent \in Nat
  BY <1>1, <1>2, Terms
<1>4. /\ rolled \in Channel
      /\ rolled.period = ch.period
      /\ rolled.limit_per_period = ch.limit_per_period
      /\ rolled.total_spent = ch.total_spent
      /\ rolled.period_start_ledger \in Nat
      /\ rolled.spent_this_period \in Nat
  BY <1>2, LedgerFacts DEF Rolled, Channel
<1>5. /\ Paced(h, ledger, length, ch.limit_per_period,
               rolled.period_start_ledger, rolled.spent_this_period)
      /\ ledger < rolled.period_start_ledger + length
  <2>1. Paced(h, ledger, length, ch.limit_per_period,
              ch.period_start_ledger, ch.spent_this_period)
    BY <1>2 DEF RateInv, PacedChannel
  <2>2. CASE ledger >= ch.period_start_ledger + length
    <3>1. rolled.spent_this_period = 0 /\ rolled.period_start_ledger = ledger
      BY <1>2, <2>2 DEF Rolled, Channel
    <3>2. Paced(h, ledger, length, ch.limit_per_period, ledger, 0)
      <4> HIDE DEF h, length, ch
      <4> QED
        BY <1>2, <1>3, <2>1, <2>2, PacedRolls
    <3>3. ledger < ledger + length
      BY <1>2, <1>3, LedgerFacts
    <3> QED
      BY <3>1, <3>2, <3>3
  <2>3. CASE ~(ledger >= ch.period_start_ledger + length)
    <3>1. rolled = ch
      BY <2>3 DEF Rolled
    <3>2. ledger < ch.period_start_ledger + length
      BY <1>2, <1>3, <2>3, LedgerFacts
    <3> HIDE DEF rolled, ch, h, length
    <3> QED
      BY <2>1, <3>1, <3>2
  <2> QED
    BY <2>2, <2>3
<1>6. rolled.spent_this_period + amount <= ch.limit_per_period
  BY DEF MaySpend
<1>7. /\ new.period = ch.period
      /\ new.limit_per_period = ch.limit_per_period
      /\ new.period_start_ledger = rolled.period_start_ledger
      /\ new.spent_this_period = rolled.spent_this_period + amount
      /\ new.total_spent = ch.total_spent + amount
  <2> HIDE DEF rolled, ch
  <2> QED
    BY <1>4 DEF Channel
<1>8. /\ Len(channels') = Len(channels)
      /\ channels'[c] = new
      /\ \A d \in 1..Len(channels) : d # c => channels'[d] = channels[d]
  <2>1. channels' = [channels EXCEPT ![c] = new]
    BY DEF Spend
  <2>2. channels \in Seq(Channel) /\ c \in 1..Len(channels)
    BY <1>1, <1>2 DEF Inv, TypeOK, IsOpenedId
  <2> HIDE DEF new
  <2> QED
    BY <2>1, <2>2
<1> DEFINE g == [h EXCEPT ![ledger] = @ + amount]
<1>9. /\ spentAt'[c] = g
      /\ \A d \in Ids \ {c} : spentAt'[d] = spentAt[d]
  <2>1. \A d \in Ids : spentAt'[d] =
          IF IsOpenedId(d)
          THEN [spentAt[d] EXCEPT ![ledger] =
                  @ + channels'[d].total_spent - channels[d].total_spent]
          ELSE spentAt[d]
    BY DEF RecordedPayment
  <2>2. ASSUME NEW d \in Ids \ {c}
        PROVE  spentAt'[d] = spentAt[d]
    <3>1. CASE ~IsOpenedId(d)
      BY <2>1, <3>1
    <3>2. CASE IsOpenedId(d)
      <4>1. /\ channels'[d].total_spent = channels[d].total_spent
            /\ channels[d].total_spent \in Nat
        BY <1>1, <1>8, <3>2, Terms DEF IsOpenedId
      <4>2. spentAt[d] \in [Ledgers -> Nat] /\ spentAt[d][ledger] \in Nat
        BY <1>2 DEF RateInv
      <4>3. spentAt[d][ledger] + channels'[d].total_spent
              - channels[d].total_spent = spentAt[d][ledger]
        BY <4>1, <4>2
      <4>4. spentAt'[d] = [spentAt[d] EXCEPT ![ledger] = spentAt[d][ledger]]
        BY <2>1, <3>2, <4>3
      <4> QED
        BY <4>2, <4>4
    <3> QED
      BY <3>1, <3>2
  <2>3. spentAt'[c] = g
    <3>1. spentAt'[c] = [h EXCEPT ![ledger] =
            h[ledger] + channels'[c].total_spent - channels[c].total_spent]
      BY <1>2, <2>1
    <3>2. channels'[c].total_spent = ch.total_spent + amount
      BY <1>7, <1>8
    <3>3. h[ledger] \in Nat
      BY <1>2
    <3>4. h[ledger] + channels'[c].total_spent - channels[c].total_spent
            = h[ledger] + amount
      BY <1>2, <1>3, <3>2, <3>3
    <3> QED
      BY <3>1, <3>4
  <2> QED
    BY <2>2, <2>3
<1>10. /\ g \in [Ledgers -> Nat]
       /\ g[ledger] = h[ledger] + amount
       /\ \A l \in Ledgers \ {ledger} : g[l] = h[l]
  <2> HIDE DEF h
  <2> QED
    BY <1>2
<1>11. spentAt' \in [Ids -> [Ledgers -> Nat]]
  <2>1. \A d \in Ids : spentAt'[d] \in [Ledgers -> Nat]
    BY <1>9, <1>10 DEF RateInv
  <2>2. spentAt' = [d \in Ids |-> spentAt'[d]]
    BY DEF RecordedPayment
  <2> QED
    BY <2>1, <2>2
<1>12. PacedChannel(c)'
  <2>1. Paced(g, ledger, length, ch.limit_per_period,
              rolled.period_start_ledger, rolled.spent_this_period + amount)
    <3> HIDE DEF g, h, length, ch, rolled
    <3> QED
      BY <1>2, <1>3, <1>4, <1>5, <1>6, <1>10, PacedSpends
  <2> HIDE DEF g, new, rolled
  <2> QED
    BY <1>2, <1>7, <1>8, <1>9, <2>1 DEF PacedChannel
<1>13. ASSUME NEW d \in Ids
       PROVE  (IF IsOpenedId(d) THEN PacedChannel(d) ELSE NothingSpent(d))'
  <2> HIDE DEF g, new
  <2>1. IsOpenedId(d)' <=> IsOpenedId(d)
    BY <1>8 DEF IsOpenedId
  <2>2. d # c /\ IsOpenedId(d) => PacedChannel(d)'
    BY <1>2, <1>8, <1>9 DEF RateInv, PacedChannel, IsOpenedId
  <2>3. d # c /\ ~IsOpenedId(d) => NothingSpent(d)'
    BY <1>9 DEF RateInv, NothingSpent
  <2> QED
    BY <1>2, <1>12, <2>1, <2>2, <2>3
<1> QED
  BY <1>1, <1>2, <1>11, <1>13 DEF RateInv

(* No channel, no spending.                                                *)
LEMMA RateInitInv == RateInit => RateInv
<1> SUFFICES ASSUME RateInit PROVE RateInv
  OBVIOUS
<1>1. Inv /\ ledger <= MaxLedger
  BY InitInv, LedgerFacts DEF RateInit, Init
<1>2. /\ spentAt \in [Ids -> [Ledgers -> Nat]]
      /\ \A c \in Ids : NothingSpent(c)
  BY DEF RateInit, NothingSpent, Ledgers
<1>3. \A c \in Ids : ~IsOpenedId(c)
  BY DEF RateInit, Init, IsOpenedId
<1> QED
  BY <1>1, <1>2, <1>3 DEF RateInv

(* Every step keeps the channels paced.                                    *)
LEMMA RateNextInv == RateInv /\ [RateNext]_rateVars => RateInv'
<1> SUFFICES ASSUME RateInv, [RateNext]_rateVars PROVE RateInv'
  OBVIOUS
<1>1. Inv'
  <2>1. [Next]_vars
    BY DEF RateNext, RecordedPayment, Next, rateVars
  <2> QED
    BY <2>1, NextInv DEF RateInv
<1>2. CASE RecordedPayment
  <2>1. PICK agent \in Agents, c \in Ids, amount \in Amounts :
          MaySpend(agent, c, amount) /\ Spend(c, amount)
    BY <1>2 DEF RecordedPayment, AgentPays, Pay, PayWithConversion,
                PayWithRoute
  <2> QED
    BY <1>2, <2>1, PaymentIsPaced
<1>3. CASE Fund /\ UNCHANGED spentAt
  <2>1. ASSUME NEW owner \in Owners, NEW c \in Ids, NEW amount \in Amounts,
               TopUp(owner, c, amount)
        PROVE  RateInv'
    BY <1>1, <1>3, <2>1, OthersSameTerms, SameTermsArePaced DEF RateInv
  <2> QED
    BY <1>3, <2>1, OpenIsPaced DEF Fund
<1>4. CASE (Reclaim \/ VoucherSetup \/ Settle) /\ UNCHANGED spentAt
  BY <1>1, <1>4, OthersSameTerms, SameTermsArePaced DEF RateInv
<1>5. CASE CloseLedger /\ UNCHANGED spentAt
  BY <1>1, <1>5, CloseLedgerIsPaced
<1>6. CASE (SetPaused \/ UNCHANGED vars) /\ UNCHANGED spentAt
  <2>1. AllSameTerms /\ ledger' = ledger
    BY <1>6 DEF SetPaused, vars, AllSameTerms, SameTerms
  <2> QED
    BY <1>1, <1>6, <2>1, SameTermsArePaced
<1> QED
  BY <1>2, <1>3, <1>4, <1>5, <1>6 DEF RateNext, rateVars

(* The window and the rate, as the runs check them, from the invariant.    *)
LEMMA RateInvBounds == RateInv => WindowIsExact /\ RateBound
<1> SUFFICES ASSUME RateInv PROVE WindowIsExact /\ RateBound
  OBVIOUS
<1>1. \A c \in 1..Len(channels) : c \in Ids /\ PacedChannel(c)
  BY OpenedChannel DEF RateInv, IsOpenedId
<1>2. WindowIsExact
  BY <1>1 DEF WindowIsExact, PacedChannel, Paced, SpentBetween, Over
<1>3. RateBound
  BY <1>1
     DEF RateBound, PacedChannel, Paced, SpentBetween, Over, LastOf, Ledgers
<1> QED
  BY <1>2, <1>3

(* The invariant of the spend window holds throughout.                     *)
THEOREM RateInvHolds == RateSpec => []RateInv
BY RateInitInv, RateNextInv, PTL DEF RateSpec

(* With any limit and period, however the agent spreads its payments over  *)
(* the boundaries of the lazily rolled window: the window counts all that  *)
(* was spent in it, and no stretch of ledgers as long as the period sees   *)
(* more than twice the limit.                                              *)
THEOREM SpendingRateIsBounded == RateSpec => []SpendingIsBounded
<1>1. RateInv => SpendingIsBounded
  BY RateInvBounds DEF SpendingIsBounded
<1> QED
  BY <1>1, RateInvHolds, PTL

-----------------------------------------------------------------------------
(* The dispute window.                                                     *)

\* The step leaves the length of every channel's dispute window alone.
SameWindows ==
  /\ Len(channels') = Len(channels)
  /\ \A c \in 1..Len(channels) :
       channels'[c].dispute_ledgers = channels[c].dispute_ledgers

LongEnough ==
  \A c \in 1..Len(channels) :
    channels[c].dispute_ledgers \in Nat
      /\ channels[c].dispute_ledgers >= MinDispute

\* When its window is over, a close has the best voucher of its recipient.
Answered ==
  \A c \in Ids, r \in Recipients :
    InFlight(c, r) /\ WindowIsOver(c, r) =>
      settlements[c][r].best_cumulative >= holds[c][r]

DisputeTypeOK ==
  /\ holds \in [Ids -> [Recipients -> Nat]]
  /\ \A c \in Ids, r \in Recipients : holds[c][r] \in Amounts \cup {0}
  /\ claimed \in [Ids -> [Recipients -> Nat]]
  /\ forfeited \in [Ids -> [Recipients -> Nat]]
  /\ paid \in [Ids -> [Recipients -> Nat]]

\* What was settled with a recipient is what it was paid.
PaidIsSettled ==
  \A c \in Ids, r \in Recipients : paid[c][r] = allocations[c][r].settled

DisputeInv ==
  /\ Inv
  /\ DisputeTypeOK
  /\ PaidIsSettled
  /\ PaidIsOwed
  /\ LongEnough
  /\ SteadyOwner => Answered

(* A step of the dispute is a step of the channel, or leaves it alone.     *)
LEMMA DisputeStepIsNext ==
  ASSUME DisputeInv, [DisputeNext]_disputeVars
  PROVE  [Next]_vars
<1>1. ASSUME NEW c \in Ids, NEW r \in Recipients,
             VoucherIsValid(c, r, holds[c][r])
      PROVE  holds[c][r] \in Amounts
  BY <1>1 DEF DisputeInv, DisputeTypeOK, VoucherIsValid
<1>2. ASSUME NEW c \in Ids, NEW r \in Recipients,
             Answer(c, r) \/ AgreeToClose(c, r)
      PROVE  Settle
  BY <1>1, <1>2 DEF Answer, AgreeToClose, Challenge, CloseCooperative, Settle
<1>3. ASSUME NEW c \in Ids, NEW r \in Recipients,
             \/ Conclude(c, r)
             \/ \E cum \in Amounts, closer \in Callers :
                  OpenClose(closer, c, r, cum)
      PROVE  Settle
  BY <1>3 DEF Conclude, OpenClose, Settle
<1>4. ASSUME NEW c \in Ids, NEW r \in Recipients, NEW cum \in Amounts,
             SignVoucher(c, r, cum)
      PROVE  UNCHANGED vars
  BY <1>4 DEF SignVoucher
<1>5. ASSUME NEW owner \in Owners, NEW c \in Ids, NEW key \in Keys,
             NEW window \in Windows, SetUpVouchers(owner, c, key, window)
      PROVE  VoucherSetup
  BY <1>5 DEF SetUpVouchers, VoucherSetup
<1>6. ASSUME NEW owner \in Owners, NEW c \in Ids, NEW r \in Recipients,
             NEW amount \in Amounts, Allocate(owner, c, r, amount)
      PROVE  VoucherSetup
  BY <1>6 DEF VoucherSetup
<1>7. CASE DisputeNext
  BY <1>2, <1>3, <1>4, <1>5, <1>6, <1>7 DEF DisputeNext, NextLedger, Next
<1> QED
  BY <1>7 DEF disputeVars, vars

(* An action that rewrites one channel.                                    *)
LEMMA OneChannelRewritten ==
  ASSUME Inv, NEW c, IsOpenedId(c), NEW new,
         channels' = [channels EXCEPT ![c] = new]
  PROVE  /\ Len(channels') = Len(channels)
         /\ channels'[c] = new
         /\ \A d \in 1..Len(channels) : d # c => channels'[d] = channels[d]
BY OpenedChannel DEF Inv, TypeOK

(* It may keep the length of the dispute window.                           *)
LEMMA OneChannelSameWindows ==
  ASSUME Inv, NEW c, IsOpenedId(c), NEW new,
         channels' = [channels EXCEPT ![c] = new],
         new.dispute_ledgers = channels[c].dispute_ledgers
  PROVE  SameWindows
BY OneChannelRewritten DEF SameWindows

(* What a payout pays and settles.                                         *)
LEMMA PayOutEffect ==
  ASSUME Inv, NEW c \in Ids, NEW r \in Recipients, IsOpenedId(c),
         NEW cum \in Nat, NEW penalty \in Nat, PayOut(c, r, cum, penalty)
  PROVE  /\ channels'[c].total_spent - channels[c].total_spent
              = cum - allocations[c][r].settled + penalty
         /\ allocations'[c][r].settled = cum + penalty
         /\ \A d \in Ids, q \in Recipients :
              <<d, q>> # <<c, r>> => allocations'[d][q] = allocations[d][q]
         /\ SameWindows
<1> DEFINE due == Due(c, r, cum, penalty)
           ch == channels[c]
           new == [ch EXCEPT
                     !.allocated = @ - allocations[c][r].amount,
                     !.collateral = @ - due,
                     !.total_spent = @ + due]
<1>1. ch \in Channel /\ ch.total_spent \in Nat
  BY OpenedChannel DEF Channel
<1>2. channels' = [channels EXCEPT ![c] = new]
  BY DEF PayOut
<1>3. /\ new.total_spent = ch.total_spent + due
      /\ new.dispute_ledgers = ch.dispute_ledgers
  <2> HIDE DEF ch, due
  <2> QED
    BY <1>1 DEF Channel
<1>4. due = cum - allocations[c][r].settled + penalty /\ due \in Int
  BY ReservedType DEF Due
<1> HIDE DEF new, due
<1>5. channels'[c].total_spent = channels[c].total_spent + due /\ SameWindows
  BY <1>2, <1>3, OneChannelRewritten, OneChannelSameWindows
<1>6. allocations' = [allocations EXCEPT ![c][r] =
                        [amount |-> 0, settled |-> cum + penalty]]
  BY DEF PayOut
<1>7. /\ allocations'[c][r].settled = cum + penalty
      /\ \A d \in Ids, q \in Recipients :
           <<d, q>> # <<c, r>> => allocations'[d][q] = allocations[d][q]
  BY <1>6 DEF Inv, TypeOK
<1> QED
  BY <1>1, <1>4, <1>5, <1>7

(* A step that neither settles nor rewrites a window keeps the invariant,  *)
(* if it does not end a window that was not answered.                      *)
LEMMA QuietIsOwed ==
  ASSUME DisputeInv, Inv', LongEnough',
         allocations' = allocations \/ \A c \in Ids, r \in Recipients :
           allocations'[c][r].settled = allocations[c][r].settled,
         DisputeTypeOK', UNCHANGED <<claimed, forfeited, paid>>,
         SteadyOwner => Answered'
  PROVE  DisputeInv'
BY DEF DisputeInv, PaidIsSettled, PaidIsOwed

(* Windows that stay the same stay long enough.                            *)
LEMMA SameWindowsStay ==
  ASSUME DisputeInv, SameWindows
  PROVE  LongEnough'
BY DEF DisputeInv, LongEnough, SameWindows

(* Only an opened channel has a close: the close has a reservation.        *)
LEMMA InFlightIsOpened ==
  ASSUME Inv, NEW c \in Ids, NEW r \in Recipients, InFlight(c, r)
  PROVE  IsOpenedId(c)
<1>1. /\ allocations[c][r].settled < settlements[c][r].opened_cumulative
      /\ settlements[c][r].opened_cumulative \in Nat
      /\ settlements[c][r].best_cumulative \in Nat
      /\ settlements[c][r].opened_cumulative
           <= settlements[c][r].best_cumulative
      /\ settlements[c][r].best_cumulative <= allocations[c][r].amount
  BY InFlightFacts DEF Inv, SettlementBounded
<1>2. allocations[c][r].settled \in Nat /\ allocations[c][r].amount \in Nat
  BY ReservedType
<1>3. allocations[c][r].amount # 0
  BY <1>1, <1>2
<1> QED
  BY <1>3 DEF Inv, UnopenedIsEmpty

(* In the same ledger, with the same closes, vouchers and windows.         *)
LEMMA QuietIsAnswered ==
  ASSUME DisputeInv, SameWindows, UNCHANGED <<ledger, settlements, holds>>
  PROVE  SteadyOwner => Answered'
<1>1. ASSUME NEW c \in Ids, NEW r \in Recipients,
             InFlight(c, r)', WindowIsOver(c, r)', SteadyOwner
      PROVE  (settlements[c][r].best_cumulative >= holds[c][r])'
  <2>1. InFlight(c, r)
    BY <1>1 DEF InFlight
  <2>2. IsOpenedId(c)
    BY <1>1, <2>1, InFlightIsOpened DEF DisputeInv
  <2>3. channels'[c].dispute_ledgers = channels[c].dispute_ledgers
    BY <2>2 DEF SameWindows, IsOpenedId
  <2>4. WindowIsOver(c, r)
    BY <1>1, <2>3 DEF WindowIsOver, Deadline
  <2> QED
    BY <1>1, <2>1, <2>4 DEF DisputeInv, Answered
<1> QED
  BY <1>1 DEF Answered

(* Funding, refunds, payments and the breaker.                             *)
LEMMA OthersAreOwed ==
  ASSUME DisputeInv, Inv', Fund \/ Reclaim \/ AgentPays \/ SetPaused,
         UNCHANGED <<holds, claimed, forfeited, paid>>
  PROVE  DisputeInv'
<1>1. UNCHANGED <<settlements, allocations, ledger>>
  BY ClosesUntouched
<1>2. DisputeTypeOK'
  BY DEF DisputeInv, DisputeTypeOK
<1>3. ASSUME SameWindows
      PROVE  DisputeInv'
  BY <1>1, <1>2, <1>3, SameWindowsStay, QuietIsAnswered, QuietIsOwed
<1>4. ASSUME NEW owner \in Owners, NEW c \in Ids, NEW amount \in Amounts,
             TopUp(owner, c, amount)
      PROVE  SameWindows
  <2> DEFINE new == [channels[c] EXCEPT !.collateral = @ + amount]
  <2>1. IsOpenedId(c) /\ channels' = [channels EXCEPT ![c] = new]
    BY <1>4 DEF TopUp, Credited
  <2>2. channels[c] \in Channel
    BY <2>1, OpenedChannel DEF DisputeInv
  <2> QED
    BY <2>1, <2>2, OneChannelSameWindows DEF DisputeInv, Channel
<1>5. ASSUME NEW owner \in Owners, NEW c \in Ids, CloseChannel(owner, c)
      PROVE  SameWindows
  <2> DEFINE new == [channels[c] EXCEPT !.collateral = @ - ClosingRefund(c),
                                        !.active = FALSE]
  <2>1. IsOpenedId(c) /\ channels' = [channels EXCEPT ![c] = new]
    BY <1>5 DEF CloseChannel
  <2>2. channels[c] \in Channel
    BY <2>1, OpenedChannel DEF DisputeInv
  <2> QED
    BY <2>1, <2>2, OneChannelSameWindows DEF DisputeInv, Channel
<1>6. ASSUME NEW owner \in Owners, NEW c \in Ids, WithdrawFree(owner, c)
      PROVE  SameWindows
  <2> DEFINE new == [channels[c] EXCEPT !.collateral = @ - Free(c)]
  <2>1. IsOpenedId(c) /\ channels' = [channels EXCEPT ![c] = new]
    BY <1>6 DEF WithdrawFree
  <2>2. channels[c] \in Channel
    BY <2>1, OpenedChannel DEF DisputeInv
  <2> QED
    BY <2>1, <2>2, OneChannelSameWindows DEF DisputeInv, Channel
<1>7. ASSUME NEW c \in Ids, NEW amount \in Amounts, IsOpenedId(c),
             Spend(c, amount)
      PROVE  SameWindows
  <2> DEFINE rolled == Rolled(channels[c])
             new == [rolled EXCEPT !.spent_this_period = @ + amount,
                                   !.total_spent = @ + amount,
                                   !.collateral = @ - amount]
  <2>1. channels' = [channels EXCEPT ![c] = new]
    BY <1>7 DEF Spend
  <2>2. channels[c] \in Channel
    BY <1>7, OpenedChannel DEF DisputeInv
  <2>3. new.dispute_ledgers = channels[c].dispute_ledgers
    BY <2>2 DEF Rolled, Channel
  <2> HIDE DEF new
  <2> QED
    BY <1>7, <2>1, <2>3, OneChannelSameWindows DEF DisputeInv
<1>8. CASE AgentPays \/ Reclaim \/ SetPaused
  <2>1. CASE AgentPays
    <3>1. PICK agent \in Agents, c \in Ids, amount \in Amounts :
            MaySpend(agent, c, amount) /\ Spend(c, amount)
      BY <2>1 DEF AgentPays, Pay, PayWithConversion, PayWithRoute
    <3> QED
      BY <1>3, <1>7, <3>1 DEF MaySpend
  <2>2. CASE Reclaim
    BY <1>3, <1>5, <1>6, <2>2 DEF Reclaim
  <2>3. CASE SetPaused
    BY <1>3, <2>3 DEF SetPaused, SameWindows
  <2> QED
    BY <1>8, <2>1, <2>2, <2>3
<1>9. ASSUME NEW owner \in Owners, NEW agent \in Agents, NEW token \in Tokens,
             NEW deposit \in Amounts, NEW limit \in Amounts,
             NEW period \in Periods,
             OpenChannel(owner, agent, token, deposit, limit, period)
      PROVE  DisputeInv'
  <2>1. /\ Len(channels') = Len(channels) + 1
        /\ Len(channels) \in Nat
        /\ \A c \in 1..Len(channels) : channels'[c] = channels[c]
        /\ channels'[Len(channels) + 1].dispute_ledgers = DefaultDispute
    BY <1>9, LenProperties, AppendProperties
       DEF OpenChannel, DisputeInv, Inv, TypeOK
  <2>2. LongEnough'
    <3>1. ASSUME NEW c \in 1..Len(channels')
          PROVE  /\ channels'[c].dispute_ledgers \in Nat
                 /\ channels'[c].dispute_ledgers >= MinDispute
      <4>1. c \in 1..Len(channels) \/ c = Len(channels) + 1
        BY <2>1
      <4> QED
        BY <2>1, <4>1, ChannelAssumption DEF DisputeInv, LongEnough
    <3> QED
      BY <3>1 DEF LongEnough
  <2>3. ASSUME NEW c \in Ids, NEW r \in Recipients,
               InFlight(c, r)', WindowIsOver(c, r)', SteadyOwner
        PROVE  (settlements[c][r].best_cumulative >= holds[c][r])'
    <3>1. InFlight(c, r)
      BY <1>1, <2>3 DEF InFlight
    <3>2. c \in 1..Len(channels)
      BY <3>1, InFlightIsOpened DEF DisputeInv, IsOpenedId
    <3>3. WindowIsOver(c, r)
      BY <1>1, <2>1, <2>3, <3>2 DEF WindowIsOver, Deadline
    <3> QED
      BY <1>1, <2>3, <3>1, <3>3 DEF DisputeInv, Answered
  <2> QED
    BY <1>1, <1>2, <2>2, <2>3, QuietIsOwed DEF Answered
<1> QED
  BY <1>3, <1>4, <1>8, <1>9 DEF Fund

(* Reserving more for a recipient.                                         *)
LEMMA AllocateIsOwed ==
  ASSUME DisputeInv, Inv',
         NEW owner \in Owners, NEW c \in Ids, NEW r \in Recipients,
         NEW amount \in Amounts, Allocate(owner, c, r, amount),
         UNCHANGED <<holds, claimed, forfeited, paid>>
  PROVE  DisputeInv'
<1> DEFINE new == [channels[c] EXCEPT !.allocated = @ + amount]
<1>1. /\ IsOpenedId(c) /\ channels' = [channels EXCEPT ![c] = new]
      /\ UNCHANGED <<settlements, ledger>>
      /\ allocations' = [allocations EXCEPT ![c][r].amount = @ + amount]
  BY DEF Allocate
<1>2. channels[c] \in Channel
  BY <1>1, OpenedChannel DEF DisputeInv
<1>3. SameWindows
  BY <1>1, <1>2, OneChannelSameWindows DEF DisputeInv, Channel
<1>4. ASSUME NEW d \in Ids, NEW q \in Recipients
      PROVE  allocations'[d][q].settled = allocations[d][q].settled
  <2>1. allocations[d][q] \in Allocation
    BY ReservedType DEF DisputeInv
  <2>2. allocations \in [Ids -> [Recipients -> Allocation]]
    BY DEF DisputeInv, Inv, TypeOK
  <2>3. allocations'[d][q] =
          IF d = c /\ q = r
          THEN [allocations[c][r] EXCEPT !.amount = @ + amount]
          ELSE allocations[d][q]
    BY <1>1, <2>2
  <2> QED
    BY <2>1, <2>3 DEF Allocation
<1>5. DisputeTypeOK'
  BY DEF DisputeInv, DisputeTypeOK
<1> QED
  BY <1>1, <1>3, <1>4, <1>5, SameWindowsStay, QuietIsAnswered, QuietIsOwed

(* The owner rotates the key or changes the window, with no close open.    *)
LEMMA SetUpVouchersIsOwed ==
  ASSUME DisputeInv, Inv',
         NEW owner \in Owners, NEW c \in Ids, NEW key \in Keys,
         NEW window \in Windows, SetUpVouchers(owner, c, key, window)
  PROVE  DisputeInv'
<1> DEFINE new == [channels[c] EXCEPT !.voucher_signer = key,
                                      !.dispute_ledgers = window]
<1>1. /\ IsOpenedId(c) /\ channels' = [channels EXCEPT ![c] = new]
      /\ UNCHANGED <<settlements, ledger, allocations>>
      /\ UNCHANGED <<claimed, forfeited, paid>>
      /\ window \in Nat /\ window >= MinDispute
  BY ChannelAssumption DEF SetUpVouchers, EnableVouchers
<1>2. channels[c] \in Channel
  BY <1>1, OpenedChannel DEF DisputeInv
<1>3. new.dispute_ledgers = window
  BY <1>2 DEF Channel
<1>4. /\ Len(channels') = Len(channels)
      /\ channels'[c].dispute_ledgers = window
      /\ \A d \in 1..Len(channels) : d # c => channels'[d] = channels[d]
  <2> HIDE DEF new
  <2> QED
    BY <1>1, <1>3, OneChannelRewritten DEF DisputeInv
<1>5. LongEnough'
  BY <1>1, <1>4 DEF DisputeInv, LongEnough
<1>6. /\ holds' \in [Ids -> [Recipients -> Nat]]
      /\ \A d \in Ids, q \in Recipients :
           /\ holds'[d][q] \in Amounts \cup {0}
           /\ d # c => holds'[d][q] = holds[d][q]
  BY DEF SetUpVouchers, DisputeInv, DisputeTypeOK
<1>7. DisputeTypeOK'
  BY <1>1, <1>6 DEF DisputeInv, DisputeTypeOK
<1>8. ASSUME NEW d \in Ids, NEW q \in Recipients,
             InFlight(d, q)', WindowIsOver(d, q)', SteadyOwner
      PROVE  (settlements[d][q].best_cumulative >= holds[d][q])'
  <2>1. InFlight(d, q)
    BY <1>1, <1>8 DEF InFlight
  <2>2. d # c
    BY <1>8, <2>1 DEF SetUpVouchers
  <2>3. d \in 1..Len(channels)
    BY <2>1, InFlightIsOpened DEF DisputeInv, IsOpenedId
  <2>4. WindowIsOver(d, q)
    BY <1>1, <1>4, <1>8, <2>2, <2>3 DEF WindowIsOver, Deadline
  <2> QED
    BY <1>1, <1>6, <1>8, <2>1, <2>2, <2>4 DEF DisputeInv, Answered
<1> QED
  BY <1>1, <1>5, <1>7, <1>8, QuietIsOwed DEF Answered

(* A larger voucher is signed while no close is open.                      *)
LEMMA SignVoucherIsOwed ==
  ASSUME DisputeInv, Inv', NEW c \in Ids, NEW r \in Recipients,
         NEW cum \in Amounts, SignVoucher(c, r, cum)
  PROVE  DisputeInv'
<1>1. /\ UNCHANGED vars /\ UNCHANGED <<claimed, forfeited, paid>>
      /\ ~InFlight(c, r)
      /\ cum \in Nat
      /\ holds' = [holds EXCEPT ![c][r] = cum]
  BY ChannelAssumption DEF SignVoucher, VoucherIsValid
<1>2. UNCHANGED <<ledger, channels, settlements, allocations>>
  BY <1>1 DEF vars
<1>3. /\ holds' \in [Ids -> [Recipients -> Nat]]
      /\ \A d \in Ids, q \in Recipients :
           /\ holds'[d][q] \in Amounts \cup {0}
           /\ <<d, q>> # <<c, r>> => holds'[d][q] = holds[d][q]
  BY <1>1 DEF DisputeInv, DisputeTypeOK
<1>4. DisputeTypeOK'
  BY <1>1, <1>3 DEF DisputeInv, DisputeTypeOK
<1>5. LongEnough'
  BY <1>2 DEF DisputeInv, LongEnough
<1>6. ASSUME NEW d \in Ids, NEW q \in Recipients,
             InFlight(d, q)', WindowIsOver(d, q)', SteadyOwner
      PROVE  (settlements[d][q].best_cumulative >= holds[d][q])'
  <2>1. InFlight(d, q) /\ WindowIsOver(d, q)
    BY <1>2, <1>6 DEF InFlight, WindowIsOver, Deadline
  <2>2. <<d, q>> # <<c, r>>
    BY <1>1, <2>1
  <2> QED
    BY <1>2, <1>3, <1>6, <2>1, <2>2 DEF DisputeInv, Answered
<1> QED
  BY <1>1, <1>2, <1>4, <1>5, <1>6, QuietIsOwed DEF Answered

(* A recipient with a better voucher does not let the window end.          *)
LEMMA NextLedgerIsOwed ==
  ASSUME DisputeInv, Inv', NextLedger
  PROVE  DisputeInv'
<1>1. /\ UNCHANGED <<channels, settlements, allocations>>
      /\ UNCHANGED <<holds, claimed, forfeited, paid>>
      /\ ledger' = ledger + 1 /\ ledger \in Nat
  BY DEF NextLedger, CloseLedger, DisputeInv, Inv, TypeOK
<1>2. DisputeTypeOK' /\ LongEnough'
  BY <1>1 DEF DisputeInv, DisputeTypeOK, LongEnough
<1>3. ASSUME NEW c \in Ids, NEW r \in Recipients,
             InFlight(c, r)', WindowIsOver(c, r)', SteadyOwner
      PROVE  (settlements[c][r].best_cumulative >= holds[c][r])'
  <2>1. InFlight(c, r) /\ ledger + 1 >= Deadline(c, r)
    BY <1>1, <1>3 DEF InFlight, WindowIsOver, Deadline
  <2>2. /\ settlements[c][r].best_cumulative \in Nat
        /\ holds[c][r] \in Nat
    BY <2>1, InFlightFacts DEF DisputeInv, DisputeTypeOK
  <2>3. CASE WindowIsOver(c, r)
    BY <1>1, <1>3, <2>1, <2>3 DEF DisputeInv, Answered
  <2>4. CASE ~WindowIsOver(c, r)
    <3>1. ~MustAnswer(c, r)
      BY DEF NextLedger
    <3>2. ~(holds[c][r] > settlements[c][r].best_cumulative)
      BY <2>1, <2>4, <3>1 DEF MustAnswer
    <3> QED
      BY <1>1, <2>2, <3>2
  <2> QED
    BY <2>3, <2>4
<1> QED
  BY <1>1, <1>2, <1>3, QuietIsOwed DEF Answered

(* A close opens with a window that lasts at least one ledger.             *)
LEMMA OpenCloseIsOwed ==
  ASSUME DisputeInv, Inv', NEW closer \in Callers, NEW c \in Ids,
         NEW r \in Recipients, NEW cum \in Amounts,
         OpenClose(closer, c, r, cum)
  PROVE  DisputeInv'
<1> DEFINE new == [best_cumulative |-> cum, opened_cumulative |-> cum,
                   opened_at_ledger |-> ledger,
                   closed_by_payer |-> closer \in {channels[c].owner,
                                                   channels[c].agent}]
<1>1. /\ IsOpenedId(c)
      /\ UNCHANGED <<ledger, channels, allocations>>
      /\ UNCHANGED <<holds, claimed, forfeited, paid>>
      /\ settlements' = [settlements EXCEPT ![c][r] = new]
      /\ ledger \in Nat
  BY DEF OpenClose, CloseUnilateral, DisputeInv, Inv, TypeOK
<1>2. DisputeTypeOK' /\ LongEnough'
  BY <1>1 DEF DisputeInv, DisputeTypeOK, LongEnough
<1>3. /\ settlements'[c][r] = new
      /\ \A d \in Ids, q \in Recipients :
           <<d, q>> # <<c, r>> => settlements'[d][q] = settlements[d][q]
  <2> HIDE DEF new
  <2> QED
    BY <1>1 DEF DisputeInv, Inv, TypeOK
<1>4. ~WindowIsOver(c, r)'
  <2>1. channels[c].dispute_ledgers \in Nat \ {0}
    BY <1>1, ChannelAssumption DEF DisputeInv, LongEnough, IsOpenedId
  <2>2. Deadline(c, r)' = ledger + channels[c].dispute_ledgers
    BY <1>1, <1>3 DEF Deadline
  <2> QED
    BY <1>1, <2>1, <2>2 DEF WindowIsOver
<1>5. ASSUME NEW d \in Ids, NEW q \in Recipients,
             InFlight(d, q)', WindowIsOver(d, q)', SteadyOwner
      PROVE  (settlements[d][q].best_cumulative >= holds[d][q])'
  <2>1. <<d, q>> # <<c, r>>
    BY <1>4, <1>5
  <2>2. settlements'[d][q] = settlements[d][q]
    BY <1>3, <2>1
  <2>3. InFlight(d, q) /\ WindowIsOver(d, q)
    BY <1>1, <1>5, <2>2 DEF InFlight, WindowIsOver, Deadline
  <2> QED
    BY <1>1, <1>5, <2>2, <2>3 DEF DisputeInv, Answered
<1> QED
  BY <1>1, <1>2, <1>5, QuietIsOwed DEF Answered

(* A challenge presents the best voucher.                                  *)
LEMMA AnswerIsOwed ==
  ASSUME DisputeInv, Inv', NEW c \in Ids, NEW r \in Recipients,
         Answer(c, r)
  PROVE  DisputeInv'
<1> DEFINE cum == holds[c][r]
           new == [settlements[c][r] EXCEPT !.best_cumulative = cum]
<1>1. /\ UNCHANGED <<ledger, channels, allocations>>
      /\ UNCHANGED <<holds, claimed, forfeited, paid>>
      /\ settlements' = [settlements EXCEPT ![c][r] = new]
      /\ settlements[c][r] \in Settlement
      /\ cum \in Nat
  BY InFlightFacts DEF Answer, Challenge, DisputeInv, DisputeTypeOK
<1>2. DisputeTypeOK' /\ LongEnough'
  BY <1>1 DEF DisputeInv, DisputeTypeOK, LongEnough
<1>3. /\ settlements'[c][r] = new
      /\ \A d \in Ids, q \in Recipients :
           <<d, q>> # <<c, r>> => settlements'[d][q] = settlements[d][q]
  <2> HIDE DEF new, cum
  <2> QED
    BY <1>1 DEF DisputeInv, Inv, TypeOK
<1>4. (settlements[c][r].best_cumulative >= holds[c][r])'
  <2>1. new.best_cumulative = cum
    BY <1>1 DEF Settlement
  <2>2. settlements'[c][r].best_cumulative = cum /\ holds'[c][r] = cum
    BY <1>1, <1>3, <2>1
  <2> HIDE DEF cum
  <2> QED
    BY <1>1, <2>2
<1>5. ASSUME NEW d \in Ids, NEW q \in Recipients, <<d, q>> # <<c, r>>,
             InFlight(d, q)', WindowIsOver(d, q)', SteadyOwner
      PROVE  (settlements[d][q].best_cumulative >= holds[d][q])'
  <2>1. settlements'[d][q] = settlements[d][q]
    BY <1>3, <1>5
  <2>2. InFlight(d, q) /\ WindowIsOver(d, q)
    BY <1>1, <1>5, <2>1 DEF InFlight, WindowIsOver, Deadline
  <2> QED
    BY <1>1, <1>5, <2>1, <2>2 DEF DisputeInv, Answered
<1>6. SteadyOwner => Answered'
  BY <1>4, <1>5 DEF Answered
<1> QED
  BY <1>1, <1>2, <1>6, QuietIsOwed

(* The books of a settlement: what it settles is what was paid, of which   *)
(* at least the voucher's amount, and beyond it only penalties.            *)
LEMMA PaidOutIsOwed ==
  ASSUME DisputeInv, Inv', NEW c \in Ids, NEW r \in Recipients,
         IsOpenedId(c), NEW cum \in Nat, NEW penalty \in Nat,
         PayOut(c, r, cum, penalty),
         RecordPayment(c, r),
         claimed' = [claimed EXCEPT ![c][r] = cum],
         \/ forfeited' = [forfeited EXCEPT ![c][r] = @ + penalty]
         \/ penalty = 0 /\ forfeited' = forfeited,
         UNCHANGED <<ledger, holds>>,
         \A d \in Ids, q \in Recipients :
           settlements'[d][q] \in {settlements[d][q], NoSettlement}
  PROVE  DisputeInv'
<1>1. /\ channels'[c].total_spent - channels[c].total_spent
           = cum - allocations[c][r].settled + penalty
      /\ allocations'[c][r].settled = cum + penalty
      /\ \A d \in Ids, q \in Recipients :
           <<d, q>> # <<c, r>> => allocations'[d][q] = allocations[d][q]
      /\ SameWindows
  BY PayOutEffect DEF DisputeInv
<1>2. /\ claimed \in [Ids -> [Recipients -> Nat]]
      /\ forfeited \in [Ids -> [Recipients -> Nat]]
      /\ paid \in [Ids -> [Recipients -> Nat]]
      /\ paid[c][r] = allocations[c][r].settled
  BY DEF DisputeInv, DisputeTypeOK, PaidIsSettled
<1> DEFINE amount == paid[c][r] + channels'[c].total_spent
                       - channels[c].total_spent
<1>3. amount = cum + penalty
  <2>1. channels[c].total_spent \in Int /\ channels'[c].total_spent \in Int
    <3>1. IsOpenedId(c)' /\ Inv' /\ Inv
      BY <1>1 DEF SameWindows, IsOpenedId, DisputeInv
    <3>2. channels[c] \in Channel
      BY <3>1, OpenedChannel
    <3>3. channels'[c] \in Channel
      BY <3>1, ElementOfSeq DEF Inv, TypeOK, IsOpenedId
    <3> QED
      BY <3>2, <3>3 DEF Channel
  <2>2. paid[c][r] \in Nat
    BY <1>2
  <2> QED
    BY <1>1, <1>2, <2>1, <2>2
<1>4. /\ paid' \in [Ids -> [Recipients -> Nat]]
      /\ paid'[c][r] = cum + penalty
      /\ \A d \in Ids, q \in Recipients :
           <<d, q>> # <<c, r>> => paid'[d][q] = paid[d][q]
  <2>1. paid' = [paid EXCEPT ![c][r] = amount]
    BY DEF RecordPayment
  <2> HIDE DEF amount
  <2> QED
    BY <1>2, <1>3, <2>1
<1>5. /\ claimed' \in [Ids -> [Recipients -> Nat]]
      /\ claimed'[c][r] = cum
      /\ \A d \in Ids, q \in Recipients :
           <<d, q>> # <<c, r>> => claimed'[d][q] = claimed[d][q]
  BY <1>2
<1>6. /\ forfeited' \in [Ids -> [Recipients -> Nat]]
      /\ forfeited'[c][r] = forfeited[c][r] + penalty
      /\ \A d \in Ids, q \in Recipients :
           <<d, q>> # <<c, r>> => forfeited'[d][q] = forfeited[d][q]
  <2>1. CASE forfeited' = [forfeited EXCEPT ![c][r] = @ + penalty]
    BY <1>2, <2>1
  <2>2. CASE penalty = 0 /\ forfeited' = forfeited
    BY <1>2, <2>2
  <2> QED
    BY <2>1, <2>2
<1>7. DisputeTypeOK'
  BY <1>4, <1>5, <1>6 DEF DisputeInv, DisputeTypeOK
<1>8. ASSUME NEW d \in Ids, NEW q \in Recipients
      PROVE  /\ (paid[d][q] = allocations[d][q].settled)'
             /\ (claimed[d][q] <= paid[d][q])'
             /\ (paid[d][q] <= claimed[d][q] + forfeited[d][q])'
  <2>1. CASE <<d, q>> = <<c, r>>
    <3>1. forfeited[c][r] \in Nat
      BY <1>2
    <3> QED
      BY <1>1, <1>4, <1>5, <1>6, <2>1, <3>1
  <2>2. CASE <<d, q>> # <<c, r>>
    <3>1. /\ paid[d][q] = allocations[d][q].settled
          /\ claimed[d][q] <= paid[d][q]
          /\ paid[d][q] <= claimed[d][q] + forfeited[d][q]
      BY DEF DisputeInv, PaidIsSettled, PaidIsOwed
    <3>2. /\ paid'[d][q] = paid[d][q]
          /\ claimed'[d][q] = claimed[d][q]
          /\ forfeited'[d][q] = forfeited[d][q]
          /\ allocations'[d][q] = allocations[d][q]
      BY <1>1, <1>4, <1>5, <1>6, <2>2
    <3> QED
      BY <3>1, <3>2
  <2> QED
    BY <2>1, <2>2
<1>9. ASSUME NEW d \in Ids, NEW q \in Recipients,
             InFlight(d, q)', WindowIsOver(d, q)', SteadyOwner
      PROVE  (settlements[d][q].best_cumulative >= holds[d][q])'
  <2>1. settlements'[d][q] = settlements[d][q] /\ InFlight(d, q)
    BY <1>9 DEF InFlight
  <2>2. d \in 1..Len(channels)
    BY <2>1, InFlightIsOpened DEF DisputeInv, IsOpenedId
  <2>3. WindowIsOver(d, q)
    BY <1>1, <1>9, <2>1, <2>2 DEF WindowIsOver, Deadline, SameWindows
  <2> QED
    BY <1>9, <2>1, <2>3 DEF DisputeInv, Answered
<1>10. LongEnough'
  BY <1>1, SameWindowsStay
<1> QED
  BY <1>7, <1>8, <1>9, <1>10
     DEF DisputeInv, PaidIsSettled, PaidIsOwed, Answered

(* A cooperative close pays the best voucher.                              *)
LEMMA AgreeToCloseIsOwed ==
  ASSUME DisputeInv, Inv', NEW c \in Ids, NEW r \in Recipients,
         AgreeToClose(c, r)
  PROVE  DisputeInv'
<1>1. /\ IsOpenedId(c)
      /\ holds[c][r] \in Nat
      /\ PayOut(c, r, holds[c][r], 0)
      /\ UNCHANGED <<ledger, settlements, holds, forfeited>>
      /\ claimed' = [claimed EXCEPT ![c][r] = holds[c][r]]
      /\ RecordPayment(c, r)
  BY DEF AgreeToClose, CloseCooperative, DisputeInv, DisputeTypeOK
<1> QED
  BY <1>1, PaidOutIsOwed

(* Finalising pays the best voucher presented, and the penalty.            *)
LEMMA ConcludeIsOwed ==
  ASSUME DisputeInv, Inv', NEW c \in Ids, NEW r \in Recipients,
         Conclude(c, r)
  PROVE  DisputeInv'
<1> DEFINE best == settlements[c][r].best_cumulative
<1>1. /\ IsOpenedId(c) /\ InFlight(c, r)
      /\ PayOut(c, r, best, Penalty(c, r))
      /\ settlements' = [settlements EXCEPT ![c][r] = NoSettlement]
      /\ UNCHANGED <<ledger, holds>>
      /\ claimed' = [claimed EXCEPT ![c][r] = best]
      /\ forfeited' = [forfeited EXCEPT ![c][r] = @ + Penalty(c, r)]
      /\ RecordPayment(c, r)
  BY DEF Conclude, Finalize
<1>2. best \in Nat /\ Penalty(c, r) \in Nat
  BY <1>1, InFlightFacts, PenaltyBounded DEF DisputeInv
<1>3. \A d \in Ids, q \in Recipients :
        settlements'[d][q] \in {settlements[d][q], NoSettlement}
  BY <1>1 DEF DisputeInv, Inv, TypeOK
<1> HIDE DEF best
<1> QED
  BY <1>1, <1>2, <1>3, PaidOutIsOwed

(* Nothing is owed.                                                        *)
LEMMA DisputeInitInv == DisputeInit => DisputeInv
<1> SUFFICES ASSUME DisputeInit PROVE DisputeInv
  OBVIOUS
<1>1. Inv
  BY InitInv DEF DisputeInit
<1>2. DisputeTypeOK /\ PaidIsOwed
  BY DEF DisputeInit, PerRecipient, DisputeTypeOK, PaidIsOwed
<1>3. PaidIsSettled
  BY DEF DisputeInit, Init, PerRecipient, PaidIsSettled
<1>4. LongEnough
  BY DEF DisputeInit, Init, LongEnough
<1>5. Answered
  BY DEF DisputeInit, Init, Answered, InFlight
<1> QED
  BY <1>1, <1>2, <1>3, <1>4, <1>5 DEF DisputeInv

(* Every step keeps the books of the dispute.                              *)
LEMMA DisputeNextInv == DisputeInv /\ [DisputeNext]_disputeVars => DisputeInv'
<1> SUFFICES ASSUME DisputeInv, [DisputeNext]_disputeVars PROVE DisputeInv'
  OBVIOUS
<1>1. Inv'
  BY DisputeStepIsNext, NextInv DEF DisputeInv
<1>2. CASE NextLedger
  BY <1>1, <1>2, NextLedgerIsOwed
<1>3. ASSUME NEW owner \in Owners, NEW c \in Ids, NEW key \in Keys,
             NEW window \in Windows, SetUpVouchers(owner, c, key, window)
      PROVE  DisputeInv'
  BY <1>1, <1>3, SetUpVouchersIsOwed
<1>4. ASSUME NEW owner \in Owners, NEW c \in Ids, NEW r \in Recipients,
             NEW amount \in Amounts, Allocate(owner, c, r, amount),
             UNCHANGED <<holds, claimed, forfeited, paid>>
      PROVE  DisputeInv'
  BY <1>1, <1>4, AllocateIsOwed
<1>5. CASE (Fund \/ Reclaim \/ AgentPays \/ SetPaused)
             /\ UNCHANGED <<holds, claimed, forfeited, paid>>
  BY <1>1, <1>5, OthersAreOwed
<1>6. ASSUME NEW c \in Ids, NEW r \in Recipients,
             Answer(c, r) \/ AgreeToClose(c, r) \/ Conclude(c, r)
      PROVE  DisputeInv'
  BY <1>1, <1>6, AnswerIsOwed, AgreeToCloseIsOwed, ConcludeIsOwed
<1>7. ASSUME NEW c \in Ids, NEW r \in Recipients, NEW cum \in Amounts,
             \/ SignVoucher(c, r, cum)
             \/ \E closer \in Callers : OpenClose(closer, c, r, cum)
      PROVE  DisputeInv'
  BY <1>1, <1>7, SignVoucherIsOwed, OpenCloseIsOwed
<1>8. CASE UNCHANGED disputeVars
  <2>1. SameWindows /\ UNCHANGED <<ledger, settlements, allocations, holds>>
    BY <1>8 DEF disputeVars, vars, SameWindows
  <2>2. DisputeTypeOK' /\ UNCHANGED <<claimed, forfeited, paid>>
    BY <1>8 DEF disputeVars, DisputeInv, DisputeTypeOK
  <2> QED
    BY <1>1, <2>1, <2>2, SameWindowsStay, QuietIsAnswered, QuietIsOwed
<1> QED
  BY <1>2, <1>3, <1>4, <1>5, <1>6, <1>7, <1>8 DEF DisputeNext

(* The invariant of the dispute window holds throughout.                   *)
THEOREM DisputeInvHolds == DisputeSpec => []DisputeInv
BY DisputeInitInv, DisputeNextInv, PTL DEF DisputeSpec

(* Over any sequence of cooperative closes, disputes and penalties, a      *)
(* recipient is paid its largest settled voucher once, and beyond it only  *)
(* what the payer forfeited.                                               *)
THEOREM RecipientsArePaidWhatIsOwed == DisputeSpec => []PaidIsOwed
<1>1. DisputeInv => PaidIsOwed
  BY DEF DisputeInv
<1> QED
  BY <1>1, DisputeInvHolds, PTL

(* The close that a step ends, if any, is one that was answered.           *)
LEMMA EndsAnswered ==
  ASSUME DisputeInv, [DisputeNext]_disputeVars,
         NEW c \in Ids, NEW r \in Recipients,
         InFlight(c, r), ~InFlight(c, r)', SteadyOwner
  PROVE  allocations'[c][r].settled >= holds[c][r]
<1>1. Conclude(c, r)
  <2>1. settlements'[c][r] = NoSettlement /\ settlements[c][r] # NoSettlement
    BY DEF InFlight
  <2>2. CASE UNCHANGED settlements
    BY <2>1, <2>2
  <2>3. ASSUME NEW d \in Ids, NEW q \in Recipients, NEW s \in Settlement,
               settlements' = [settlements EXCEPT ![d][q] = s]
        PROVE  FALSE
    <3>1. settlements'[c][r] \in {s, settlements[c][r]}
      BY <2>3 DEF DisputeInv, Inv, TypeOK
    <3> QED
      BY <2>1, <2>3, <3>1, SettlementAssumption
  <2>4. ASSUME NEW d \in Ids, NEW q \in Recipients, Conclude(d, q)
        PROVE  Conclude(c, r)
    <3>1. settlements' = [settlements EXCEPT ![d][q] = NoSettlement]
      BY <2>4 DEF Conclude, Finalize
    <3>2. d = c /\ q = r
      BY <2>1, <3>1 DEF DisputeInv, Inv, TypeOK
    <3> QED
      BY <2>4, <3>2
  <2>5. ASSUME NEW d \in Ids, NEW q \in Recipients, NEW closer \in Callers,
               NEW cum \in Amounts, OpenClose(closer, d, q, cum)
        PROVE  FALSE
    <3>1. cum \in Nat /\ ledger \in Nat
      BY <2>5, ChannelAssumption
         DEF OpenClose, CloseUnilateral, VoucherIsValid, DisputeInv, Inv,
             TypeOK
    <3> DEFINE s == [best_cumulative |-> cum, opened_cumulative |-> cum,
                     opened_at_ledger |-> ledger,
                     closed_by_payer |-> closer \in {channels[d].owner,
                                                     channels[d].agent}]
    <3>2. s \in Settlement
      BY <3>1 DEF Settlement
    <3>3. settlements' = [settlements EXCEPT ![d][q] = s]
      BY <2>5 DEF OpenClose, CloseUnilateral
    <3> HIDE DEF s
    <3> QED
      BY <2>3, <3>2, <3>3
  <2>6. ASSUME NEW d \in Ids, NEW q \in Recipients, Answer(d, q)
        PROVE  FALSE
    <3> DEFINE s == [settlements[d][q] EXCEPT !.best_cumulative = holds[d][q]]
    <3>1. settlements[d][q] \in Settlement /\ holds[d][q] \in Nat
      BY <2>6, InFlightFacts
         DEF Answer, Challenge, DisputeInv, DisputeTypeOK
    <3>2. s \in Settlement
      BY <3>1 DEF Settlement
    <3>3. settlements' = [settlements EXCEPT ![d][q] = s]
      BY <2>6 DEF Answer, Challenge
    <3> HIDE DEF s
    <3> QED
      BY <2>3, <3>2, <3>3
  <2>7. CASE Fund \/ Reclaim \/ AgentPays \/ SetPaused
    <3>1. UNCHANGED settlements
      BY <2>7, ClosesUntouched
    <3> QED
      BY <2>2, <3>1
  <2>8. CASE \/ NextLedger \/ UNCHANGED disputeVars
             \/ \E owner \in Owners, d \in Ids, key \in Keys,
                   window \in Windows :
                  SetUpVouchers(owner, d, key, window)
             \/ \E owner \in Owners, d \in Ids, q \in Recipients,
                   amount \in Amounts : Allocate(owner, d, q, amount)
             \/ \E d \in Ids, q \in Recipients : AgreeToClose(d, q)
             \/ \E d \in Ids, q \in Recipients, cum \in Amounts :
                  SignVoucher(d, q, cum)
    BY <2>2, <2>8
       DEF NextLedger, CloseLedger, SetUpVouchers, EnableVouchers, Allocate,
           AgreeToClose, CloseCooperative, SignVoucher, disputeVars, vars
  <2> QED
    BY <2>4, <2>5, <2>6, <2>7, <2>8 DEF DisputeNext
<1> DEFINE best == settlements[c][r].best_cumulative
<1>2. /\ WindowIsOver(c, r)
      /\ IsOpenedId(c)
      /\ PayOut(c, r, best, Penalty(c, r))
  BY <1>1 DEF Conclude, Finalize
<1>3. best \in Nat /\ Penalty(c, r) \in Nat /\ holds[c][r] \in Nat
  BY InFlightFacts, PenaltyBounded DEF DisputeInv, DisputeTypeOK
<1>4. best >= holds[c][r]
  BY <1>2 DEF DisputeInv, Answered
<1> HIDE DEF best
<1>5. allocations'[c][r].settled = best + Penalty(c, r)
  BY <1>2, <1>3, PayOutEffect DEF DisputeInv
<1> QED
  BY <1>3, <1>4, <1>5

(* Whoever closes, with whatever old voucher and for whatever penalty: if  *)
(* the owner leaves open windows alone, a recipient that answers in time   *)
(* is paid at least its best voucher.                                      *)
THEOREM VigilanceSuffices ==
  ASSUME SteadyOwner
  PROVE  DisputeSpec => VigilantIsPaid
<1> DEFINE Ends ==
      \A c \in Ids, r \in Recipients :
        InFlight(c, r) /\ ~InFlight(c, r)' =>
          allocations'[c][r].settled >= holds[c][r]
<1>1. DisputeInv /\ [DisputeNext]_disputeVars => [Ends]_disputeVars
  BY EndsAnswered
<1>2. DisputeSpec => [][Ends]_disputeVars
  BY <1>1, DisputeInvHolds, PTL DEF DisputeSpec
<1> QED
  BY <1>2 DEF VigilantIsPaid
=============================================================================
