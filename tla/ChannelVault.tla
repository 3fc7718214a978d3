---------------------------- MODULE ChannelVault ----------------------------
(***************************************************************************)
(* What a payment channel promises about money, without periods, windows,  *)
(* vouchers or closes: each channel holds funds, part of them reserved for *)
(* named recipients.  Spending and refunding take from what is not         *)
(* reserved; a recipient is paid from its own reservation, which is        *)
(* released as a whole; after the channel is closed nothing is deposited,  *)
(* spent or reserved any more.                                             *)
(***************************************************************************)
EXTENDS Integers

CONSTANTS
  Ids, Recipients,
  Total(_)          \* the sum of a channel's reservations

VARIABLES phase, held, reserved

vault == <<phase, held, reserved>>

Available(c) == held[c] - Total(reserved[c])

VaultInit ==
  /\ phase = [c \in Ids |-> "unopened"]
  /\ held = [c \in Ids |-> 0]
  /\ reserved = [c \in Ids |-> [r \in Recipients |-> 0]]

Open(c) ==
  /\ phase[c] = "unopened"
  /\ phase' = [phase EXCEPT ![c] = "open"]
  /\ held' = [held EXCEPT ![c] = held'[c]]
  /\ held'[c] > 0
  /\ UNCHANGED reserved

Deposit(c) ==
  /\ phase[c] = "open"
  /\ held' = [held EXCEPT ![c] = held'[c]]
  /\ held'[c] > held[c]
  /\ UNCHANGED <<phase, reserved>>

Spend(c) ==
  /\ phase[c] = "open"
  /\ \E n \in 1..Available(c) : held' = [held EXCEPT ![c] = @ - n]
  /\ UNCHANGED <<phase, reserved>>

Reserve(c, r) ==
  /\ phase[c] = "open"
  /\ \E n \in 1..Available(c) : reserved' = [reserved EXCEPT ![c][r] = @ + n]
  /\ UNCHANGED <<phase, held>>

\* The recipient gets at most its reservation, and the rest of it is freed.
Redeem(c, r) ==
  /\ \E n \in 1..reserved[c][r] : held' = [held EXCEPT ![c] = @ - n]
  /\ reserved' = [reserved EXCEPT ![c][r] = 0]
  /\ UNCHANGED phase

\* The owner takes back everything that is not reserved, and may close.
Refund(c) ==
  /\ phase[c] # "unopened"
  /\ held' = [held EXCEPT ![c] = Total(reserved[c])]
  /\ phase' \in {phase, [phase EXCEPT ![c] = "closed"]}
  /\ UNCHANGED reserved

VaultNext ==
  \E c \in Ids :
    \/ Open(c) \/ Deposit(c) \/ Spend(c) \/ Refund(c)
    \/ \E r \in Recipients : Reserve(c, r) \/ Redeem(c, r)

VaultSpec == VaultInit /\ [][VaultNext]_vault
=============================================================================
