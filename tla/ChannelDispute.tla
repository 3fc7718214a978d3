--------------------------- MODULE ChannelDispute ---------------------------
(***************************************************************************)
(* The dispute window seen by a recipient: PaymentChannel together with    *)
(* the vouchers the payer signs off chain and a recipient (or watchtower)  *)
(* that answers a stale close before its window ends, the assumption       *)
(* docs/payment-voucher-design.md makes of it.                             *)
(***************************************************************************)
EXTENDS PaymentChannel

CONSTANT
  SteadyOwner    \* TRUE: enable_vouchers is not called while a close is open

VARIABLES
  holds,       \* cumulative amount of the best voucher a recipient holds
  claimed,     \* history: the largest voucher settled
  forfeited,   \* history: the penalties incurred
  paid         \* history: what was transferred to a recipient

disputeVars == <<vars, holds, claimed, forfeited, paid>>

PerRecipient(n) == [c \in Ids |-> [r \in Recipients |-> n]]

DisputeInit ==
  /\ Init
  /\ holds = PerRecipient(0)
  /\ claimed = PerRecipient(0)
  /\ forfeited = PerRecipient(0)
  /\ paid = PerRecipient(0)

RecordPayment(c, r) ==
  paid' = [paid EXCEPT ![c][r] =
             @ + channels'[c].total_spent - channels[c].total_spent]

\* The payer signs a larger voucher.  The recipient serves it only if the
\* allocation backs it and no close is open.
SignVoucher(c, r, cum) ==
  /\ IsOpenedId(c)
  /\ channels[c].voucher_signer # NoKey
  /\ ~InFlight(c, r)
  /\ cum > holds[c][r]
  /\ VoucherIsValid(c, r, cum)
  /\ holds' = [holds EXCEPT ![c][r] = cum]
  /\ UNCHANGED <<vars, claimed, forfeited, paid>>

\* Either side may close with any voucher signed so far.
OpenClose(closer, c, r, cum) ==
  /\ cum <= holds[c][r]
  /\ CloseUnilateral(closer, c, r, cum)
  /\ UNCHANGED <<holds, claimed, forfeited, paid>>

\* The recipient, or a watchtower, answers with its best voucher.
Answer(c, r) ==
  /\ Challenge(c, r, holds[c][r])
  /\ UNCHANGED <<holds, claimed, forfeited, paid>>

\* The recipient co-signs its best voucher only.
AgreeToClose(c, r) ==
  /\ CloseCooperative(c, r, holds[c][r])
  /\ claimed' = [claimed EXCEPT ![c][r] = holds[c][r]]
  /\ RecordPayment(c, r)
  /\ UNCHANGED <<holds, forfeited>>

Conclude(c, r) ==
  /\ Finalize(c, r)
  /\ claimed' = [claimed EXCEPT ![c][r] = settlements[c][r].best_cumulative]
  /\ forfeited' = [forfeited EXCEPT ![c][r] = @ + Penalty(c, r)]
  /\ RecordPayment(c, r)
  /\ UNCHANGED holds

\* Rotating the key repudiates every voucher the old one signed.
SetUpVouchers(owner, c, key, window) ==
  /\ SteadyOwner => \A r \in Recipients : ~InFlight(c, r)
  /\ EnableVouchers(owner, c, key, window)
  /\ holds' = IF key = channels[c].voucher_signer THEN holds
              ELSE [holds EXCEPT ![c] = [r \in Recipients |-> 0]]
  /\ UNCHANGED <<claimed, forfeited, paid>>

\* A recipient with a better voucher does not let the window's last ledger
\* pass.
MustAnswer(c, r) ==
  /\ InFlight(c, r)
  /\ ~WindowIsOver(c, r)
  /\ ledger + 1 >= Deadline(c, r)
  /\ holds[c][r] > settlements[c][r].best_cumulative

NextLedger ==
  /\ \A c \in Ids, r \in Recipients : ~MustAnswer(c, r)
  /\ CloseLedger
  /\ UNCHANGED <<holds, claimed, forfeited, paid>>

DisputeNext ==
  \/ NextLedger
  \/ \E owner \in Owners, c \in Ids, key \in Keys, window \in Windows :
       SetUpVouchers(owner, c, key, window)
  \/ \E owner \in Owners, c \in Ids, r \in Recipients, amount \in Amounts :
       /\ Allocate(owner, c, r, amount)
       /\ UNCHANGED <<holds, claimed, forfeited, paid>>
  \/ (Fund \/ Reclaim \/ AgentPays \/ SetPaused)
       /\ UNCHANGED <<holds, claimed, forfeited, paid>>
  \/ \E c \in Ids, r \in Recipients :
       \/ Answer(c, r)
       \/ AgreeToClose(c, r)
       \/ Conclude(c, r)
       \/ \E cum \in Amounts :
            \/ SignVoucher(c, r, cum)
            \/ \E closer \in Callers : OpenClose(closer, c, r, cum)

DisputeSpec == DisputeInit /\ [][DisputeNext]_disputeVars

-----------------------------------------------------------------------------
(* Whoever closes, with whatever old voucher, a recipient that answers     *)
(* within the window is paid at least the best voucher it holds.           *)
VigilantIsPaid ==
  [][\A c \in Ids, r \in Recipients :
       InFlight(c, r) /\ ~InFlight(c, r)' =>
         allocations'[c][r].settled >= holds[c][r]]_disputeVars

(* Over all its settlements, a recipient is paid in full for the largest   *)
(* voucher settled, and beyond it only what the payer was caught           *)
(* withholding: no voucher is paid twice.                                  *)
PaidIsOwed ==
  \A c \in Ids, r \in Recipients :
    /\ claimed[c][r] <= paid[c][r]
    /\ paid[c][r] <= claimed[c][r] + forfeited[c][r]
=============================================================================
