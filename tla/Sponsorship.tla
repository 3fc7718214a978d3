----------------------------- MODULE Sponsorship -----------------------------
(***************************************************************************)
(* The sponsor service of the core SDK (fleet/sponsorship.ts): accounts    *)
(* whose reserve the sponsor pays are created, released and merged back,   *)
(* one lifecycle at a time, each by a transaction of the sponsor's         *)
(* sequence.  The service remembers in records what it did.                *)
(*                                                                         *)
(* The ledger is external: it executes a pending transaction or lets it    *)
(* expire, at any time, whether or not the service still polls for it.     *)
(***************************************************************************)
EXTENDS Naturals, Sequences, FiniteSets

CONSTANTS
    Targets,             \* the accounts that may be sponsored
    LifecycleSends,      \* sends of one envelope (3 in the code)
    LifecyclePolls,      \* confirmationAttempts
    MaxLifecycles        \* bound: lifecycles asked for

ASSUME SponsorAssumption ==
    /\ IsFiniteSet(Targets)
    /\ LifecycleSends \in Nat \ {0} /\ LifecyclePolls \in Nat /\ MaxLifecycles \in Nat

VARIABLES
    asked,        \* lifecycles waiting on #lifecycleTail, the oldest runs
    lifecycle,    \* the one that runs
    records,      \* #records
    replies,      \* how each lifecycle ended
    account,      \* the target accounts in the ledger
    sponsorSeq,   \* the sponsor's sequence number in the ledger
    pendingTxs,   \* transactions the network has accepted
    landed        \* transactions executed or failed in the ledger

serviceVars == <<asked, lifecycle, records, replies>>
ledgerVars == <<account, sponsorSeq, pendingTxs, landed>>
sponsorVars == <<serviceVars, ledgerVars>>

Operations == {"ensure", "create", "revoke", "close"}
NoRecord == "none"      \* records[a]: none, active, or inactive
Resting == [at |-> "rest", seq |-> 0, sends |-> 0, polls |-> 0]

SponsorInit ==
    /\ asked = <<>> /\ replies = <<>>
    /\ lifecycle = Resting
    /\ records = [a \in Targets |-> NoRecord]
    /\ account \in [Targets -> {"missing", "funded"}]
    /\ sponsorSeq = 0
    /\ pendingTxs = {} /\ landed = {}

-----------------------------------------------------------------------------

AskFor(op, a) ==
    /\ Len(asked) + Len(replies) < MaxLifecycles
    /\ asked' = Append(asked, [op |-> op, target |-> a])
    /\ UNCHANGED <<lifecycle, records, replies, ledgerVars>>

Current == Head(asked)
Now(at) == asked # <<>> /\ lifecycle.at = at

\* The promise settles, fulfilled or rejected, and the next one runs.
Reply(result) ==
    /\ replies' = Append(replies,
         [op |-> Current.op, target |-> Current.target, result |-> result,
          tx |-> lifecycle.seq])
    /\ asked' = Tail(asked)
    /\ lifecycle' = Resting

\* ensureSponsoredAccount: an active record is believed, an account found in
\* the ledger is remembered as not sponsored, a missing one is created.
Ensure ==
    /\ Now("rest") /\ Current.op = "ensure"
    /\ LET a == Current.target IN
         \/ /\ records[a] = "active"
            /\ Reply("active") /\ UNCHANGED records
         \/ /\ records[a] # "active" /\ account[a] # "missing"
            /\ records' = [records EXCEPT ![a] = "inactive"]
            /\ Reply("exists")
         \/ /\ records[a] # "active" /\ account[a] = "missing"
            /\ lifecycle' = [lifecycle EXCEPT !.at = "load"]
            /\ UNCHANGED <<asked, records, replies>>
         \/ /\ records[a] # "active"
            /\ Reply("error") /\ UNCHANGED records
    /\ UNCHANGED ledgerVars

\* The sponsor's sequence is loaded and the transaction built and signed; the
\* RPC, the fee strategy and the signers may fail.
LoadSponsor ==
    /\ Now("load") \/ (Now("rest") /\ Current.op # "ensure")
    /\ \/ /\ lifecycle' = [lifecycle EXCEPT !.at = "send", !.seq = sponsorSeq + 1]
          /\ UNCHANGED <<asked, replies>>
       \/ Reply("error")
    /\ UNCHANGED <<records, ledgerVars>>

-----------------------------------------------------------------------------

Tx == [op |-> IF Current.op = "ensure" THEN "create" ELSE Current.op,
       target |-> Current.target, seq |-> lifecycle.seq, nth |-> Len(replies)]

ServiceTakes(tx) == tx.seq = sponsorSeq + 1 /\ pendingTxs \subseteq {tx}
TxKnown == \E t \in landed : t.tx = Tx

MutantResend ==      \* never counts the sends of an envelope
    /\ lifecycle' = [lifecycle EXCEPT !.at = "send"]
    /\ UNCHANGED <<asked, replies>>

Resend ==
    IF lifecycle.sends + 1 < LifecycleSends
    THEN /\ lifecycle' = [lifecycle EXCEPT !.at = "send", !.sends = @ + 1]
         /\ UNCHANGED <<asked, replies>>
    ELSE Reply("error")

\* #signSubmitAndConfirm, one sendTransaction: taken, told to try again
\* later, refused, or without an answer.
SendTx ==
    /\ Now("send")
    /\ \/ /\ ServiceTakes(Tx)
          /\ pendingTxs' = pendingTxs \cup {Tx}
          /\ \E at \in {"poll", "check"} : lifecycle' = [lifecycle EXCEPT !.at = at]
          /\ UNCHANGED <<asked, replies>>
       \/ /\ lifecycle' = [lifecycle EXCEPT !.at = "check"]
          /\ UNCHANGED <<asked, replies, pendingTxs>>
       \/ Resend /\ UNCHANGED pendingTxs
       \/ ~ServiceTakes(Tx) /\ Reply("error") /\ UNCHANGED pendingTxs
    /\ UNCHANGED <<records, account, sponsorSeq, landed>>

\* A send without an answer: the hash decides, or the envelope goes again.
CheckTx ==
    /\ Now("check")
    /\ \/ /\ TxKnown
          /\ lifecycle' = [lifecycle EXCEPT !.at = "poll"]
          /\ UNCHANGED <<asked, replies>>
       \/ Resend
    /\ UNCHANGED <<records, ledgerVars>>

MutantRecorded(tx) ==      \* a merged account keeps its record
    CASE tx.op = "create" -> [records EXCEPT ![tx.target] = "active"]
      [] tx.op = "revoke" /\ records[tx.target] # NoRecord ->
           [records EXCEPT ![tx.target] = "inactive"]
      [] OTHER -> records

\* What each operation writes into the record when its transaction succeeded.
Recorded(tx) ==
    CASE tx.op = "create" -> [records EXCEPT ![tx.target] = "active"]
      [] tx.op # "create" /\ records[tx.target] # NoRecord ->
           [records EXCEPT ![tx.target] = "inactive"]
      [] OTHER -> records

\* One poll: the terminal status, none yet, or a failed request.
PollTx ==
    /\ Now("poll")
    /\ \/ /\ lifecycle.polls < LifecyclePolls
          /\ \E t \in landed :
               /\ t.tx = Tx
               /\ IF t.ok THEN Reply("success") /\ records' = Recorded(Tx)
                  ELSE Reply("failed") /\ UNCHANGED records
       \/ /\ lifecycle.polls < LifecyclePolls
          /\ lifecycle' = [lifecycle EXCEPT !.polls = @ + 1]
          /\ UNCHANGED <<asked, replies, records>>
       \/ /\ lifecycle.polls < LifecyclePolls
          /\ Reply("error") /\ UNCHANGED records
       \/ /\ lifecycle.polls = LifecyclePolls
          /\ Reply("timeout") /\ UNCHANGED records
    /\ UNCHANGED ledgerVars

-----------------------------------------------------------------------------

\* Account creation, the end of a sponsorship (the account must hold its own
\* reserve) and the merge, in the ledger.
Valid(tx) ==
    CASE tx.op = "create" -> account[tx.target] = "missing"
      [] tx.op = "revoke" -> account[tx.target] = "sponsored and funded"
      [] tx.op = "close"  -> account[tx.target] # "missing"

After(tx) ==
    CASE tx.op = "create" -> "sponsored"
      [] tx.op = "revoke" -> "funded"
      [] tx.op = "close"  -> "missing"

LedgerExecutes(tx) ==
    /\ pendingTxs' = pendingTxs \ {tx}
    /\ sponsorSeq' = tx.seq
    /\ landed' = landed \cup {[tx |-> tx, ok |-> Valid(tx)]}
    /\ account' = IF Valid(tx) THEN [account EXCEPT ![tx.target] = After(tx)]
                  ELSE account
    /\ UNCHANGED serviceVars

DropTx(tx) ==
    /\ pendingTxs' = pendingTxs \ {tx}
    /\ UNCHANGED <<serviceVars, account, sponsorSeq, landed>>

\* Somebody pays into a sponsored account.
Fund(a) ==
    /\ account[a] = "sponsored"
    /\ account' = [account EXCEPT ![a] = "sponsored and funded"]
    /\ UNCHANGED <<serviceVars, sponsorSeq, pendingTxs, landed>>

ServiceStep == Ensure \/ LoadSponsor \/ SendTx \/ CheckTx \/ PollTx

SponsorNext ==
    \/ \E op \in Operations, a \in Targets : AskFor(op, a)
    \/ ServiceStep
    \/ \E tx \in pendingTxs : LedgerExecutes(tx) \/ DropTx(tx)
    \/ \E a \in Targets : Fund(a)

SponsorSpec == SponsorInit /\ [][SponsorNext]_sponsorVars

-----------------------------------------------------------------------------

\* A lifecycle of a that got as far as a transaction and ended without
\* learning its fate.
Unsure(a) ==
  \E i \in DOMAIN replies :
    /\ replies[i].target = a /\ replies[i].result \in {"error", "timeout"}
    /\ replies[i].tx # 0

Sponsored(a) == account[a] \in {"sponsored", "sponsored and funded"}

(***************************************************************************)
(* Between lifecycles the records say which accounts the service sponsors, *)
(* except for accounts with a lifecycle whose outcome was never learnt.    *)
(***************************************************************************)
RecordsMatchLedger ==
    lifecycle.at = "rest" =>
      \A a \in Targets : ~Unsure(a) => (records[a] = "active" <=> Sponsored(a))
=============================================================================
