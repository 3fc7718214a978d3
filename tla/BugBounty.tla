----------------------------- MODULE BugBounty ------------------------------
(***************************************************************************)
(* contracts/bug_bounty_oracle: a sponsor locks a bounty, hunters submit   *)
(* payloads by their hashes, and the bounty goes to the one submission its *)
(* verifier accepts, or back to the sponsor.  One invocation is one step;  *)
(* bounties and submissions are numbered from 1.                           *)
(***************************************************************************)
EXTENDS Totals, Sequences

CONSTANTS
    Participants,      \* sponsors, verifiers and hunters: any account in any role
    Tokens, Rewards, Payloads, Deadlines,
    NoWinner,
    MaxBounties,       \* bound: bounties
    MaxSubmissions,    \* bound: submissions
    LastLedger         \* bound: ledgers

\* What the theorems about this module assume of its constants.
SoundBounties ==
    /\ Rewards \subseteq Int /\ Deadlines \subseteq Nat
    /\ MaxBounties \in Nat /\ MaxSubmissions \in Nat

VARIABLES
    ledgerSeq, bounties, submissions,
    balance,     \* the contract's balance of each token
    received     \* history: received[bounty][account], what the bounty paid out

bountyVars == <<ledgerSeq, bounties, submissions, balance, received>>

BountyStatus == {"Open", "Paid", "Expired", "Cancelled"}
SubmissionStatus == {"Pending", "Accepted", "Rejected"}

BountyIds == 1..MaxBounties
IsBounty(b) == b \in 1..Len(bounties)
IsOpen(b) == IsBounty(b) /\ bounties[b].status = "Open"

BountyInit ==
    /\ ledgerSeq = 0 /\ bounties = <<>> /\ submissions = <<>>
    /\ balance = [t \in Tokens |-> 0]
    /\ received = [b \in BountyIds |-> [a \in Participants |-> 0]]

CreateBounty(sponsor, token, amount, verifier, deadline) ==
    /\ Len(bounties) < MaxBounties
    /\ amount > 0 /\ deadline > ledgerSeq
    /\ balance' = [balance EXCEPT ![token] = @ + amount]
    /\ bounties' = Append(bounties,
         [sponsor |-> sponsor, token |-> token, amount |-> amount, verifier |-> verifier,
          deadline |-> deadline, status |-> "Open", winner |-> NoWinner, count |-> 0])
    /\ UNCHANGED <<ledgerSeq, submissions, received>>

\* The index of payloads holds what was ever submitted to the bounty.
IsDuplicate(b, payload) ==
    \E s \in 1..Len(submissions) : submissions[s].bounty = b /\ submissions[s].payload = payload

SubmitPayload(hunter, b, payload) ==
    /\ Len(submissions) < MaxSubmissions
    /\ IsOpen(b) /\ ledgerSeq <= bounties[b].deadline /\ ~IsDuplicate(b, payload)
    /\ submissions' = Append(submissions,
         [bounty |-> b, hunter |-> hunter, payload |-> payload, status |-> "Pending"])
    /\ bounties' = [bounties EXCEPT ![b].count = @ + 1]
    /\ UNCHANGED <<ledgerSeq, balance, received>>

IsPendingOf(s, b) ==
    s \in 1..Len(submissions) /\ submissions[s].bounty = b /\ submissions[s].status = "Pending"

PayBounty(b, to) ==
    /\ balance' = [balance EXCEPT ![bounties[b].token] = @ - bounties[b].amount]
    /\ received' = [received EXCEPT ![b][to] = @ + bounties[b].amount]

MutantAcceptSubmission(verifier, b, s) ==
    /\ IsBounty(b) /\ bounties[b].verifier = verifier /\ IsPendingOf(s, b)
    /\ PayBounty(b, submissions[s].hunter)
    /\ submissions' = [submissions EXCEPT ![s].status = "Accepted"]
    /\ bounties' = [bounties EXCEPT ![b].status = "Paid", ![b].winner = s]
    /\ UNCHANGED ledgerSeq
\* The verifier may accept after the deadline, while nobody closed the bounty.
AcceptSubmission(verifier, b, s) ==
    /\ IsOpen(b) /\ bounties[b].verifier = verifier /\ IsPendingOf(s, b)
    /\ PayBounty(b, submissions[s].hunter)
    /\ submissions' = [submissions EXCEPT ![s].status = "Accepted"]
    /\ bounties' = [bounties EXCEPT ![b].status = "Paid", ![b].winner = s]
    /\ UNCHANGED ledgerSeq

\* Whatever became of the bounty.
RejectSubmission(verifier, b, s) ==
    /\ IsBounty(b) /\ bounties[b].verifier = verifier /\ IsPendingOf(s, b)
    /\ submissions' = [submissions EXCEPT ![s].status = "Rejected"]
    /\ UNCHANGED <<ledgerSeq, bounties, balance, received>>

MutantCloseExpired(b) == FALSE
CloseExpired(b) ==
    /\ IsOpen(b) /\ ledgerSeq > bounties[b].deadline
    /\ PayBounty(b, bounties[b].sponsor)
    /\ bounties' = [bounties EXCEPT ![b].status = "Expired"]
    /\ UNCHANGED <<ledgerSeq, submissions>>

CancelBounty(sponsor, b) ==
    /\ IsOpen(b) /\ bounties[b].sponsor = sponsor /\ bounties[b].count = 0
    /\ PayBounty(b, sponsor)
    /\ bounties' = [bounties EXCEPT ![b].status = "Cancelled"]
    /\ UNCHANGED <<ledgerSeq, submissions>>

LedgerCloses ==
    /\ ledgerSeq < LastLedger /\ ledgerSeq' = ledgerSeq + 1
    /\ UNCHANGED <<bounties, submissions, balance, received>>

BountyNext ==
    \/ \E sponsor, verifier \in Participants, token \in Tokens, amount \in Rewards,
          deadline \in Deadlines : CreateBounty(sponsor, token, amount, verifier, deadline)
    \/ \E b \in BountyIds, a \in Participants :
         \/ \E payload \in Payloads : SubmitPayload(a, b, payload)
         \/ \E s \in 1..MaxSubmissions : AcceptSubmission(a, b, s) \/ RejectSubmission(a, b, s)
         \/ CancelBounty(a, b)
    \/ \E b \in BountyIds : CloseExpired(b)
    \/ LedgerCloses

BountySpec == BountyInit /\ [][BountyNext]_bountyVars

-----------------------------------------------------------------------------

Bounty ==
    [sponsor : Participants, token : Tokens, amount : Nat \ {0}, verifier : Participants,
     deadline : Nat, status : BountyStatus, winner : Nat \cup {NoWinner}, count : Nat]
Submission ==
    [bounty : Nat, hunter : Participants, payload : Payloads, status : SubmissionStatus]

(* Records are complete, balances never negative.                          *)
BountyTypeOK ==
    /\ ledgerSeq \in Nat
    /\ bounties \in Seq(Bounty) /\ Len(bounties) <= MaxBounties
    /\ submissions \in Seq(Submission) /\ Len(submissions) <= MaxSubmissions
    /\ balance \in [Tokens -> Nat]
    /\ received \in [BountyIds -> [Participants -> Nat]]

PromisedIn(t) ==
    [b \in BountyIds |-> IF IsOpen(b) /\ bounties[b].token = t THEN bounties[b].amount ELSE 0]

(* The balance of each token is what the open bounties in it promise: none *)
(* is paid with another's money, in whatever order they are accepted,      *)
(* cancelled and closed.                                                   *)
Funded == \A t \in Tokens : balance[t] = Total(PromisedIn(t))

BountyPayee(b) ==
    IF bounties[b].status = "Paid" THEN submissions[bounties[b].winner].hunter
    ELSE bounties[b].sponsor

(* A bounty pays its amount once, when it ends: to the hunter of the       *)
(* submission that won, or back to its sponsor.                            *)
BountyPaidOnce ==
    \A b \in BountyIds : \A a \in Participants :
        received[b][a] = IF IsBounty(b) /\ ~IsOpen(b) /\ a = BountyPayee(b)
                         THEN bounties[b].amount ELSE 0

(* Exactly the winner of a paid bounty is accepted, it was submitted to    *)
(* that bounty, and a bounty that has submissions was not cancelled.       *)
OneWinner ==
    /\ \A s \in 1..Len(submissions) :
         /\ IsBounty(submissions[s].bounty)
         /\ bounties[submissions[s].bounty].count > 0
         /\ submissions[s].status = "Accepted"
              => LET b == bounties[submissions[s].bounty]
                 IN b.status = "Paid" /\ b.winner = s
    /\ \A b \in 1..Len(bounties) :
         /\ bounties[b].status = "Paid" =>
              /\ bounties[b].winner \in 1..Len(submissions)
              /\ submissions[bounties[b].winner].bounty = b
              /\ submissions[bounties[b].winner].status = "Accepted"
         /\ bounties[b].status = "Cancelled" => bounties[b].count = 0

(* A bounty that stays unpaid goes back to its sponsor in the end.         *)
EveryBountyEnds == \A b \in BountyIds : IsOpen(b) ~> ~IsOpen(b)
=============================================================================
