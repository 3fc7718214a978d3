------------------------------- MODULE Escrow -------------------------------
(***************************************************************************)
(* contracts/escrow: a requester locks the pay of a job, a worker accepts  *)
(* and delivers it, and the pay is released, refunded or ruled on by an    *)
(* arbiter.  Each invocation is one atomic step; job tokens are one token. *)
(***************************************************************************)
EXTENDS Totals, Sequences

CONSTANTS
  Accounts, None,
  Amounts,          \* the pays a job may have
  Durations,        \* ledgers from a job's creation to its deadline
  DisputeTimeout,   \* DISPUTE_TIMEOUT_LEDGERS
  MaxJobs,          \* bound: jobs
  MaxCreated        \* bound: last ledger in which a job is created or disputed

\* What the theorems about this module assume of its constants.
SoundConstants ==
  /\ None \notin Accounts /\ None \notin Nat
  /\ Amounts \subseteq Int /\ Durations \subseteq Int
  /\ MaxJobs \in Nat /\ MaxCreated \in Nat /\ DisputeTimeout \in Nat

VARIABLES
  ledger,
  paused,     \* what the circuit breaker's is_paused answers
  jobs,
  custody,    \* the contract's token balance
  payouts     \* history: the transfers out, each [job, to, amount, how]

vars == <<ledger, paused, jobs, custody, payouts>>

JobStatus == {"Open", "InProgress", "PendingRelease", "Completed", "Refunded",
              "Disputed"}
Terminal == {"Completed", "Refunded"}

\* Nothing happens in a job after its deadline and its dispute are over.
LastHeight == MaxCreated + DisputeTimeout + 1
Ledgers == 1..LastHeight

Job ==
  [requester : Accounts, worker : Accounts \cup {None},
   arbiter : Accounts \cup {None}, amount : Nat \ {0},
   deadline : Ledgers,
   dispute : Ledgers \cup {None}, delivered : BOOLEAN, status : JobStatus]

JobIds == 1..Len(jobs)

Init ==
  /\ ledger = 1
  /\ paused = FALSE
  /\ jobs = <<>>
  /\ custody = 0
  /\ payouts = <<>>

-----------------------------------------------------------------------------
CreateJob(requester, amount, deadline, arbiter) ==
  /\ Len(jobs) < MaxJobs
  /\ amount > 0
  /\ deadline > ledger
  /\ jobs' = Append(jobs,
       [requester |-> requester, worker |-> None, arbiter |-> arbiter,
        amount |-> amount, deadline |-> deadline, dispute |-> None,
        delivered |-> FALSE, status |-> "Open"])
  /\ custody' = custody + amount
  /\ UNCHANGED <<ledger, paused, payouts>>

AcceptJob(j, worker) ==
  /\ jobs[j].status = "Open"
  /\ ledger < jobs[j].deadline
  /\ jobs' = [jobs EXCEPT ![j].worker = worker, ![j].status = "InProgress"]
  /\ UNCHANGED <<ledger, paused, custody, payouts>>

SubmitResult(j, worker) ==
  /\ jobs[j].status = "InProgress"
  /\ jobs[j].worker = worker
  /\ jobs' = [jobs EXCEPT ![j].delivered = TRUE, ![j].status = "PendingRelease"]
  /\ UNCHANGED <<ledger, paused, custody, payouts>>

PayOut(j, to, how, status) ==
  /\ custody >= jobs[j].amount
  /\ custody' = custody - jobs[j].amount
  /\ payouts' = Append(payouts,
       [job |-> j, to |-> to, amount |-> jobs[j].amount, how |-> how])
  /\ jobs' = [jobs EXCEPT ![j].status = status]
  /\ UNCHANGED <<ledger, paused>>

Release(j, releaser) ==
  /\ ~paused
  /\ jobs[j].status = "PendingRelease"
  /\ jobs[j].requester = releaser
  /\ PayOut(j, jobs[j].worker, "release", "Completed")

MutantMayRefund(j) == ledger >= jobs[j].deadline

\* An open job at once, a dispute after its timeout, others after the
\* deadline.
MayRefund(j) ==
  LET job == jobs[j]
  IN IF job.status = "Disputed" THEN ledger > job.dispute
     ELSE /\ job.status \in {"Open", "InProgress", "PendingRelease"}
          /\ ledger >= job.deadline \/ job.status = "Open"

\* Stopped by a pause.
MutantRefund(j, requester) ==
  /\ ~paused
  /\ jobs[j].requester = requester
  /\ MayRefund(j)
  /\ PayOut(j, requester, "refund", "Refunded")

\* Not stopped by a pause.
Refund(j, requester) ==
  /\ jobs[j].requester = requester
  /\ MayRefund(j)
  /\ PayOut(j, requester, "refund", "Refunded")

Dispute(j, requester) ==
  /\ ledger <= MaxCreated
  /\ jobs[j].requester = requester
  /\ jobs[j].arbiter # None
  /\ jobs[j].status = "PendingRelease"
  /\ jobs' = [jobs EXCEPT ![j].status = "Disputed",
                          ![j].dispute = ledger + DisputeTimeout]
  /\ UNCHANGED <<ledger, paused, custody, payouts>>

ResolveDispute(j, arbiter, favorWorker) ==
  /\ ~paused
  /\ jobs[j].status = "Disputed"
  /\ jobs[j].arbiter = arbiter
  /\ IF favorWorker
     THEN PayOut(j, jobs[j].worker, "ruling", "Completed")
     ELSE PayOut(j, jobs[j].requester, "ruling", "Refunded")

\* require_not_paused: the circuit breaker answers differently from now on.
SetPaused(b) ==
  /\ paused' = b
  /\ UNCHANGED <<ledger, jobs, custody, payouts>>

CloseLedger ==
  /\ ledger < LastHeight
  /\ ledger' = ledger + 1
  /\ UNCHANGED <<paused, jobs, custody, payouts>>

-----------------------------------------------------------------------------
Create ==
  \E requester \in Accounts, amount \in Amounts, d \in Durations,
     arbiter \in Accounts \cup {None} :
    /\ ledger + d <= MaxCreated + 1
    /\ CreateJob(requester, amount, ledger + d, arbiter)

Work ==
  \E j \in JobIds, worker \in Accounts :
    AcceptJob(j, worker) \/ SubmitResult(j, worker)

Reclaim == \E j \in JobIds, a \in Accounts : Refund(j, a)

Settle ==
  \/ \E j \in JobIds, a \in Accounts : Release(j, a) \/ Dispute(j, a)
  \/ Reclaim
  \/ \E j \in JobIds, a \in Accounts, b \in BOOLEAN : ResolveDispute(j, a, b)

Next ==
  \/ Create \/ Work \/ Settle
  \/ \E b \in BOOLEAN : SetPaused(b)
  \/ CloseLedger

Spec == Init /\ [][Next]_vars

\* Ledgers close; a requester that may take its money back does so in the
\* end, if nothing else settled the job.
FairSpec == Spec /\ WF_vars(CloseLedger) /\ WF_vars(Reclaim)

-----------------------------------------------------------------------------
(* What the contract promises its requesters and workers.                  *)

Payout ==
  [job : Nat, to : Accounts, amount : Nat,
   how : {"release", "refund", "ruling"}]

(* Records are complete, and nothing is paid to nobody.                    *)
TypeOK ==
  /\ ledger \in Ledgers
  /\ paused \in BOOLEAN
  /\ jobs \in Seq(Job) /\ Len(jobs) <= MaxJobs
  /\ custody \in Nat
  /\ payouts \in Seq(Payout)

\* What each job keeps in the contract.
Locked ==
  [j \in 1..MaxJobs |->
     IF j \in JobIds /\ jobs[j].status \notin Terminal
     THEN jobs[j].amount ELSE 0]

(* The contract's balance is what the unsettled jobs locked: no sequence   *)
(* of refunds, releases, rulings and disputes of several jobs pays with    *)
(* another job's money.                                                    *)
Solvent == custody = Total(Locked)

PayoutsOf(j) == {k \in DOMAIN payouts : payouts[k].job = j}

(* Each job is paid once, in full, when it settles: to its requester when  *)
(* it ends Refunded, to its worker when it ends Completed, which takes a   *)
(* result.                                                                 *)
PaidOnce ==
  \A j \in JobIds :
    /\ Cardinality(PayoutsOf(j)) = IF jobs[j].status \in Terminal THEN 1 ELSE 0
    /\ \A k \in PayoutsOf(j) :
         /\ payouts[k].amount = jobs[j].amount
         /\ payouts[k].to = IF jobs[j].status = "Completed"
                            THEN jobs[j].worker ELSE jobs[j].requester
    /\ jobs[j].status = "Completed" => jobs[j].delivered

(* A worker that accepted in time keeps the job until the deadline, and a  *)
(* disputed one until the dispute ends: a refund the worker or the arbiter *)
(* did not see coming never happens before that (refund).                  *)
NoEarlyRefund ==
  [][\A j \in JobIds :
       /\ jobs[j].worker # None
       /\ jobs'[j].status = "Refunded" /\ jobs[j].status # "Refunded"
       => \/ jobs[j].dispute = None /\ ledger >= jobs[j].deadline
          \/ jobs[j].dispute # None /\ ledger > jobs[j].dispute
          \/ payouts'[Len(payouts')].how = "ruling"]_vars

IsUnsettled(j) == j \in JobIds /\ jobs[j].status \notin Terminal

(* No job stays open for ever, whether the system is paused, the worker    *)
(* silent or the arbiter absent: a requester can always end it (refund is  *)
(* not stopped by a pause and needs nobody else).                          *)
EveryJobSettles ==
  \A j \in 1..MaxJobs : IsUnsettled(j) ~> ~IsUnsettled(j)
=============================================================================
