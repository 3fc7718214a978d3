--------------------------- MODULE ContractProofs ---------------------------
(***************************************************************************)
(* The two contracts that hold rewards for work.  The escrow, for any      *)
(* accounts, pays, deadlines and number of jobs: the balance covers the    *)
(* unsettled jobs, each job is paid once and to whom it is due, and no     *)
(* refund comes early.  The bug bounty oracle, for any accounts, tokens    *)
(* and numbers of bounties and submissions: the balance covers the open    *)
(* bounties, and each is paid once and to whom it belongs.                 *)
(***************************************************************************)
EXTENDS Escrow, BugBounty, SequenceTheorems

-----------------------------------------------------------------------------
(* The escrow.                                                             *)

\* What the status of a job says of the rest of its record.
JobIsSound(job) ==
  /\ job.status = "Open" => job.worker = None
  /\ job.status \in {"InProgress", "PendingRelease", "Disputed", "Completed"}
       => job.worker # None
  /\ job.status \in {"PendingRelease", "Disputed", "Completed"}
       => job.delivered = TRUE
  /\ job.status = "Disputed" => job.dispute # None
  /\ job.dispute # None => job.status \in {"Disputed", "Completed", "Refunded"}

Payee(job) == IF job.status = "Completed" THEN job.worker ELSE job.requester

PaymentsAreSound ==
  /\ \A k \in 1..Len(payouts) :
       /\ payouts[k].job \in JobIds
       /\ jobs[payouts[k].job].status \in Terminal
       /\ payouts[k].amount = jobs[payouts[k].job].amount
       /\ payouts[k].to = Payee(jobs[payouts[k].job])
  /\ \A k, l \in 1..Len(payouts) : payouts[k].job = payouts[l].job => k = l
  /\ \A j \in JobIds : jobs[j].status \in Terminal =>
       \E k \in 1..Len(payouts) : payouts[k].job = j

Inv ==
  /\ TypeOK
  /\ Solvent
  /\ \A j \in JobIds : JobIsSound(jobs[j])
  /\ PaymentsAreSound

-----------------------------------------------------------------------------
(* Records.                                                                *)

LEMMA Lengths ==
  ASSUME SoundConstants, TypeOK
  PROVE  /\ Len(jobs) \in Nat /\ Len(jobs) <= MaxJobs
         /\ Len(payouts) \in Nat
         /\ JobIds \subseteq 1..MaxJobs
         /\ \A j \in JobIds : jobs[j] \in Job
<1>1. jobs \in Seq(Job) /\ payouts \in Seq(Payout)
  BY DEF TypeOK
<1>2. Len(jobs) \in Nat /\ Len(payouts) \in Nat /\ Len(jobs) <= MaxJobs
  BY <1>1, LenProperties DEF TypeOK
<1>3. \A j \in JobIds : jobs[j] \in Job
  BY <1>1, ElementOfSeq DEF JobIds
<1> QED
  BY <1>2, <1>3 DEF JobIds, SoundConstants

LEMMA StoreJob ==
  ASSUME TypeOK, NEW j \in JobIds, NEW new \in Job,
         jobs' = [jobs EXCEPT ![j] = new]
  PROVE  /\ jobs' \in Seq(Job)
         /\ Len(jobs') = Len(jobs)
         /\ jobs'[j] = new
         /\ \A i \in JobIds : i # j => jobs'[i] = jobs[i]
<1>1. jobs \in Seq(Job) /\ j \in 1..Len(jobs)
  BY DEF TypeOK, JobIds
<1> QED
  BY <1>1, ExceptSeq DEF JobIds

-----------------------------------------------------------------------------
(* The balance.                                                            *)

LEMMA LockedType ==
  ASSUME SoundConstants, TypeOK
  PROVE  Locked \in [1..MaxJobs -> Nat]
<1>1. \A j \in JobIds : jobs[j].amount \in Nat
  BY Lengths DEF Job
<1> QED
  BY <1>1 DEF Locked

(* What one job keeps in the contract changes, and the balance follows.    *)
LEMMA OneLock ==
  ASSUME SoundConstants, TypeOK, TypeOK', Solvent,
         NEW j \in 1..MaxJobs,
         custody' = custody - Locked[j] + Locked'[j],
         \A i \in 1..MaxJobs : i # j => Locked'[i] = Locked[i]
  PROVE  Solvent'
<1>1. PICK before \in [1..MaxJobs -> Nat] : before = Locked
  BY LockedType
<1>2. PICK after \in [1..MaxJobs -> Nat] : after = Locked'
  <2>1. \A i \in 1..Len(jobs') : jobs'[i].amount \in Nat
    <3>1. jobs' \in Seq(Job)
      BY DEF TypeOK
    <3>2. \A i \in 1..Len(jobs') : jobs'[i] \in Job
      BY <3>1, ElementOfSeq
    <3> QED
      BY <3>2 DEF Job
  <2>2. Locked' = [i \in 1..MaxJobs |->
          IF i \in 1..Len(jobs') /\ jobs'[i].status \notin Terminal
          THEN jobs'[i].amount ELSE 0]
    BY DEF Locked, JobIds
  <2>3. Locked' \in [1..MaxJobs -> Nat]
    BY <2>1, <2>2
  <2> QED
    BY <2>3
<1>3. IsFiniteSet(1..MaxJobs)
  BY FS_Interval DEF SoundConstants
<1>4. \A i \in (1..MaxJobs) \ {j} : after[i] = before[i]
  BY <1>1, <1>2
<1>5. Total(after) = Total(before) - before[j] + after[j]
  BY <1>3, <1>4, TotalUpdate
<1>6. custody = Total(before)
  BY <1>1 DEF Solvent
<1>7. custody' = Total(after)
  BY <1>1, <1>2, <1>5, <1>6
<1> QED
  BY <1>2, <1>7 DEF Solvent

\* What is locked for a job, told from its record.
LEMMA LockedIn ==
  ASSUME SoundConstants, TypeOK, NEW j \in JobIds
  PROVE  Locked[j] = IF jobs[j].status \in Terminal THEN 0 ELSE jobs[j].amount
BY Lengths DEF Locked

-----------------------------------------------------------------------------
(* A job that is not settled, before and after the step.                   *)
LEMMA JobMoves ==
  ASSUME SoundConstants, Inv, NEW j \in JobIds, NEW new \in Job,
         jobs' = [jobs EXCEPT ![j] = new],
         UNCHANGED <<ledger, paused, custody, payouts>>,
         JobIsSound(new), new.amount = jobs[j].amount,
         jobs[j].status \notin Terminal, new.status \notin Terminal
  PROVE  Inv'
<1>1. /\ jobs' \in Seq(Job) /\ Len(jobs') = Len(jobs) /\ jobs'[j] = new
      /\ \A i \in JobIds : i # j => jobs'[i] = jobs[i]
      /\ JobIds' = JobIds
  BY StoreJob DEF Inv, JobIds
<1>2. TypeOK'
  BY <1>1 DEF Inv, TypeOK
<1>3. Solvent'
  <2>1. Locked' = Locked
    BY <1>1 DEF Locked
  <2> QED
    BY <2>1 DEF Inv, Solvent
<1>4. (\A i \in JobIds : JobIsSound(jobs[i]))'
  BY <1>1 DEF Inv
<1>5. \A k \in 1..Len(payouts) :
        payouts[k].job \in JobIds /\ payouts[k].job # j
  BY DEF Inv, PaymentsAreSound
<1>6. PaymentsAreSound'
  <2>1. payouts' = payouts
    OBVIOUS
  <2>2. \A k \in 1..Len(payouts) : jobs'[payouts[k].job] = jobs[payouts[k].job]
    BY <1>1, <1>5
  <2>3. \A i \in JobIds : jobs'[i].status \in Terminal => jobs[i].status \in Terminal
    BY <1>1
  <2> QED
    BY <1>1, <2>1, <2>2, <2>3 DEF Inv, PaymentsAreSound
<1> QED
  BY <1>2, <1>3, <1>4, <1>6 DEF Inv

LEMMA AcceptJobInv ==
  ASSUME SoundConstants, Inv, NEW j \in JobIds, NEW worker \in Accounts,
         AcceptJob(j, worker)
  PROVE  Inv'
<1> DEFINE new == [jobs[j] EXCEPT !.worker = worker, !.status = "InProgress"]
<1>1. jobs[j] \in Job /\ JobIsSound(jobs[j]) /\ jobs[j].status = "Open"
  BY Lengths DEF Inv, AcceptJob
<1>2. /\ new \in Job /\ new.amount = jobs[j].amount
      /\ new.status = "InProgress" /\ new.worker = worker
      /\ new.dispute = jobs[j].dispute
  BY <1>1 DEF Job, JobStatus
<1>3. /\ jobs' = [jobs EXCEPT ![j] = new]
      /\ UNCHANGED <<ledger, paused, custody, payouts>>
  BY DEF AcceptJob
<1> HIDE DEF new
<1>4. JobIsSound(new)
  BY <1>1, <1>2 DEF JobIsSound, SoundConstants
<1> QED
  BY <1>1, <1>2, <1>3, <1>4, JobMoves DEF Terminal

LEMMA SubmitResultInv ==
  ASSUME SoundConstants, Inv, NEW j \in JobIds, NEW worker \in Accounts,
         SubmitResult(j, worker)
  PROVE  Inv'
<1> DEFINE new == [jobs[j] EXCEPT !.delivered = TRUE, !.status = "PendingRelease"]
<1>1. jobs[j] \in Job /\ JobIsSound(jobs[j]) /\ jobs[j].status = "InProgress"
  BY Lengths DEF Inv, SubmitResult
<1>2. /\ new \in Job /\ new.amount = jobs[j].amount
      /\ new.status = "PendingRelease" /\ new.worker = jobs[j].worker
      /\ new.dispute = jobs[j].dispute /\ new.delivered = TRUE
  BY <1>1 DEF Job, JobStatus
<1>3. /\ jobs' = [jobs EXCEPT ![j] = new]
      /\ UNCHANGED <<ledger, paused, custody, payouts>>
  BY DEF SubmitResult
<1> HIDE DEF new
<1>4. JobIsSound(new)
  BY <1>1, <1>2 DEF JobIsSound
<1> QED
  BY <1>1, <1>2, <1>3, <1>4, JobMoves DEF Terminal

LEMMA DisputeInv ==
  ASSUME SoundConstants, Inv, NEW j \in JobIds, NEW requester \in Accounts,
         Dispute(j, requester)
  PROVE  Inv'
<1> DEFINE until == ledger + DisputeTimeout
           new == [jobs[j] EXCEPT !.status = "Disputed", !.dispute = until]
<1>1. jobs[j] \in Job /\ JobIsSound(jobs[j]) /\ jobs[j].status = "PendingRelease"
  BY Lengths DEF Inv, Dispute
<1>2. until \in Ledgers /\ until # None
  BY DEF Inv, TypeOK, Dispute, Ledgers, LastHeight, SoundConstants
<1>3. /\ jobs' = [jobs EXCEPT ![j] = new]
      /\ UNCHANGED <<ledger, paused, custody, payouts>>
  BY DEF Dispute
<1> HIDE DEF until
<1>4. /\ new \in Job /\ new.amount = jobs[j].amount
      /\ new.status = "Disputed" /\ new.worker = jobs[j].worker
      /\ new.dispute = until /\ new.delivered = jobs[j].delivered
  BY <1>1, <1>2 DEF Job, JobStatus
<1> HIDE DEF new
<1>5. JobIsSound(new)
  BY <1>1, <1>2, <1>4 DEF JobIsSound
<1> QED
  BY <1>1, <1>3, <1>4, <1>5, JobMoves DEF Terminal

-----------------------------------------------------------------------------
LEMMA CreateJobInv ==
  ASSUME SoundConstants, Inv, NEW requester \in Accounts,
         NEW amount \in Amounts, NEW d \in Durations,
         NEW arbiter \in Accounts \cup {None},
         ledger + d <= MaxCreated + 1, ledger + d \in Int,
         CreateJob(requester, amount, ledger + d, arbiter)
  PROVE  Inv'
<1> DEFINE new == [requester |-> requester, worker |-> None,
                   arbiter |-> arbiter, amount |-> amount,
                   deadline |-> ledger + d, dispute |-> None,
                   delivered |-> FALSE, status |-> "Open"]
           n == Len(jobs) + 1
<1>1. /\ Len(jobs) < MaxJobs /\ amount > 0 /\ ledger + d > ledger
      /\ jobs' = Append(jobs, new)
      /\ custody' = custody + amount
      /\ UNCHANGED <<ledger, paused, payouts>>
  BY DEF CreateJob
<1>2. amount \in Nat \ {0} /\ amount \in Int
  BY <1>1 DEF SoundConstants
<1>3. ledger + d \in Ledgers
  <2>1. ledger \in 1..(MaxCreated + DisputeTimeout + 1)
    BY DEF Inv, TypeOK, Ledgers, LastHeight
  <2>2. MaxCreated \in Nat /\ DisputeTimeout \in Nat
    BY DEF SoundConstants
  <2> QED
    BY <1>1, <2>1, <2>2 DEF Ledgers, LastHeight
<1>4. new \in Job /\ new.status = "Open" /\ new.amount = amount
  BY <1>2, <1>3 DEF Job, JobStatus
<1>5. JobIsSound(new)
  BY DEF JobIsSound
<1> HIDE DEF new
<1>6. /\ Len(jobs) \in Nat /\ MaxJobs \in Nat
      /\ jobs \in Seq(Job)
  BY Lengths DEF SoundConstants, Inv, TypeOK
<1>7. PICK m \in 1..MaxJobs : m = n /\ m \notin JobIds
  BY <1>1, <1>6 DEF JobIds
<1>8. /\ jobs' \in Seq(Job) /\ Len(jobs') = m
      /\ jobs'[m] = new
      /\ \A i \in JobIds : jobs'[i] = jobs[i]
      /\ JobIds' = JobIds \cup {m}
  <2>1. jobs' \in Seq(Job)
    BY <1>1, <1>4, <1>6, AppendProperties
  <2>2. Len(jobs') = m
    BY <1>1, <1>4, <1>6, <1>7, AppendProperties
  <2>3. jobs'[m] = new /\ \A i \in 1..Len(jobs) : jobs'[i] = jobs[i]
    BY <1>1, <1>4, <1>6, <1>7, AppendProperties
  <2> QED
    BY <1>6, <1>7, <2>1, <2>2, <2>3 DEF JobIds
<1>9. TypeOK'
  <2>1. Len(jobs') <= MaxJobs
    BY <1>7, <1>8
  <2>2. custody' \in Nat
    BY <1>1, <1>2 DEF Inv, TypeOK
  <2> QED
    BY <1>1, <1>8, <2>1, <2>2 DEF Inv, TypeOK
<1>10. Solvent'
  <2>1. Locked[m] = 0
    BY <1>7 DEF Locked
  <2>2. Locked'[m] = amount
    BY <1>4, <1>8 DEF Locked, Terminal
  <2>3. \A i \in 1..MaxJobs : i # m => Locked'[i] = Locked[i]
    BY <1>8 DEF Locked
  <2>4. custody \in Nat
    BY DEF Inv, TypeOK
  <2>5. custody' = custody - Locked[m] + Locked'[m]
    BY <1>1, <1>2, <2>1, <2>2, <2>4
  <2> QED
    BY <1>9, <2>3, <2>5, OneLock DEF Inv
<1>11. (\A j \in JobIds : JobIsSound(jobs[j]))'
  BY <1>5, <1>8 DEF Inv
<1>12. PaymentsAreSound'
  <2>1. payouts' = payouts
    BY <1>1
  <2>2. \A k \in 1..Len(payouts) :
          /\ payouts[k].job \in JobIds
          /\ jobs'[payouts[k].job] = jobs[payouts[k].job]
    BY <1>8 DEF Inv, PaymentsAreSound
  <2>3. \A j \in JobIds' : jobs'[j].status \in Terminal =>
          j \in JobIds /\ jobs[j].status \in Terminal
    BY <1>4, <1>8 DEF Terminal
  <2> QED
    BY <1>8, <2>1, <2>2, <2>3 DEF Inv, PaymentsAreSound
<1> QED
  BY <1>9, <1>10, <1>11, <1>12 DEF Inv

(* A job that settles: its pay leaves the balance, once.                   *)
LEMMA PayOutInv ==
  ASSUME SoundConstants, Inv, NEW j \in JobIds, NEW to \in Accounts,
         NEW how \in {"release", "refund", "ruling"}, NEW status \in Terminal,
         jobs[j].status \notin Terminal,
         PayOut(j, to, how, status),
         to = IF status = "Completed" THEN jobs[j].worker
              ELSE jobs[j].requester,
         status = "Completed" => jobs[j].delivered = TRUE
  PROVE  /\ Inv'
         /\ payouts'[Len(payouts')].how = how
         /\ jobs'[j].status = status
         /\ \A i \in JobIds : i # j => jobs'[i] = jobs[i]
<1> DEFINE new == [jobs[j] EXCEPT !.status = status]
           pay == [job |-> j, to |-> to, amount |-> jobs[j].amount, how |-> how]
<1>1. jobs[j] \in Job /\ JobIsSound(jobs[j])
  BY Lengths DEF Inv
<1>2. PICK n \in Nat \ {0} : n = jobs[j].amount
  BY <1>1 DEF Job
<1>3. /\ custody >= n
      /\ custody' = custody - n
      /\ payouts' = Append(payouts, pay)
      /\ jobs' = [jobs EXCEPT ![j] = new]
      /\ UNCHANGED <<ledger, paused>>
  BY <1>2 DEF PayOut
<1>4. /\ new \in Job /\ new.status = status /\ new.amount = n
      /\ new.worker = jobs[j].worker /\ new.requester = jobs[j].requester
      /\ new.dispute = jobs[j].dispute /\ new.delivered = jobs[j].delivered
  BY <1>1, <1>2 DEF Job, JobStatus, Terminal
<1>5. /\ pay \in Payout /\ pay.job = j /\ pay.to = to /\ pay.amount = n
      /\ pay.how = how
  BY <1>2 DEF Payout, JobIds
<1> HIDE DEF new, pay
<1>6. JobIsSound(new)
  <2>1. status = "Completed" => jobs[j].worker # None
    BY DEF SoundConstants
  <2> QED
    BY <1>1, <1>4, <2>1 DEF JobIsSound, Terminal
<1>7. /\ jobs' \in Seq(Job) /\ Len(jobs') = Len(jobs) /\ jobs'[j] = new
      /\ \A i \in JobIds : i # j => jobs'[i] = jobs[i]
      /\ JobIds' = JobIds
  BY <1>3, <1>4, StoreJob DEF Inv, JobIds
<1>8. payouts \in Seq(Payout) /\ Len(payouts) \in Nat
  BY Lengths DEF Inv, TypeOK
<1>9. PICK last \in Nat : last = Len(payouts) + 1
  BY <1>8
<1>10. /\ payouts' \in Seq(Payout) /\ Len(payouts') = last
       /\ payouts'[last] = pay
       /\ \A k \in 1..Len(payouts) : payouts'[k] = payouts[k]
  BY <1>3, <1>5, <1>8, <1>9, AppendProperties
<1>11. TypeOK'
  <2>1. custody' \in Nat
    BY <1>3 DEF Inv, TypeOK
  <2> QED
    BY <1>3, <1>7, <1>10, <2>1 DEF Inv, TypeOK
<1>12. Solvent'
  <2>1. j \in 1..MaxJobs
    BY Lengths DEF Inv
  <2>2. Locked[j] = n
    BY <1>2, LockedIn DEF Inv
  <2>3. Locked'[j] = 0
    BY <1>4, <1>7, <2>1 DEF Locked
  <2>4. \A i \in 1..MaxJobs : i # j => Locked'[i] = Locked[i]
    BY <1>7 DEF Locked
  <2>5. custody' = custody - Locked[j] + Locked'[j]
    BY <1>3, <2>2, <2>3 DEF Inv, TypeOK
  <2> QED
    BY <1>11, <2>1, <2>4, <2>5, OneLock DEF Inv
<1>13. (\A i \in JobIds : JobIsSound(jobs[i]))'
  BY <1>6, <1>7 DEF Inv
<1>14. PaymentsAreSound'
  <2>1. \A k \in 1..Len(payouts) :
          /\ payouts[k].job \in JobIds /\ payouts[k].job # j
          /\ jobs'[payouts[k].job] = jobs[payouts[k].job]
    BY <1>7 DEF Inv, PaymentsAreSound
  <2>2. \A k \in 1..last : k \in 1..Len(payouts) \/ k = last
    BY <1>8, <1>9
  <2>3. ASSUME NEW k \in 1..last
        PROVE  /\ payouts'[k].job \in JobIds
               /\ jobs'[payouts'[k].job].status \in Terminal
               /\ payouts'[k].amount = jobs'[payouts'[k].job].amount
               /\ payouts'[k].to = Payee(jobs'[payouts'[k].job])
    <3>1. CASE k \in 1..Len(payouts)
      BY <1>10, <2>1, <3>1 DEF Inv, PaymentsAreSound
    <3>2. CASE k = last
      BY <1>4, <1>5, <1>7, <1>10, <3>2 DEF Payee
    <3> QED
      BY <2>2, <3>1, <3>2
  <2>4. ASSUME NEW k \in 1..last, NEW l \in 1..last,
               payouts'[k].job = payouts'[l].job
        PROVE  k = l
    BY <1>5, <1>10, <2>1, <2>2, <2>4 DEF Inv, PaymentsAreSound
  <2>5. ASSUME NEW i \in JobIds, jobs'[i].status \in Terminal
        PROVE  \E k \in 1..last : payouts'[k].job = i
    <3>1. CASE i = j
      <4>1. last \in 1..last
        BY <1>8, <1>9
      <4> QED
        BY <1>5, <1>10, <3>1, <4>1
    <3>2. CASE i # j
      <4>1. PICK k \in 1..Len(payouts) : payouts[k].job = i
        BY <1>7, <2>5, <3>2 DEF Inv, PaymentsAreSound
      <4>2. k \in 1..last
        BY <1>8, <1>9
      <4> QED
        BY <1>10, <4>1, <4>2
    <3> QED
      BY <3>1, <3>2
  <2> QED
    BY <1>7, <1>10, <2>3, <2>4, <2>5 DEF PaymentsAreSound
<1> QED
  BY <1>4, <1>5, <1>7, <1>10, <1>11, <1>12, <1>13, <1>14 DEF Inv

\* A refund that the worker of the job did not see coming.
Surprising(j) ==
  /\ jobs[j].worker # None
  /\ jobs'[j].status = "Refunded" /\ jobs[j].status # "Refunded"
  /\ ~(jobs[j].dispute = None /\ ledger >= jobs[j].deadline)
  /\ ~(jobs[j].dispute # None /\ ledger > jobs[j].dispute)
  /\ payouts'[Len(payouts)'].how # "ruling"

NoSurprise == \A j \in JobIds : ~Surprising(j)

LEMMA ReleaseInv ==
  ASSUME SoundConstants, Inv, NEW j \in JobIds, NEW a \in Accounts,
         Release(j, a)
  PROVE  Inv' /\ NoSurprise
<1>1. /\ jobs[j] \in Job /\ JobIsSound(jobs[j])
      /\ jobs[j].status = "PendingRelease"
      /\ PayOut(j, jobs[j].worker, "release", "Completed")
  BY Lengths DEF Inv, Release
<1>2. PICK worker \in Accounts : worker = jobs[j].worker
  BY <1>1 DEF JobIsSound, Job
<1>3. /\ jobs[j].status \notin Terminal /\ "Completed" \in Terminal
      /\ jobs[j].delivered = TRUE
  BY <1>1 DEF JobIsSound, Terminal
<1>4. PayOut(j, worker, "release", "Completed")
  BY <1>1, <1>2
<1>5. /\ Inv' /\ jobs'[j].status = "Completed"
      /\ \A i \in JobIds : i # j => jobs'[i] = jobs[i]
  BY <1>2, <1>3, <1>4, PayOutInv
<1>6. \A i \in JobIds : jobs'[i].status = "Refunded" => jobs[i].status = "Refunded"
  BY <1>5
<1> QED
  BY <1>5, <1>6 DEF NoSurprise, Surprising

LEMMA RefundInv ==
  ASSUME SoundConstants, Inv, NEW j \in JobIds, NEW a \in Accounts,
         Refund(j, a)
  PROVE  Inv' /\ NoSurprise
<1>1. /\ jobs[j] \in Job /\ JobIsSound(jobs[j]) /\ MayRefund(j)
      /\ jobs[j].requester = a
      /\ PayOut(j, a, "refund", "Refunded")
  BY Lengths DEF Inv, Refund
<1>2. /\ jobs[j].status \notin Terminal /\ "Refunded" \in Terminal
  BY <1>1 DEF MayRefund, Terminal
<1>3. /\ Inv'
      /\ \A i \in JobIds : i # j => jobs'[i] = jobs[i]
  BY <1>1, <1>2, PayOutInv
<1>4. \/ jobs[j].worker = None
      \/ jobs[j].dispute = None /\ ledger >= jobs[j].deadline
      \/ jobs[j].dispute # None /\ ledger > jobs[j].dispute
  BY <1>1 DEF MayRefund, JobIsSound
<1> QED
  BY <1>3, <1>4 DEF NoSurprise, Surprising

LEMMA ResolveDisputeInv ==
  ASSUME SoundConstants, Inv, NEW j \in JobIds, NEW a \in Accounts,
         NEW favorWorker \in BOOLEAN, ResolveDispute(j, a, favorWorker)
  PROVE  Inv' /\ NoSurprise
<1>1. /\ jobs[j] \in Job /\ JobIsSound(jobs[j])
      /\ jobs[j].status = "Disputed"
  BY Lengths DEF Inv, ResolveDispute
<1>2. /\ jobs[j].status \notin Terminal /\ jobs[j].delivered = TRUE
      /\ jobs[j].worker \in Accounts /\ jobs[j].requester \in Accounts
  BY <1>1 DEF JobIsSound, Terminal, Job
<1>3. PICK to \in Accounts, status \in Terminal :
        /\ PayOut(j, to, "ruling", status)
        /\ to = IF status = "Completed" THEN jobs[j].worker
                ELSE jobs[j].requester
  <2>1. CASE favorWorker
    <3>1. PayOut(j, jobs[j].worker, "ruling", "Completed")
      BY <2>1 DEF ResolveDispute
    <3> QED
      BY <1>2, <3>1 DEF Terminal
  <2>2. CASE ~favorWorker
    <3>1. PayOut(j, jobs[j].requester, "ruling", "Refunded")
      BY <2>2 DEF ResolveDispute
    <3> QED
      BY <1>2, <3>1 DEF Terminal
  <2> QED
    BY <2>1, <2>2
<1>4. /\ Inv' /\ payouts'[Len(payouts')].how = "ruling"
  BY <1>2, <1>3, PayOutInv
<1> QED
  BY <1>4 DEF NoSurprise, Surprising

\* A step on which no job is refunded surprises nobody.
LEMMA NoRefund ==
  ASSUME \A i \in JobIds : jobs'[i].status = "Refunded" =>
                             jobs[i].status = "Refunded"
  PROVE  NoSurprise
BY DEF NoSurprise, Surprising

LEMMA QuietJob ==
  ASSUME SoundConstants, Inv, NEW j \in JobIds, NEW a \in Accounts,
         AcceptJob(j, a) \/ SubmitResult(j, a) \/ Dispute(j, a)
  PROVE  NoSurprise
<1>1. /\ jobs \in Seq(Job) /\ jobs[j] \in Job /\ j \in 1..Len(jobs)
  BY Lengths DEF Inv, TypeOK, JobIds
<1>2. PICK new \in Job :
        /\ jobs' = [jobs EXCEPT ![j] = new] /\ new.status # "Refunded"
  <2>1. CASE AcceptJob(j, a)
    <3> DEFINE new == [jobs[j] EXCEPT !.worker = a, !.status = "InProgress"]
    <3>1. new \in Job /\ new.status # "Refunded"
      BY <1>1 DEF Job, JobStatus
    <3>2. jobs' = [jobs EXCEPT ![j] = new]
      BY <2>1 DEF AcceptJob
    <3> QED
      BY <3>1, <3>2
  <2>2. CASE SubmitResult(j, a)
    <3> DEFINE new == [jobs[j] EXCEPT !.delivered = TRUE,
                                      !.status = "PendingRelease"]
    <3>1. new \in Job /\ new.status # "Refunded"
      BY <1>1 DEF Job, JobStatus
    <3>2. jobs' = [jobs EXCEPT ![j] = new]
      BY <2>2 DEF SubmitResult
    <3> QED
      BY <3>1, <3>2
  <2>3. CASE Dispute(j, a)
    <3> DEFINE until == ledger + DisputeTimeout
               new == [jobs[j] EXCEPT !.status = "Disputed", !.dispute = until]
    <3>1. until \in Ledgers
      BY <2>3 DEF Inv, TypeOK, Dispute, Ledgers, LastHeight, SoundConstants
    <3>2. jobs' = [jobs EXCEPT ![j] = new]
      BY <2>3 DEF Dispute
    <3> HIDE DEF until
    <3>3. new \in Job /\ new.status # "Refunded"
      BY <1>1, <3>1 DEF Job, JobStatus
    <3> QED
      BY <3>2, <3>3
  <2> QED
    BY <2>1, <2>2, <2>3
<1>3. jobs'[j] = new /\ \A i \in JobIds : i # j => jobs'[i] = jobs[i]
  BY <1>2, StoreJob DEF Inv
<1> QED
  BY <1>2, <1>3, NoRefund

LEMMA InitInv == SoundConstants /\ Init => Inv
<1> SUFFICES ASSUME SoundConstants, Init PROVE Inv
  OBVIOUS
<1>1. jobs \in Seq(Job) /\ Len(jobs) = 0 /\ payouts \in Seq(Payout)
      /\ Len(payouts) = 0 /\ JobIds = {}
  BY EmptySeq DEF Init, JobIds
<1>2. TypeOK
  <2>1. ledger \in Ledgers
    BY DEF Init, Ledgers, LastHeight, SoundConstants
  <2>2. paused \in BOOLEAN /\ custody \in Nat
    BY DEF Init
  <2>3. Len(jobs) <= MaxJobs
    BY <1>1 DEF SoundConstants
  <2> QED
    BY <1>1, <2>1, <2>2, <2>3 DEF TypeOK
<1>3. Solvent
  <2>1. Locked \in [1..MaxJobs -> Nat] /\ \A j \in 1..MaxJobs : Locked[j] = 0
    BY <1>1 DEF Locked
  <2>2. Total(Locked) = 0
    BY <2>1, TotalZero
  <2> QED
    BY <2>2 DEF Init, Solvent
<1>4. PaymentsAreSound
  BY <1>1 DEF PaymentsAreSound
<1> QED
  BY <1>1, <1>2, <1>3, <1>4 DEF Inv

LEMMA NextInv ==
  ASSUME SoundConstants, Inv, [Next]_vars
  PROVE  Inv' /\ NoSurprise
<1>1. ASSUME NEW requester \in Accounts, NEW amount \in Amounts,
             NEW d \in Durations, NEW arbiter \in Accounts \cup {None},
             ledger + d <= MaxCreated + 1,
             CreateJob(requester, amount, ledger + d, arbiter)
      PROVE  Inv' /\ NoSurprise
  <2>1. ledger + d \in Int
    BY DEF SoundConstants, Inv, TypeOK, Ledgers
  <2>2. Inv'
    BY <1>1, <2>1, CreateJobInv
  <2>3. jobs \in Seq(Job)
    BY DEF Inv, TypeOK
  <2>4. \A i \in JobIds : jobs'[i] = jobs[i]
    BY <1>1, <2>3 DEF CreateJob, JobIds
  <2> QED
    BY <2>2, <2>4, NoRefund
<1>2. ASSUME NEW j \in JobIds, NEW a \in Accounts,
             AcceptJob(j, a) \/ SubmitResult(j, a) \/ Dispute(j, a)
      PROVE  Inv' /\ NoSurprise
  BY <1>2, AcceptJobInv, SubmitResultInv, DisputeInv, QuietJob
<1>3. CASE \/ \E b \in BOOLEAN : SetPaused(b)
           \/ CloseLedger
           \/ UNCHANGED vars
  <2>1. /\ UNCHANGED <<jobs, custody, payouts>>
        /\ ledger' \in Ledgers /\ paused' \in BOOLEAN
    BY <1>3 DEF SetPaused, CloseLedger, vars, Inv, TypeOK, Ledgers, LastHeight,
       SoundConstants
  <2>2. TypeOK'
    BY <2>1 DEF Inv, TypeOK
  <2>3. Inv'
    BY <2>1, <2>2 DEF Inv, Solvent, Locked, JobIds, PaymentsAreSound
  <2> QED
    BY <2>1, <2>3, NoRefund
<1>4. ASSUME NEW j \in JobIds, NEW a \in Accounts,
             Release(j, a) \/ Refund(j, a)
               \/ \E b \in BOOLEAN : ResolveDispute(j, a, b)
      PROVE  Inv' /\ NoSurprise
  BY <1>4, ReleaseInv, RefundInv, ResolveDisputeInv
<1> QED
  BY <1>1, <1>2, <1>3, <1>4 DEF Next, Create, Work, Settle, Reclaim

LEMMA InvPays == SoundConstants /\ Inv => PaidOnce
<1> SUFFICES ASSUME SoundConstants, Inv, NEW j \in JobIds
             PROVE  /\ Cardinality(PayoutsOf(j)) =
                         IF jobs[j].status \in Terminal THEN 1 ELSE 0
                    /\ \A k \in PayoutsOf(j) :
                         /\ payouts[k].amount = jobs[j].amount
                         /\ payouts[k].to = IF jobs[j].status = "Completed"
                                            THEN jobs[j].worker
                                            ELSE jobs[j].requester
                    /\ jobs[j].status = "Completed" => jobs[j].delivered
  BY DEF PaidOnce
<1>1. PayoutsOf(j) = {k \in 1..Len(payouts) : payouts[k].job = j}
  <2>1. DOMAIN payouts = 1..Len(payouts)
    BY LenProperties DEF Inv, TypeOK
  <2> QED
    BY <2>1 DEF PayoutsOf
<1>2. CASE jobs[j].status \in Terminal
  <2>1. PICK k \in 1..Len(payouts) : payouts[k].job = j
    BY <1>2 DEF Inv, PaymentsAreSound
  <2>2. PayoutsOf(j) = {k}
    BY <1>1, <2>1 DEF Inv, PaymentsAreSound
  <2>3. Cardinality({k}) = 1
    BY FS_Singleton
  <2>4. Cardinality(PayoutsOf(j)) = 1
    BY <2>2, <2>3, Zenon
  <2> QED
    BY <1>1, <1>2, <2>4 DEF Inv, PaymentsAreSound, Payee, JobIsSound
<1>3. CASE jobs[j].status \notin Terminal
  <2>1. PayoutsOf(j) = {}
    BY <1>1, <1>3 DEF Inv, PaymentsAreSound
  <2>2. Cardinality({}) = 0
    BY FS_EmptySet
  <2>3. Cardinality(PayoutsOf(j)) = 0
    BY <2>1, <2>2, Zenon
  <2> QED
    BY <1>3, <2>1, <2>3 DEF Terminal
<1> QED
  BY <1>2, <1>3

LEMMA InvHolds == ASSUME SoundConstants PROVE Spec => []Inv
<1>1. Init => Inv
  BY InitInv
<1>2. Inv /\ [Next]_vars => Inv'
  BY NextInv
<1> QED
  BY <1>1, <1>2, PTL DEF Spec

(* Whatever jobs are created, disputed, released, refunded and ruled on,   *)
(* in any order and by any accounts, the contract's balance is what the    *)
(* unsettled jobs locked.                                                  *)
THEOREM JobsAreFunded == ASSUME SoundConstants PROVE Spec => [](TypeOK /\ Solvent)
<1>1. Inv => TypeOK /\ Solvent
  BY DEF Inv
<1> QED
  BY <1>1, InvHolds, PTL

(* Every job pays its whole amount once, when it settles, to its worker    *)
(* for a result that was delivered or back to its requester (release,      *)
(* refund, resolve_dispute).                                               *)
THEOREM JobsArePaidOnce == ASSUME SoundConstants PROVE Spec => []PaidOnce
<1>1. Inv => PaidOnce
  BY InvPays
<1> QED
  BY <1>1, InvHolds, PTL

(* NoEarlyRefund: an accepted job is refunded only after its deadline or,  *)
(* once it is disputed, after the dispute or by the arbiter's ruling.      *)
THEOREM RefundsAreDue == ASSUME SoundConstants PROVE Spec => NoEarlyRefund
<1>1. Inv /\ [Next]_vars => NoSurprise
  BY NextInv
<1>2. NoSurprise =>
        \A j \in JobIds :
          /\ jobs[j].worker # None
          /\ jobs'[j].status = "Refunded" /\ jobs[j].status # "Refunded"
          => \/ jobs[j].dispute = None /\ ledger >= jobs[j].deadline
             \/ jobs[j].dispute # None /\ ledger > jobs[j].dispute
             \/ payouts'[Len(payouts')].how = "ruling"
  BY DEF NoSurprise, Surprising
<1> QED
  BY <1>1, <1>2, InvHolds, PTL DEF Spec, NoEarlyRefund

-----------------------------------------------------------------------------
(* The bug bounty oracle.                                                  *)


BountyInv == BountyTypeOK /\ Funded /\ BountyPaidOnce /\ OneWinner

-----------------------------------------------------------------------------
(* Records.                                                                *)

LEMMA BountyRecord ==
  ASSUME SoundBounties, BountyTypeOK, NEW b, IsBounty(b)
  PROVE  b \in BountyIds /\ bounties[b] \in Bounty
<1>1. bounties \in Seq(Bounty) /\ Len(bounties) \in Nat /\ Len(bounties) <= MaxBounties
  BY DEF BountyTypeOK
<1>2. bounties[b] \in Bounty
  BY <1>1, ElementOfSeq DEF IsBounty
<1> QED
  BY <1>1, <1>2 DEF IsBounty, BountyIds, SoundBounties

LEMMA SubmissionRecord ==
  ASSUME BountyTypeOK, NEW s \in 1..Len(submissions)
  PROVE  submissions[s] \in Submission
<1>1. submissions \in Seq(Submission)
  BY DEF BountyTypeOK
<1> QED
  BY <1>1, ElementOfSeq

LEMMA StoreBounty ==
  ASSUME BountyTypeOK, NEW b, IsBounty(b), NEW new \in Bounty,
         bounties' = [bounties EXCEPT ![b] = new]
  PROVE  /\ bounties' \in Seq(Bounty)
         /\ Len(bounties') = Len(bounties)
         /\ bounties'[b] = new
         /\ \A d \in 1..Len(bounties) : d # b => bounties'[d] = bounties[d]
<1>1. bounties \in Seq(Bounty) /\ b \in 1..Len(bounties)
  BY DEF BountyTypeOK, IsBounty
<1> QED
  BY <1>1, ExceptSeq

LEMMA StoreSubmission ==
  ASSUME BountyTypeOK, NEW s \in 1..Len(submissions), NEW status \in SubmissionStatus,
         submissions' = [submissions EXCEPT ![s].status = status]
  PROVE  /\ submissions' \in Seq(Submission)
         /\ Len(submissions') = Len(submissions)
         /\ submissions'[s].status = status
         /\ submissions'[s].bounty = submissions[s].bounty
         /\ \A r \in 1..Len(submissions) : submissions'[r].hunter = submissions[r].hunter
         /\ \A r \in 1..Len(submissions) : r # s => submissions'[r] = submissions[r]
<1> DEFINE new == [submissions[s] EXCEPT !.status = status]
<1>1. submissions[s] \in Submission /\ submissions \in Seq(Submission)
  BY SubmissionRecord DEF BountyTypeOK
<1>2. new \in Submission /\ new.status = status /\ new.hunter = submissions[s].hunter
      /\ new.bounty = submissions[s].bounty
  BY <1>1 DEF Submission
<1>3. submissions' = [submissions EXCEPT ![s] = new]
  BY <1>1
<1> HIDE DEF new
<1>4. /\ submissions' \in Seq(Submission)
      /\ Len(submissions') = Len(submissions)
      /\ submissions'[s] = new
      /\ \A r \in 1..Len(submissions) : r # s => submissions'[r] = submissions[r]
  BY <1>1, <1>3, <1>2, ExceptSeq
<1> QED
  BY <1>2, <1>4

-----------------------------------------------------------------------------
(* The balance.                                                            *)

LEMMA PromisedType ==
  ASSUME SoundBounties, BountyTypeOK, NEW t
  PROVE  PromisedIn(t) \in [BountyIds -> Nat]
<1>1. \A b \in BountyIds : IsOpen(b) => bounties[b].amount \in Nat
  BY BountyRecord DEF IsOpen, Bounty
<1> QED
  BY <1>1 DEF PromisedIn

LEMMA BountyIdsFinite == SoundBounties => IsFiniteSet(BountyIds)
BY FS_Interval DEF BountyIds, SoundBounties

(* What one bounty locks in one token changes, and the balance follows.    *)
LEMMA OnePromise ==
  ASSUME SoundBounties, BountyTypeOK, BountyTypeOK', Funded, NEW b \in BountyIds, NEW token \in Tokens,
         balance'[token] = balance[token] - PromisedIn(token)[b] + PromisedIn(token)'[b],
         \A t \in Tokens \ {token} : balance'[t] = balance[t]
                                     /\ PromisedIn(t)'[b] = PromisedIn(t)[b],
         \A t \in Tokens, d \in BountyIds \ {b} : PromisedIn(t)'[d] = PromisedIn(t)[d]
  PROVE  Funded'
<1>1. ASSUME NEW t \in Tokens
      PROVE  balance'[t] = Total(PromisedIn(t))'
  <2>1. PICK before \in [BountyIds -> Nat] : before = PromisedIn(t)
    BY PromisedType
  <2>2. PICK after \in [BountyIds -> Nat] : after = PromisedIn(t)'
    <3>1. \A d \in 1..Len(bounties') : bounties'[d].amount \in Nat
      <4>1. bounties' \in Seq(Bounty)
        BY DEF BountyTypeOK
      <4>2. \A d \in 1..Len(bounties') : bounties'[d] \in Bounty
        BY <4>1, ElementOfSeq
      <4> QED
        BY <4>2 DEF Bounty
    <3>2. PromisedIn(t)' = [d \in BountyIds |->
            IF (d \in 1..Len(bounties') /\ bounties'[d].status = "Open")
               /\ bounties'[d].token = t
            THEN bounties'[d].amount ELSE 0]
      BY DEF PromisedIn, IsOpen, IsBounty
    <3>3. PromisedIn(t)' \in [BountyIds -> Nat]
      BY <3>1, <3>2
    <3> QED
      BY <3>3
  <2>3. \A d \in BountyIds \ {b} : after[d] = before[d]
    BY <2>1, <2>2
  <2>4. Total(after) = Total(before) - before[b] + after[b]
    <3>1. IsFiniteSet(BountyIds)
      BY BountyIdsFinite
    <3> QED
      BY <2>3, <3>1, TotalUpdate
  <2>5. balance[t] = Total(before)
    BY <2>1 DEF Funded
  <2>6. before[b] \in Nat /\ after[b] \in Nat /\ balance[t] \in Nat
    BY DEF BountyTypeOK
  <2>7. CASE t = token
    BY <2>1, <2>2, <2>4, <2>5, <2>6, <2>7
  <2>8. CASE t # token
    <3>1. after[b] = before[b] /\ balance'[t] = balance[t]
      BY <2>1, <2>2, <2>8
    <3> QED
      BY <2>2, <2>4, <2>5, <2>6, <3>1
  <2> QED
    BY <2>7, <2>8
<1> QED
  BY <1>1 DEF Funded

-----------------------------------------------------------------------------
(* Paying a bounty out.                                                    *)

(* The balance covers the bounty, so what is left is a natural number.     *)
LEMMA PayOutTypes ==
  ASSUME SoundBounties, BountyInv, NEW b, IsOpen(b), NEW to \in Participants, PayBounty(b, to)
  PROVE  /\ balance' \in [Tokens -> Nat]
         /\ received' \in [BountyIds -> [Participants -> Nat]]
         /\ balance'[bounties[b].token] = balance[bounties[b].token] - bounties[b].amount
         /\ \A t \in Tokens \ {bounties[b].token} : balance'[t] = balance[t]
         /\ received'[b][to] = received[b][to] + bounties[b].amount
         /\ \A a \in Participants \ {to} : received'[b][a] = received[b][a]
         /\ \A d \in BountyIds \ {b} : received'[d] = received[d]
<1>1. b \in BountyIds /\ bounties[b] \in Bounty
  BY BountyRecord DEF BountyInv, IsOpen
<1>2. PICK t \in Tokens : t = bounties[b].token
  BY <1>1 DEF Bounty
<1>3. PICK n \in Nat : n = bounties[b].amount
  BY <1>1 DEF Bounty
<1>4. n <= balance[t]
  <2>1. PromisedIn(t) \in [BountyIds -> Nat]
    BY PromisedType DEF BountyInv
  <2>2. PromisedIn(t)[b] = n
    BY <1>1, <1>2, <1>3 DEF PromisedIn
  <2>3. PromisedIn(t)[b] <= Total(PromisedIn(t))
    BY <1>1, <2>1, BountyIdsFinite, TotalPart
  <2> QED
    BY <2>2, <2>3 DEF BountyInv, Funded
<1>5. /\ balance \in [Tokens -> Nat] /\ received \in [BountyIds -> [Participants -> Nat]]
  BY DEF BountyInv, BountyTypeOK
<1>6. /\ balance' = [balance EXCEPT ![t] = @ - n]
      /\ received' = [received EXCEPT ![b][to] = @ + n]
  BY <1>2, <1>3 DEF PayBounty
<1>7. balance' \in [Tokens -> Nat] /\ balance'[t] = balance[t] - n
      /\ \A u \in Tokens \ {t} : balance'[u] = balance[u]
  BY <1>4, <1>5, <1>6
<1>8. /\ received' \in [BountyIds -> [Participants -> Nat]]
      /\ received'[b][to] = received[b][to] + n
      /\ \A a \in Participants \ {to} : received'[b][a] = received[b][a]
      /\ \A d \in BountyIds \ {b} : received'[d] = received[d]
  BY <1>1, <1>5, <1>6
<1> QED
  BY <1>2, <1>3, <1>7, <1>8

(* The bounty that is paid out, and ends, keeps the balance covered and is *)
(* paid once.                                                              *)
LEMMA EndsPaid ==
  ASSUME SoundBounties, BountyInv, BountyTypeOK', NEW b, IsOpen(b), NEW to \in Participants, PayBounty(b, to),
         NEW new \in Bounty, bounties' = [bounties EXCEPT ![b] = new],
         new.status # "Open", new.amount = bounties[b].amount,
         BountyPayee(b)' = to,
         \A d \in BountyIds \ {b} : IsBounty(d) /\ ~IsOpen(d) => BountyPayee(d)' = BountyPayee(d)
  PROVE  Funded' /\ BountyPaidOnce'
<1>1. b \in BountyIds /\ bounties[b] \in Bounty /\ IsBounty(b)
  BY BountyRecord DEF BountyInv, IsOpen
<1>2. /\ Len(bounties') = Len(bounties)
      /\ bounties'[b] = new
      /\ \A d \in 1..Len(bounties) : d # b => bounties'[d] = bounties[d]
  BY <1>1, StoreBounty DEF BountyInv
<1>3. PICK token \in Tokens : token = bounties[b].token
  BY <1>1 DEF Bounty
<1>4. bounties[b].amount \in Nat
  BY <1>1 DEF Bounty
<1>5. Funded'
  <2>1. PromisedIn(token)[b] = bounties[b].amount
    BY <1>1, <1>3 DEF PromisedIn
  <2>2. \A t \in Tokens : PromisedIn(t)'[b] = 0
    BY <1>1, <1>2 DEF PromisedIn, IsOpen
  <2>3. \A t \in Tokens \ {token} : PromisedIn(t)[b] = 0
    BY <1>1, <1>3 DEF PromisedIn
  <2>4. \A t \in Tokens, d \in BountyIds \ {b} : PromisedIn(t)'[d] = PromisedIn(t)[d]
    BY <1>1, <1>2 DEF PromisedIn, IsOpen, IsBounty
  <2>5. balance'[token] = balance[token] - bounties[b].amount
        /\ \A t \in Tokens \ {token} : balance'[t] = balance[t]
    BY <1>3, PayOutTypes
  <2>6. balance[token] \in Nat
    BY DEF BountyInv, BountyTypeOK
  <2>7. balance'[token] = balance[token] - PromisedIn(token)[b] + PromisedIn(token)'[b]
    BY <1>4, <2>1, <2>2, <2>5, <2>6
  <2> QED
    BY <1>1, <2>2, <2>3, <2>4, <2>5, <2>7, OnePromise DEF BountyInv
<1>6. BountyPaidOnce'
  <2>1. ASSUME NEW d \in BountyIds, NEW a \in Participants
        PROVE  received'[d][a] = IF IsBounty(d)' /\ ~IsOpen(d)' /\ a = BountyPayee(d)'
                                 THEN bounties'[d].amount ELSE 0
    <3>1. CASE d = b
      <4>1. received[b][a] = 0
        BY <1>1 DEF BountyInv, BountyPaidOnce
      <4>2. received'[b][a] = IF a = to THEN bounties[b].amount ELSE 0
        BY <1>4, <4>1, PayOutTypes
      <4>3. IsBounty(b)' /\ ~IsOpen(b)'
        BY <1>1, <1>2 DEF IsBounty, IsOpen
      <4> QED
        BY <1>2, <3>1, <4>2, <4>3
    <3>2. CASE d # b
      <4>1. received'[d] = received[d]
        BY <3>2, PayOutTypes
      <4>2. IsBounty(d)' = IsBounty(d) /\ IsOpen(d)' = IsOpen(d)
        BY <1>2, <3>2 DEF IsBounty, IsOpen
      <4>3. received[d][a] = IF IsBounty(d) /\ ~IsOpen(d) /\ a = BountyPayee(d)
                             THEN bounties[d].amount ELSE 0
        BY DEF BountyInv, BountyPaidOnce
      <4>4. IsBounty(d) => bounties'[d].amount = bounties[d].amount
        BY <1>2, <3>2 DEF IsBounty
      <4>5. IsBounty(d) /\ ~IsOpen(d) => BountyPayee(d)' = BountyPayee(d)
        BY <3>2
      <4> QED
        BY <4>1, <4>2, <4>3, <4>4, <4>5
    <3> QED
      BY <3>1, <3>2
  <2> QED
    BY <2>1 DEF BountyPaidOnce
<1> QED
  BY <1>5, <1>6

-----------------------------------------------------------------------------
(* The actions.                                                            *)

LEMMA CreateInv ==
  ASSUME SoundBounties, BountyInv,
         NEW sponsor \in Participants, NEW token \in Tokens, NEW amount \in Rewards,
         NEW verifier \in Participants, NEW deadline \in Deadlines,
         CreateBounty(sponsor, token, amount, verifier, deadline)
  PROVE  BountyInv'
<1> DEFINE n == Len(bounties)
<1> DEFINE new == [sponsor |-> sponsor, token |-> token, amount |-> amount,
                   verifier |-> verifier, deadline |-> deadline, status |-> "Open",
                   winner |-> NoWinner, count |-> 0]
<1>1. /\ n \in Nat /\ n + 1 \in BountyIds /\ ~IsBounty(n + 1)
      /\ amount \in Nat /\ amount > 0 /\ bounties \in Seq(Bounty)
  BY DEF CreateBounty, BountyInv, BountyTypeOK, BountyIds, IsBounty, SoundBounties
<1>2. new \in Bounty
  BY <1>1 DEF Bounty, BountyStatus, SoundBounties
<1>3. new.status = "Open" /\ new.token = token /\ new.amount = amount /\ new.count = 0
  OBVIOUS
<1>4. bounties' = Append(bounties, new) /\ UNCHANGED <<ledgerSeq, submissions, received>>
  BY DEF CreateBounty
<1> HIDE DEF new
<1>5. /\ bounties' \in Seq(Bounty) /\ Len(bounties') = n + 1 /\ bounties'[n + 1] = new
      /\ \A d \in 1..n : bounties'[d] = bounties[d]
  BY <1>1, <1>2, <1>4, AppendProperties
<1>6. balance' = [balance EXCEPT ![token] = @ + amount]
  BY DEF CreateBounty
<1>7. balance' \in [Tokens -> Nat] /\ balance'[token] = balance[token] + amount
      /\ \A t \in Tokens \ {token} : balance'[t] = balance[t]
  BY <1>1, <1>6 DEF BountyInv, BountyTypeOK
<1>8. BountyTypeOK'
  BY <1>1, <1>4, <1>5, <1>7 DEF BountyInv, BountyTypeOK, BountyIds
<1>9. Funded'
  <2>1. \A t \in Tokens : PromisedIn(t)[n + 1] = 0
    BY <1>1 DEF PromisedIn, IsOpen
  <2>2. \A t \in Tokens : PromisedIn(t)'[n + 1] = IF t = token THEN amount ELSE 0
    BY <1>1, <1>3, <1>5 DEF PromisedIn, IsOpen, IsBounty
  <2>3. \A t \in Tokens, d \in BountyIds \ {n + 1} : PromisedIn(t)'[d] = PromisedIn(t)[d]
    BY <1>1, <1>5 DEF PromisedIn, IsOpen, IsBounty, BountyIds
  <2>4. balance[token] \in Nat
    BY DEF BountyInv, BountyTypeOK
  <2>5. balance'[token]
          = balance[token] - PromisedIn(token)[n + 1] + PromisedIn(token)'[n + 1]
    BY <1>1, <1>7, <2>1, <2>2, <2>4
  <2> QED
    BY <1>1, <1>7, <1>8, <2>1, <2>2, <2>3, <2>5, OnePromise DEF BountyInv
<1>10. BountyPaidOnce'
  <2>1. ASSUME NEW d \in BountyIds, NEW a \in Participants
        PROVE  received'[d][a] = IF IsBounty(d)' /\ ~IsOpen(d)' /\ a = BountyPayee(d)'
                                 THEN bounties'[d].amount ELSE 0
    <3>1. received'[d][a] = IF IsBounty(d) /\ ~IsOpen(d) /\ a = BountyPayee(d)
                            THEN bounties[d].amount ELSE 0
      BY <1>4 DEF BountyInv, BountyPaidOnce
    <3>2. CASE d = n + 1
      <4>1. received'[d][a] = 0
        BY <1>1, <3>1, <3>2
      <4>2. IsOpen(d)'
        BY <1>1, <1>3, <1>5, <3>2 DEF IsOpen, IsBounty
      <4> QED
        BY <4>1, <4>2
    <3>3. CASE d # n + 1
      <4>1. IsBounty(d)' = IsBounty(d)
        BY <1>1, <1>5, <3>3 DEF IsBounty, BountyIds
      <4>2. CASE IsBounty(d)
        <5>1. bounties'[d] = bounties[d]
          BY <1>5, <4>2 DEF IsBounty
        <5>2. IsOpen(d)' = IsOpen(d) /\ BountyPayee(d)' = BountyPayee(d)
          BY <1>4, <4>1, <5>1 DEF IsOpen, BountyPayee
        <5> QED
          BY <3>1, <4>1, <5>1, <5>2
      <4>3. CASE ~IsBounty(d)
        BY <3>1, <4>1, <4>3
      <4> QED
        BY <4>2, <4>3
    <3> QED
      BY <3>2, <3>3
  <2> QED
    BY <2>1 DEF BountyPaidOnce
<1>11. OneWinner'
  <2>1. \A s \in 1..Len(submissions) : submissions[s].bounty \in 1..n
    BY DEF BountyInv, OneWinner, IsBounty
  <2>2. new.status = "Open" /\ \A d \in 1..(n + 1) : d # n + 1 => d \in 1..n
    BY <1>1, <1>3
  <2>3. ASSUME NEW s \in 1..Len(submissions)
        PROVE  /\ IsBounty(submissions[s].bounty)'
               /\ bounties'[submissions[s].bounty].count > 0
               /\ submissions[s].status = "Accepted"
                    => LET b == bounties'[submissions[s].bounty]
                       IN b.status = "Paid" /\ b.winner = s
    <3>1. bounties'[submissions[s].bounty] = bounties[submissions[s].bounty]
      BY <1>5, <2>1
    <3>2. submissions[s].bounty \in 1..(n + 1)
      BY <1>1, <2>1
    <3>3. IsBounty(submissions[s].bounty)'
      BY <1>4, <1>5, <3>2 DEF IsBounty
    <3> QED
      BY <3>1, <3>3 DEF BountyInv, OneWinner
  <2>4. ASSUME NEW b \in 1..(n + 1)
        PROVE  /\ bounties'[b].status = "Paid" =>
                    /\ bounties'[b].winner \in 1..Len(submissions)
                    /\ submissions[bounties'[b].winner].bounty = b
                    /\ submissions[bounties'[b].winner].status = "Accepted"
               /\ bounties'[b].status = "Cancelled" => bounties'[b].count = 0
    <3>1. CASE b = n + 1
      BY <1>5, <2>2, <3>1
    <3>2. CASE b # n + 1
      <4>1. b \in 1..Len(bounties) /\ bounties'[b] = bounties[b]
        BY <1>5, <2>2, <3>2
      <4> QED
        BY <4>1 DEF BountyInv, OneWinner
    <3> QED
      BY <3>1, <3>2
  <2> QED
    BY <1>4, <1>5, <2>3, <2>4 DEF OneWinner
<1> QED
  BY <1>8, <1>9, <1>10, <1>11 DEF BountyInv

(* A submission changes nothing of its bounty but the count.               *)
LEMMA SubmitInv ==
  ASSUME SoundBounties, BountyInv, NEW hunter \in Participants, NEW b \in BountyIds,
         NEW payload \in Payloads, SubmitPayload(hunter, b, payload)
  PROVE  BountyInv'
<1> DEFINE m == Len(submissions)
<1> DEFINE new == [bounty |-> b, hunter |-> hunter, payload |-> payload, status |-> "Pending"]
<1> DEFINE counted == [bounties[b] EXCEPT !.count = @ + 1]
<1>1. /\ IsBounty(b) /\ bounties[b] \in Bounty /\ b \in Nat
      /\ m \in Nat /\ m + 1 <= MaxSubmissions /\ submissions \in Seq(Submission)
  BY BountyRecord DEF SubmitPayload, IsOpen, BountyInv, BountyTypeOK, BountyIds, SoundBounties
<1>2. new \in Submission
  BY <1>1 DEF Submission, SubmissionStatus
<1>3. /\ counted \in Bounty
      /\ counted.status = bounties[b].status /\ counted.token = bounties[b].token
      /\ counted.amount = bounties[b].amount /\ counted.sponsor = bounties[b].sponsor
      /\ counted.winner = bounties[b].winner
      /\ counted.count > 0
  <2>1. bounties[b] \in Bounty
    BY <1>1
  <2>2. bounties[b].count \in Nat /\ bounties[b].count + 1 \in Nat \ {0}
    BY <2>1 DEF Bounty
  <2>3. counted \in Bounty
    BY <2>1, <2>2 DEF Bounty
  <2>4. /\ counted.status = bounties[b].status /\ counted.token = bounties[b].token
        /\ counted.amount = bounties[b].amount /\ counted.sponsor = bounties[b].sponsor
        /\ counted.winner = bounties[b].winner
    BY <2>1 DEF Bounty
  <2>5. counted.count = bounties[b].count + 1
    BY <2>1 DEF Bounty
  <2> QED
    BY <2>2, <2>3, <2>4, <2>5
<1>4. bounties' = [bounties EXCEPT ![b] = counted]
  BY <1>1 DEF SubmitPayload
<1>5. submissions' = Append(submissions, new) /\ UNCHANGED <<ledgerSeq, balance, received>>
  BY DEF SubmitPayload
<1>6. new.status = "Pending" /\ new.bounty = b
  OBVIOUS
<1>7. bounties[b].status = "Open"
  BY DEF SubmitPayload, IsOpen
<1> HIDE DEF new, counted
<1>8. /\ bounties' \in Seq(Bounty) /\ Len(bounties') = Len(bounties)
      /\ bounties'[b] = counted
      /\ \A d \in 1..Len(bounties) : d # b => bounties'[d] = bounties[d]
  <2>1. BountyTypeOK /\ counted \in Bounty
    BY <1>3 DEF BountyInv
  <2> QED
    BY <1>1, <1>4, <2>1, StoreBounty
<1>9. /\ submissions' \in Seq(Submission) /\ Len(submissions') = m + 1
      /\ submissions'[m + 1] = new
      /\ \A s \in 1..m : submissions'[s] = submissions[s]
  BY <1>1, <1>2, <1>5, AppendProperties
<1>10. BountyTypeOK'
  BY <1>1, <1>5, <1>8, <1>9 DEF BountyInv, BountyTypeOK
<1>11. \A d : IsBounty(d)' = IsBounty(d)
  BY <1>8 DEF IsBounty
<1>12. \A d \in 1..Len(bounties) :
         /\ bounties'[d].status = bounties[d].status /\ bounties'[d].token = bounties[d].token
         /\ bounties'[d].amount = bounties[d].amount
         /\ bounties'[d].sponsor = bounties[d].sponsor
         /\ bounties'[d].winner = bounties[d].winner
  BY <1>3, <1>8
<1>13. \A d : IsOpen(d)' = IsOpen(d)
  BY <1>11, <1>12 DEF IsOpen, IsBounty
<1>14. Funded'
  <2>1. \A t \in Tokens : PromisedIn(t)' = PromisedIn(t)
    BY <1>12, <1>13 DEF PromisedIn, IsOpen, IsBounty
  <2>2. \A t \in Tokens : Total(PromisedIn(t))' = Total(PromisedIn(t))
    BY <2>1
  <2> QED
    BY <1>5, <2>2 DEF BountyInv, Funded
<1>15. \A d \in 1..Len(bounties) : ~IsOpen(d) => BountyPayee(d)' = BountyPayee(d)
  <2>1. ASSUME NEW d \in 1..Len(bounties), ~IsOpen(d)
        PROVE  BountyPayee(d)' = BountyPayee(d)
    <3>1. CASE bounties[d].status = "Paid"
      <4>1. bounties[d].winner \in 1..m
        BY <3>1 DEF BountyInv, OneWinner
      <4>2. submissions'[bounties'[d].winner] = submissions[bounties[d].winner]
        BY <1>9, <1>12, <4>1
      <4> QED
        BY <1>12, <4>2 DEF BountyPayee
    <3>2. CASE bounties[d].status # "Paid"
      BY <1>12, <3>2 DEF BountyPayee
    <3> QED
      BY <3>1, <3>2
  <2> QED
    BY <2>1
<1>16. BountyPaidOnce'
  BY <1>5, <1>11, <1>12, <1>13, <1>15 DEF BountyInv, BountyPaidOnce, IsBounty
<1>17. OneWinner'
  <2>1. ASSUME NEW s \in 1..(m + 1)
        PROVE  /\ submissions'[s].bounty \in 1..Len(bounties')
               /\ bounties'[submissions'[s].bounty].count > 0
               /\ submissions'[s].status = "Accepted"
                    => LET d == bounties'[submissions'[s].bounty]
                       IN d.status = "Paid" /\ d.winner = s
    <3>1. CASE s = m + 1
      <4>1. submissions'[s].bounty = b /\ submissions'[s].status # "Accepted"
        BY <1>6, <1>9, <3>1
      <4> QED
        BY <1>1, <1>3, <1>8, <4>1 DEF IsBounty
    <3>2. CASE s # m + 1
      <4>1. s \in 1..Len(submissions) /\ submissions'[s] = submissions[s]
        BY <1>1, <1>9, <3>2
      <4>2. submissions[s].bounty \in 1..Len(bounties)
            /\ bounties[submissions[s].bounty].count > 0
        BY <4>1 DEF BountyInv, OneWinner, IsBounty
      <4>3. bounties'[submissions[s].bounty].count > 0
        BY <1>3, <1>8, <4>2
      <4>4. submissions[s].status = "Accepted"
              => LET d == bounties[submissions[s].bounty]
                 IN d.status = "Paid" /\ d.winner = s
        BY <4>1 DEF BountyInv, OneWinner
      <4> QED
        BY <1>8, <1>12, <4>1, <4>2, <4>3, <4>4
    <3> QED
      BY <3>1, <3>2
  <2>2. ASSUME NEW d \in 1..Len(bounties)
        PROVE  /\ bounties'[d].status = "Paid" =>
                    /\ bounties'[d].winner \in 1..(m + 1)
                    /\ submissions'[bounties'[d].winner].bounty = d
                    /\ submissions'[bounties'[d].winner].status = "Accepted"
               /\ bounties'[d].status = "Cancelled" => bounties'[d].count = 0
    <3>1. CASE d = b
      BY <1>7, <1>12, <3>1
    <3>2. CASE d # b
      <4>1. bounties'[d] = bounties[d]
        BY <1>8, <3>2
      <4>2. bounties[d].status = "Paid" =>
              /\ bounties[d].winner \in 1..m
              /\ submissions[bounties[d].winner].bounty = d
              /\ submissions[bounties[d].winner].status = "Accepted"
        BY DEF BountyInv, OneWinner
      <4>3. bounties[d].status = "Cancelled" => bounties[d].count = 0
        BY DEF BountyInv, OneWinner
      <4>4. bounties[d].winner \in 1..m => bounties[d].winner \in 1..(m + 1)
        BY <1>1
      <4> QED
        BY <1>9, <4>1, <4>2, <4>3, <4>4
    <3> QED
      BY <3>1, <3>2
  <2> QED
    BY <1>8, <1>9, <2>1, <2>2 DEF OneWinner, IsBounty
<1> QED
  BY <1>10, <1>14, <1>16, <1>17 DEF BountyInv

(* A bounty that goes back to its sponsor, unpaid: no submission changes,  *)
(* and none of the bounty was accepted.                                    *)
LEMMA GoesBack ==
  ASSUME SoundBounties, BountyInv, NEW b, IsOpen(b), PayBounty(b, bounties[b].sponsor),
         NEW status \in {"Expired", "Cancelled"},
         status = "Cancelled" => bounties[b].count = 0,
         NEW new, new = [bounties[b] EXCEPT !.status = status],
         bounties' = [bounties EXCEPT ![b] = new],
         UNCHANGED <<ledgerSeq, submissions>>
  PROVE  BountyInv'
<1>1. /\ IsBounty(b) /\ b \in BountyIds /\ bounties[b] \in Bounty
      /\ bounties[b].sponsor \in Participants /\ BountyTypeOK
  BY BountyRecord DEF IsOpen, BountyInv, Bounty
<1>2. /\ new \in Bounty /\ new.status = status /\ new.status # "Open" /\ new.status # "Paid"
      /\ new.amount = bounties[b].amount /\ new.sponsor = bounties[b].sponsor
      /\ new.count = bounties[b].count
  BY <1>1 DEF Bounty, BountyStatus
<1>3. bounties[b].status = "Open"
  BY DEF IsOpen
<1>4. /\ bounties' \in Seq(Bounty) /\ Len(bounties') = Len(bounties)
      /\ bounties'[b] = new
      /\ \A d \in 1..Len(bounties) : d # b => bounties'[d] = bounties[d]
  <2>1. BountyTypeOK /\ IsBounty(b) /\ new \in Bounty
    BY <1>1, <1>2
  <2> QED
    BY <2>1, StoreBounty
<1>5. BountyTypeOK'
  <2>1. balance' \in [Tokens -> Nat] /\ received' \in [BountyIds -> [Participants -> Nat]]
    BY <1>1, PayOutTypes
  <2> QED
    BY <1>1, <1>4, <2>1 DEF BountyTypeOK
<1>6. BountyPayee(b)' = bounties[b].sponsor
  BY <1>2, <1>4 DEF BountyPayee
<1>7. \A d \in BountyIds \ {b} : IsBounty(d) /\ ~IsOpen(d) => BountyPayee(d)' = BountyPayee(d)
  BY <1>4 DEF BountyPayee, IsBounty
<1>8. Funded' /\ BountyPaidOnce'
  BY <1>1, <1>2, <1>5, <1>6, <1>7, EndsPaid
<1>9. OneWinner'
  <2>1. ASSUME NEW s \in 1..Len(submissions)
        PROVE  /\ submissions[s].bounty \in 1..Len(bounties)
               /\ bounties'[submissions[s].bounty].count > 0
               /\ submissions[s].status = "Accepted"
                    => LET d == bounties'[submissions[s].bounty]
                       IN d.status = "Paid" /\ d.winner = s
    <3>1. /\ submissions[s].bounty \in 1..Len(bounties)
          /\ bounties[submissions[s].bounty].count > 0
          /\ submissions[s].status = "Accepted"
               => LET d == bounties[submissions[s].bounty]
                  IN d.status = "Paid" /\ d.winner = s
      BY DEF BountyInv, OneWinner, IsBounty
    <3>2. CASE submissions[s].bounty = b
      BY <1>2, <1>3, <1>4, <3>1, <3>2
    <3>3. CASE submissions[s].bounty # b
      BY <1>4, <3>1, <3>3
    <3> QED
      BY <3>2, <3>3
  <2>2. ASSUME NEW d \in 1..Len(bounties)
        PROVE  /\ bounties'[d].status = "Paid" =>
                    /\ bounties'[d].winner \in 1..Len(submissions)
                    /\ submissions[bounties'[d].winner].bounty = d
                    /\ submissions[bounties'[d].winner].status = "Accepted"
               /\ bounties'[d].status = "Cancelled" => bounties'[d].count = 0
    <3>1. CASE d = b
      BY <1>2, <1>4, <3>1
    <3>2. CASE d # b
      <4>1. bounties'[d] = bounties[d]
        BY <1>4, <3>2
      <4> QED
        BY <4>1 DEF BountyInv, OneWinner
    <3> QED
      BY <3>1, <3>2
  <2> QED
    BY <1>4, <2>1, <2>2 DEF OneWinner, IsBounty
<1> QED
  BY <1>5, <1>8, <1>9 DEF BountyInv

LEMMA CloseExpiredInv ==
  ASSUME SoundBounties, BountyInv, NEW b \in BountyIds, CloseExpired(b)
  PROVE  BountyInv'
<1>1. IsOpen(b) /\ PayBounty(b, bounties[b].sponsor) /\ UNCHANGED <<ledgerSeq, submissions>>
  BY DEF CloseExpired
<1>2. bounties' = [bounties EXCEPT ![b] = [bounties[b] EXCEPT !.status = "Expired"]]
  BY <1>1 DEF CloseExpired, IsOpen, IsBounty
<1> QED
  BY <1>1, <1>2, GoesBack

LEMMA CancelInv ==
  ASSUME SoundBounties, BountyInv, NEW sponsor \in Participants, NEW b \in BountyIds,
         CancelBounty(sponsor, b)
  PROVE  BountyInv'
<1>1. /\ IsOpen(b) /\ PayBounty(b, bounties[b].sponsor) /\ UNCHANGED <<ledgerSeq, submissions>>
      /\ bounties[b].count = 0
  BY DEF CancelBounty
<1>2. bounties' = [bounties EXCEPT ![b] = [bounties[b] EXCEPT !.status = "Cancelled"]]
  BY <1>1 DEF CancelBounty, IsOpen, IsBounty
<1> QED
  BY <1>1, <1>2, GoesBack

LEMMA AcceptInv ==
  ASSUME SoundBounties, BountyInv, NEW verifier \in Participants, NEW b \in BountyIds,
         NEW s \in 1..MaxSubmissions, AcceptSubmission(verifier, b, s)
  PROVE  BountyInv'
<1> DEFINE new == [bounties[b] EXCEPT !.status = "Paid", !.winner = s]
<1>1. /\ IsOpen(b) /\ IsBounty(b) /\ bounties[b] \in Bounty /\ bounties[b].status = "Open"
      /\ s \in 1..Len(submissions) /\ submissions[s] \in Submission
      /\ submissions[s].bounty = b /\ submissions[s].status = "Pending"
      /\ BountyTypeOK /\ s \in Nat
  BY BountyRecord, SubmissionRecord DEF AcceptSubmission, IsPendingOf, IsOpen, BountyInv
<1>2. PayBounty(b, submissions[s].hunter) /\ submissions[s].hunter \in Participants
  BY <1>1 DEF AcceptSubmission, Submission
<1>3. /\ new \in Bounty /\ new.status = "Paid" /\ new.winner = s
      /\ new.amount = bounties[b].amount /\ new.count = bounties[b].count
  BY <1>1 DEF Bounty, BountyStatus
<1>4. bounties' = [bounties EXCEPT ![b] = new]
  BY <1>1 DEF AcceptSubmission
<1>5. submissions' = [submissions EXCEPT ![s].status = "Accepted"] /\ ledgerSeq' = ledgerSeq
  BY DEF AcceptSubmission
<1> HIDE DEF new
<1>6. /\ bounties' \in Seq(Bounty) /\ Len(bounties') = Len(bounties)
      /\ bounties'[b] = new
      /\ \A d \in 1..Len(bounties) : d # b => bounties'[d] = bounties[d]
  <2>1. BountyTypeOK /\ IsBounty(b) /\ new \in Bounty
    BY <1>1, <1>3
  <2> QED
    BY <1>4, <2>1, StoreBounty
<1>7. /\ submissions' \in Seq(Submission)
      /\ Len(submissions') = Len(submissions)
      /\ submissions'[s].status = "Accepted"
      /\ submissions'[s].bounty = b
      /\ \A r \in 1..Len(submissions) : submissions'[r].hunter = submissions[r].hunter
      /\ \A r \in 1..Len(submissions) : r # s => submissions'[r] = submissions[r]
  <2>1. "Accepted" \in SubmissionStatus
    BY DEF SubmissionStatus
  <2> QED
    BY <1>1, <1>5, <2>1, StoreSubmission
<1>8. BountyTypeOK'
  <2>1. balance' \in [Tokens -> Nat] /\ received' \in [BountyIds -> [Participants -> Nat]]
    BY <1>1, <1>2, PayOutTypes
  <2> QED
    BY <1>1, <1>5, <1>6, <1>7, <2>1 DEF BountyTypeOK
<1>9. BountyPayee(b)' = submissions[s].hunter
  BY <1>1, <1>3, <1>6, <1>7 DEF BountyPayee
<1>10. \A d \in BountyIds \ {b} : IsBounty(d) /\ ~IsOpen(d) => BountyPayee(d)' = BountyPayee(d)
  <2>1. ASSUME NEW d \in 1..Len(bounties), d # b
        PROVE  BountyPayee(d)' = BountyPayee(d)
    <3>1. bounties'[d] = bounties[d]
      BY <1>6, <2>1
    <3>2. bounties[d].status = "Paid" => bounties[d].winner \in 1..Len(submissions)
      BY DEF BountyInv, OneWinner
    <3> QED
      BY <1>7, <3>1, <3>2 DEF BountyPayee
  <2> QED
    BY <2>1 DEF IsBounty
<1>11. Funded' /\ BountyPaidOnce'
  BY <1>1, <1>2, <1>3, <1>4, <1>8, <1>9, <1>10, EndsPaid
<1>12. OneWinner'
  <2>1. ASSUME NEW r \in 1..Len(submissions)
        PROVE  /\ submissions'[r].bounty \in 1..Len(bounties)
               /\ bounties'[submissions'[r].bounty].count > 0
               /\ submissions'[r].status = "Accepted"
                    => LET d == bounties'[submissions'[r].bounty]
                       IN d.status = "Paid" /\ d.winner = r
    <3>1. /\ submissions[r].bounty \in 1..Len(bounties)
          /\ bounties[submissions[r].bounty].count > 0
          /\ submissions[r].status = "Accepted"
               => LET d == bounties[submissions[r].bounty]
                  IN d.status = "Paid" /\ d.winner = r
      BY DEF BountyInv, OneWinner, IsBounty
    <3>2. CASE r = s
      BY <1>1, <1>3, <1>6, <1>7, <3>1, <3>2
    <3>3. CASE r # s
      <4>1. submissions'[r] = submissions[r]
        BY <1>7, <3>3
      <4>2. submissions[r].bounty = b => submissions[r].status # "Accepted"
        BY <1>1, <3>1
      <4>3. CASE submissions[r].bounty = b
        BY <1>3, <1>6, <3>1, <4>1, <4>2, <4>3
      <4>4. CASE submissions[r].bounty # b
        BY <1>6, <3>1, <4>1, <4>4
      <4> QED
        BY <4>3, <4>4
    <3> QED
      BY <3>2, <3>3
  <2>2. ASSUME NEW d \in 1..Len(bounties)
        PROVE  /\ bounties'[d].status = "Paid" =>
                    /\ bounties'[d].winner \in 1..Len(submissions)
                    /\ submissions'[bounties'[d].winner].bounty = d
                    /\ submissions'[bounties'[d].winner].status = "Accepted"
               /\ bounties'[d].status = "Cancelled" => bounties'[d].count = 0
    <3>1. CASE d = b
      BY <1>1, <1>3, <1>6, <1>7, <3>1
    <3>2. CASE d # b
      <4>1. bounties'[d] = bounties[d]
        BY <1>6, <3>2
      <4>2. bounties[d].status = "Paid" =>
              /\ bounties[d].winner \in 1..Len(submissions)
              /\ submissions[bounties[d].winner].bounty = d
              /\ submissions[bounties[d].winner].status = "Accepted"
        BY DEF BountyInv, OneWinner
      <4>3. bounties[d].status = "Paid" => bounties[d].winner # s
        BY <1>1, <3>2, <4>2
      <4>4. bounties[d].status = "Cancelled" => bounties[d].count = 0
        BY DEF BountyInv, OneWinner
      <4> QED
        BY <1>7, <4>1, <4>2, <4>3, <4>4
    <3> QED
      BY <3>1, <3>2
  <2> QED
    BY <1>6, <1>7, <2>1, <2>2 DEF OneWinner, IsBounty
<1> QED
  BY <1>8, <1>11, <1>12 DEF BountyInv

LEMMA RejectInv ==
  ASSUME SoundBounties, BountyInv, NEW verifier \in Participants, NEW b \in BountyIds,
         NEW s \in 1..MaxSubmissions, RejectSubmission(verifier, b, s)
  PROVE  BountyInv'
<1>1. /\ s \in 1..Len(submissions) /\ submissions[s].status = "Pending" /\ BountyTypeOK
      /\ submissions' = [submissions EXCEPT ![s].status = "Rejected"]
      /\ UNCHANGED <<ledgerSeq, bounties, balance, received>>
  BY DEF RejectSubmission, IsPendingOf, BountyInv
<1>2. /\ submissions' \in Seq(Submission)
      /\ Len(submissions') = Len(submissions)
      /\ submissions'[s].status = "Rejected"
      /\ submissions'[s].bounty = submissions[s].bounty
      /\ \A r \in 1..Len(submissions) : submissions'[r].hunter = submissions[r].hunter
      /\ \A r \in 1..Len(submissions) : r # s => submissions'[r] = submissions[r]
  <2>1. "Rejected" \in SubmissionStatus
    BY DEF SubmissionStatus
  <2> QED
    BY <1>1, <2>1, StoreSubmission
<1>3. BountyTypeOK'
  BY <1>1, <1>2 DEF BountyTypeOK
<1>4. Funded'
  <2>1. \A t \in Tokens : PromisedIn(t)' = PromisedIn(t)
    BY <1>1 DEF PromisedIn, IsOpen, IsBounty
  <2>2. \A t \in Tokens : Total(PromisedIn(t))' = Total(PromisedIn(t))
    BY <2>1
  <2> QED
    BY <1>1, <2>2 DEF BountyInv, Funded
<1>5. BountyPaidOnce'
  <2>1. \A d \in 1..Len(bounties) : BountyPayee(d)' = BountyPayee(d)
    <3>1. \A d \in 1..Len(bounties) : bounties[d].status = "Paid"
            => bounties[d].winner \in 1..Len(submissions)
      BY DEF BountyInv, OneWinner
    <3> QED
      BY <1>1, <1>2, <3>1 DEF BountyPayee
  <2> QED
    BY <1>1, <2>1 DEF BountyInv, BountyPaidOnce, IsOpen, IsBounty
<1>6. OneWinner'
  <2>1. ASSUME NEW r \in 1..Len(submissions)
        PROVE  /\ submissions'[r].bounty \in 1..Len(bounties)
               /\ bounties[submissions'[r].bounty].count > 0
               /\ submissions'[r].status = "Accepted"
                    => LET d == bounties[submissions'[r].bounty]
                       IN d.status = "Paid" /\ d.winner = r
    <3>1. /\ submissions[r].bounty \in 1..Len(bounties)
          /\ bounties[submissions[r].bounty].count > 0
          /\ submissions[r].status = "Accepted"
               => LET d == bounties[submissions[r].bounty]
                  IN d.status = "Paid" /\ d.winner = r
      BY DEF BountyInv, OneWinner, IsBounty
    <3>2. CASE r = s
      BY <1>2, <3>1, <3>2
    <3>3. CASE r # s
      BY <1>2, <3>1, <3>3
    <3> QED
      BY <3>2, <3>3
  <2>2. ASSUME NEW d \in 1..Len(bounties)
        PROVE  /\ bounties[d].status = "Paid" =>
                    /\ bounties[d].winner \in 1..Len(submissions)
                    /\ submissions'[bounties[d].winner].bounty = d
                    /\ submissions'[bounties[d].winner].status = "Accepted"
               /\ bounties[d].status = "Cancelled" => bounties[d].count = 0
    <3>1. /\ bounties[d].status = "Paid" =>
               /\ bounties[d].winner \in 1..Len(submissions)
               /\ submissions[bounties[d].winner].bounty = d
               /\ submissions[bounties[d].winner].status = "Accepted"
          /\ bounties[d].status = "Cancelled" => bounties[d].count = 0
      BY DEF BountyInv, OneWinner
    <3>2. bounties[d].status = "Paid" => bounties[d].winner # s
      BY <1>1, <3>1
    <3> QED
      BY <1>2, <3>1, <3>2
  <2> QED
    BY <1>1, <1>2, <2>1, <2>2 DEF OneWinner, IsBounty
<1> QED
  BY <1>3, <1>4, <1>5, <1>6 DEF BountyInv

-----------------------------------------------------------------------------
(* The theorems.                                                           *)

LEMMA BountyInitInv == SoundBounties /\ BountyInit => BountyInv
<1> SUFFICES ASSUME SoundBounties, BountyInit PROVE BountyInv
  OBVIOUS
<1>1. Len(bounties) = 0 /\ Len(submissions) = 0 /\ 1..0 = {}
      /\ \A b : ~IsBounty(b) /\ ~IsOpen(b)
  BY DEF BountyInit, IsBounty, IsOpen
<1>2. BountyTypeOK
  BY <1>1 DEF BountyInit, BountyTypeOK, SoundBounties
<1>3. Funded
  <2>1. ASSUME NEW t \in Tokens
        PROVE  balance[t] = Total(PromisedIn(t))
    <3>1. PromisedIn(t) \in [BountyIds -> Nat] /\ \A b \in BountyIds : PromisedIn(t)[b] = 0
      BY <1>1 DEF PromisedIn
    <3>2. Total(PromisedIn(t)) = 0
      BY <3>1, TotalZero
    <3> QED
      BY <3>2 DEF BountyInit
  <2> QED
    BY <2>1 DEF Funded
<1>4. BountyPaidOnce /\ OneWinner
  BY <1>1 DEF BountyInit, BountyPaidOnce, OneWinner
<1> QED
  BY <1>2, <1>3, <1>4 DEF BountyInv

LEMMA BountyNextInv == SoundBounties /\ BountyInv /\ [BountyNext]_bountyVars => BountyInv'
<1> SUFFICES ASSUME SoundBounties, BountyInv, [BountyNext]_bountyVars PROVE BountyInv'
  OBVIOUS
<1>1. CASE \E sponsor, verifier \in Participants, token \in Tokens, amount \in Rewards,
              deadline \in Deadlines : CreateBounty(sponsor, token, amount, verifier, deadline)
  BY <1>1, CreateInv
<1>2. CASE \E b \in BountyIds, a \in Participants, payload \in Payloads : SubmitPayload(a, b, payload)
  BY <1>2, SubmitInv
<1>3. CASE \E b \in BountyIds, a \in Participants, s \in 1..MaxSubmissions :
             AcceptSubmission(a, b, s) \/ RejectSubmission(a, b, s)
  BY <1>3, AcceptInv, RejectInv
<1>4. CASE \E b \in BountyIds, a \in Participants : CancelBounty(a, b)
  BY <1>4, CancelInv
<1>5. CASE \E b \in BountyIds : CloseExpired(b)
  BY <1>5, CloseExpiredInv
<1>6. CASE LedgerCloses \/ UNCHANGED bountyVars
  <2>1. /\ UNCHANGED <<bounties, submissions, balance, received>>
        /\ ledgerSeq' = ledgerSeq \/ ledgerSeq' = ledgerSeq + 1
    BY <1>6 DEF LedgerCloses, bountyVars
  <2>2. BountyTypeOK'
    BY <2>1 DEF BountyInv, BountyTypeOK
  <2> QED
    BY <2>1, <2>2 DEF BountyInv, Funded, BountyPaidOnce, OneWinner, PromisedIn, BountyPayee, IsOpen, IsBounty
<1> QED
  BY <1>1, <1>2, <1>3, <1>4, <1>5, <1>6 DEF BountyNext

LEMMA BountyInvHolds == ASSUME SoundBounties PROVE BountySpec => []BountyInv
<1>1. BountyInit => BountyInv
  BY BountyInitInv
<1>2. BountyInv /\ [BountyNext]_bountyVars => BountyInv'
  BY BountyNextInv
<1> QED
  BY <1>1, <1>2, PTL DEF BountySpec

(* For any number of bounties, hunters and tokens, no order of submissions,*)
(* acceptances, cancellations and expiries makes the contract hold more or *)
(* less of a token than its open bounties promise.                         *)
THEOREM BountiesAreFunded == ASSUME SoundBounties PROVE BountySpec => []Funded
<1>1. BountyInv => Funded
  BY DEF BountyInv
<1> QED
  BY <1>1, BountyInvHolds, PTL

(* Every bounty that ended paid its amount once, to the hunter of its      *)
(* accepted submission or back to its sponsor; no other account got a part *)
(* of it, and no bounty with a submission was cancelled.                   *)
THEOREM BountiesArePaidOnce == ASSUME SoundBounties PROVE BountySpec => [](BountyPaidOnce /\ OneWinner)
<1>1. BountyInv => BountyPaidOnce /\ OneWinner
  BY DEF BountyInv
<1> QED
  BY <1>1, BountyInvHolds, PTL
=============================================================================
