-------------------------------- MODULE Fleet --------------------------------
(***************************************************************************)
(* The calls of an agent with a fleet of channel accounts: the agent puts  *)
(* every mutation into its submission queue (agent/StellarAgent.ts), a     *)
(* running task leases an account, builds, signs, submits and polls one    *)
(* transaction (agent/invocation.ts) and gives the account back.           *)
(*                                                                         *)
(* The network is external: it accepts one pending transaction per source  *)
(* account, of the next sequence number, and later includes it, with any   *)
(* of the envelopes sent for it, or lets it expire.  Requests and answers  *)
(* may be lost, and a transaction may be read before it is visible.        *)
(***************************************************************************)
EXTENDS ChannelPool, SubmissionQueue

CONSTANTS
    MaxSends,    \* attempts of sendEnvelope for one envelope (3 in the code)
    MaxPolls,    \* polls for the result (30 in the code)
    BumpMode,    \* feeBump.mode, or "off"
    BumpAfter,   \* feeBump.triggerAfterAttempts
    MaxBumps     \* feeBump.maxBumps

ASSUME FleetAssumption ==
    /\ Callers = Tasks
    /\ MaxSends \in Nat \ {0} /\ MaxPolls \in Nat \ {0} /\ MaxBumps \in Nat
    /\ BumpMode \in {"off", "always", "on_expiry"}

VARIABLES
    inv,         \* the invocation each call is in
    sequence,    \* the ledger's sequence number of each account
    mempool,     \* the envelopes the network has accepted
    chain        \* the transactions in the ledger

fleetVars == <<poolVars, queueVars, inv, sequence, mempool, chain>>
networkVars == <<sequence, mempool, chain>>

\* envelope 0 is the signed transaction, n > 0 its n-th fee bump.
Idle == [at |-> "idle", seq |-> 0, envelope |-> 0, sends |-> 0, polls |-> 0,
         result |-> "none"]

CallsInit ==
    /\ QueueInit
    /\ inv = [c \in Callers |-> Idle]
    /\ sequence = [a \in Accounts |-> 0]
    /\ mempool = {} /\ chain = {}

FleetInit == PoolInit /\ CallsInit

-----------------------------------------------------------------------------

To(c, at) == inv' = [inv EXCEPT ![c].at = at]

\* A throw or the return: the finally of the invocation gives the lease back.
End(c, result) ==
    inv' = [inv EXCEPT ![c] = [Idle EXCEPT !.at = "ending", !.result = result]]

At(c, at) == taskState[c] = "running" /\ inv[c].at = at

\* StellarAgent: a mutation enters the queue; with several attempts the
\* application has opted in to repeating whole calls.
Call(c) == Submit(c) /\ UNCHANGED <<poolVars, inv, networkVars>>

Again(c) ==
    /\ Retry(c)
    /\ inv' = [inv EXCEPT ![c] = Idle]
    /\ UNCHANGED <<poolVars, networkVars>>

\* runInvocation asks the pool for an account.
AskForAccount(c) ==
    /\ At(c, "idle") /\ Lease(c)
    /\ To(c, "leasing")
    /\ UNCHANGED <<queueVars, networkVars>>

\* The lease timeout of the pool (30 s by default).
LeaseTimeout(c) ==
    /\ Abandon(c)
    /\ UNCHANGED <<queueVars, inv, networkVars>>

Account(c) == lease[c].account

\* getAccount: the transaction will use the next sequence number.
Load(c) ==
    /\ At(c, "leasing") /\ lease[c].at = "held"
    /\ \/ inv' = [inv EXCEPT ![c].at = "loaded", ![c].seq = sequence[Account(c)] + 1]
       \/ End(c, "NETWORK_ERROR")
    /\ UNCHANGED <<poolVars, queueVars, networkVars>>

\* Fee, simulation, auth entries, envelope signature and, in mode always,
\* the fee bump that is sent instead of the transaction.
Prepare(c) ==
    /\ At(c, "loaded")
    /\ \/ inv' = [inv EXCEPT ![c].at = "sending",
                    ![c].envelope = IF BumpMode = "always" THEN 1 ELSE 0]
       \/ \E error \in {"SIMULATION_FAILED", "NETWORK_ERROR"} : End(c, error)
    /\ UNCHANGED <<poolVars, queueVars, networkVars>>

-----------------------------------------------------------------------------

Envelope(c) == [call |-> c, run |-> attempt[c], envelope |-> inv[c].envelope,
                account |-> Account(c), seq |-> inv[c].seq]

SameInner(e, f) == e.call = f.call /\ e.run = f.run
PendingOf(a) == {e \in mempool : e.account = a}

\* The network takes an envelope with the next sequence number, a known one
\* again, and a fee bump of the pending transaction in its place or beside it.
NetworkTakes(e) ==
    /\ e.seq = sequence[e.account] + 1
    /\ \A f \in PendingOf(e.account) : SameInner(e, f)

Included(c) == {t \in chain : t.call = c /\ t.run = attempt[c]}
Visible(c) == {t \in Included(c) : t.envelope = inv[c].envelope}

\* The transaction is built again instead of being sent again.
MutantSendAgain(c, error) ==
    IF inv[c].sends + 1 < MaxSends
    THEN inv' = [inv EXCEPT ![c].at = "loaded", ![c].sends = @ + 1,
                            ![c].seq = sequence[Account(c)] + 1]
    ELSE End(c, error)

\* It is sent until the network answers otherwise.
MutantSendForEver(c, error) == To(c, "sending") /\ error # "none"

\* What follows a failed or refused send: another one, or after the last
\* the error of that send.
SendAgain(c, error) ==
    IF inv[c].sends + 1 < MaxSends
    THEN inv' = [inv EXCEPT ![c].at = "sending", ![c].sends = @ + 1]
    ELSE End(c, error)

\* The envelope is with the network: its hash is polled while polls are left.
Sent(c) == IF inv[c].polls < MaxPolls THEN To(c, "polling")
           ELSE End(c, "TRANSACTION_TIMEOUT")

\* sendTransaction answers PENDING or DUPLICATE.
SendAccepted(c) ==
    /\ At(c, "sending") /\ NetworkTakes(Envelope(c))
    /\ mempool' = mempool \cup {Envelope(c)}
    /\ Sent(c)
    /\ UNCHANGED <<poolVars, queueVars, sequence, chain>>

\* It answers TRY_AGAIN_LATER, or ERROR.
SendRefused(c) ==
    /\ At(c, "sending")
    /\ \/ SendAgain(c, "SUBMISSION_FAILED")
       \/ ~NetworkTakes(Envelope(c)) /\ End(c, "SUBMISSION_FAILED")
    /\ UNCHANGED <<poolVars, queueVars, networkVars>>

\* The transport fails before the network has seen the bytes, or after.
SendLost(c) ==
    /\ At(c, "sending")
    /\ \/ UNCHANGED mempool
       \/ NetworkTakes(Envelope(c)) /\ mempool' = mempool \cup {Envelope(c)}
    /\ To(c, "checking")
    /\ UNCHANGED <<poolVars, queueVars, sequence, chain>>

\* Then the hash of the envelope is asked for: known is as good as accepted.
CheckSent(c) ==
    /\ At(c, "checking")
    /\ \/ Visible(c) # {} /\ Sent(c)
       \/ SendAgain(c, "NETWORK_ERROR")
    /\ UNCHANGED <<poolVars, queueVars, networkVars>>

-----------------------------------------------------------------------------

ShouldBump(c) ==
    /\ BumpMode = "on_expiry" /\ inv[c].envelope < MaxBumps
    /\ inv[c].polls + 1 >= BumpAfter

\* getTransaction for the hash sent last: a terminal status ends the call.
\* On NOT_FOUND a fee bump of the same transaction is signed and sent, whose
\* hash is the only one polled from then on; or the next poll follows, or
\* the timeout.  The RPC and the signers may fail.
Poll(c) ==
    /\ At(c, "polling")
    /\ \/ \E t \in Visible(c) :
            End(c, IF t.ok THEN "success" ELSE "TRANSACTION_FAILED")
       \/ End(c, "NETWORK_ERROR")
       \/ /\ ShouldBump(c)
          /\ inv' = [inv EXCEPT ![c].at = "sending", ![c].envelope = @ + 1,
                               ![c].sends = 0, ![c].polls = @ + 1]
       \/ /\ ~ShouldBump(c)
          /\ IF inv[c].polls + 1 < MaxPolls
             THEN inv' = [inv EXCEPT ![c].polls = @ + 1]
             ELSE End(c, "TRANSACTION_TIMEOUT")
    /\ UNCHANGED <<poolVars, queueVars, networkVars>>

\* finally: lease.release, committed when a send was accepted.
GiveBack(c) ==
    /\ At(c, "ending") /\ Release(c)
    /\ To(c, "returning")
    /\ UNCHANGED <<queueVars, networkVars>>

AccountReclaimed(c) ==
    /\ Reclaimed(c)
    /\ UNCHANGED <<queueVars, inv, networkVars>>

\* classifySubmissionError, on the codes of this pipeline.
Classify(error) ==
    CASE error = "TRANSACTION_TIMEOUT" -> "expired"
      [] error = "NETWORK_ERROR"       -> "retryable"
      [] OTHER                         -> "permanent"

\* The promise of the task settles and the queue goes on.
Answer(c, result) ==
    /\ inv' = [inv EXCEPT ![c] = [Idle EXCEPT !.at = "done", !.result = result]]
    /\ IF result = "success" THEN Settle(c, "completed")
       ELSE Fail(c, Classify(result))
    /\ UNCHANGED networkVars

Finish(c) ==
    /\ At(c, "returning") /\ lease[c] = NoLease
    /\ Answer(c, inv[c].result)
    /\ UNCHANGED poolVars

\* A rejected release replaces whatever the call returned or threw; a
\* rejected lease is no StellarAgentError and is wrapped as NETWORK_ERROR.
FinishRejected(c) ==
    /\ Forget(c)
    /\ \/ At(c, "returning") /\ Answer(c, "reclaim failed")
       \/ At(c, "leasing") /\ Answer(c, "NETWORK_ERROR")

-----------------------------------------------------------------------------

\* The network includes a pending transaction, successful or not, with one
\* of its envelopes; the others become invalid with the sequence number.
Include(e) ==
    /\ sequence' = [sequence EXCEPT ![e.account] = e.seq]
    /\ mempool' = mempool \ PendingOf(e.account)
    /\ \E ok \in BOOLEAN :
         chain' = chain \cup {[call |-> e.call, run |-> e.run,
                               envelope |-> e.envelope, ok |-> ok]}
    /\ UNCHANGED <<poolVars, queueVars, inv>>

\* Its time bound passes.
Expire(e) ==
    /\ mempool' = mempool \ PendingOf(e.account)
    /\ UNCHANGED <<poolVars, queueVars, inv, sequence, chain>>

PoolWork == PoolStep /\ UNCHANGED <<queueVars, inv, networkVars>>

\* The pool is closed without waiting for the calls.
MutantClosePool == queueClosed /\ Close /\ UNCHANGED <<queueVars, inv, networkVars>>

\* shutdown(): close the queue, wait until it has drained, close the pool.
ShutDown == CloseQueue /\ UNCHANGED <<poolVars, inv, networkVars>>
ClosePool == queueClosed /\ Drained /\ Close /\ UNCHANGED <<queueVars, inv, networkVars>>

Step(c) ==
    \/ AskForAccount(c) \/ Load(c) \/ Prepare(c)
    \/ SendAccepted(c) \/ SendRefused(c) \/ SendLost(c) \/ CheckSent(c)
    \/ Poll(c) \/ GiveBack(c) \/ AccountReclaimed(c)
    \/ Finish(c) \/ FinishRejected(c) \/ Again(c)

FleetNext ==
    \/ \E c \in Callers : Call(c) \/ Step(c) \/ LeaseTimeout(c)
    \/ \E e \in mempool : Include(e) \/ Expire(e)
    \/ PoolWork
    \/ ShutDown \/ ClosePool

(***************************************************************************)
(* Every await of a call ends: the RPC answers or its transport fails, a   *)
(* reclamation answers, back-offs and the lease timer fire.  Nothing is    *)
(* assumed of callers, of the factory's creations or of the network.       *)
(***************************************************************************)
FleetFairness == \A c \in Callers : WF_fleetVars(Step(c) \/ LeaseTimeout(c))

FleetSpec == FleetInit /\ [][FleetNext]_fleetVars /\ FleetFairness

-----------------------------------------------------------------------------

FleetTypeOK ==
    /\ PoolTypeOK /\ QueueTypeOK
    /\ inv \in [Callers ->
         [at : {"idle", "leasing", "loaded", "sending", "checking", "polling",
                "ending", "returning", "done"},
          seq : Nat, envelope : Nat, sends : Nat, polls : Nat,
          result : STRING]]
    /\ sequence \in [Accounts -> Nat]

Executions(c) == {t \in chain : t.call = c /\ t.ok}

(***************************************************************************)
(* With the agent's single attempt per call no call is executed twice,     *)
(* whatever is lost: resends repeat the same envelope and fee bumps wrap   *)
(* the same transaction, so one sequence number carries them all.          *)
(***************************************************************************)
AtMostOnce == MaxAttempts = 1 => \A c \in Callers : Cardinality(Executions(c)) <= 1

(***************************************************************************)
(* What a caller is told is what the ledger says: a success was executed,  *)
(* a failed transaction was included without effect, and a call that was   *)
(* refused, or failed in simulation, left nothing on the ledger and        *)
(* nothing pending.                                                        *)
(***************************************************************************)
ReportsAreTrue ==
    \A c \in Callers :
      /\ inv[c].result = "success" => Executions(c) # {}
      /\ MaxAttempts = 1 =>
           /\ inv[c].result = "TRANSACTION_FAILED" =>
                Included(c) # {} /\ Executions(c) = {}
           /\ taskState[c] = "refused" \/ inv[c].result = "SIMULATION_FAILED" =>
                /\ {t \in chain : t.call = c} = {}
                /\ {e \in mempool : e.call = c} = {}

\* The promises to the callers together.
CallsAreReported == AtMostOnce /\ ReportsAreTrue

(***************************************************************************)
(* An account in use belongs to a running invocation: the account a call   *)
(* builds, sends or polls with is its own lease until the call ends.       *)
(***************************************************************************)
UsesOwnAccount ==
    \A c \in Callers :
      inv[c].at \in {"loaded", "sending", "checking", "polling", "ending"} =>
        lease[c].at = "held" /\ c \in queue.running

(***************************************************************************)
(* shutdown() closes the pool only after the last accepted call: no call   *)
(* loses its lease or its account to a shutdown.                           *)
(***************************************************************************)
ShutdownIsOrderly ==
    poolClosed => /\ queueClosed
                  /\ \A c \in Callers : taskState[c] \in Ended \cup {"new"}
                  /\ entries = {}

(***************************************************************************)
(* Every call that enters the queue is answered.                           *)
(***************************************************************************)
Answered(c) == taskState[c] \in {"pending", "running"} ~> taskState[c] \in Ended
EveryCallIsAnswered == \A c \in Callers : Answered(c)

(***************************************************************************)
(* "Accepted transactions are never raced by another caller": when a call  *)
(* loads an account no other call has a transaction pending from it.       *)
(***************************************************************************)
NeverRaced ==
    \A c \in Callers :
      inv[c].at = "loaded" =>
        \A e \in PendingOf(Account(c)) : e.call = c

(***************************************************************************)
(* "The transaction expired before inclusion" is what TRANSACTION_TIMEOUT  *)
(* tells the caller.                                                       *)
(***************************************************************************)
TimeoutMeansExpired ==
    \A c \in Callers : inv[c].result = "TRANSACTION_TIMEOUT" => Included(c) = {}
=============================================================================
