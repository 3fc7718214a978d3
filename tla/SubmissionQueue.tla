--------------------------- MODULE SubmissionQueue ---------------------------
(***************************************************************************)
(* The bounded work queue of the core SDK (fleet/submissionQueue.ts).      *)
(* Tasks wait in order of submission; a task with an ordering key starts   *)
(* only when no other task of that key runs; a failed attempt is repeated  *)
(* when its error is classified as retryable and attempts are left.        *)
(***************************************************************************)
EXTENDS Naturals, Sequences, FiniteSets

CONSTANTS
    Tasks,
    KeyOf(_),       \* options.orderingKey of a task
    NoKey,
    Concurrency,    \* options.concurrency
    MaxQueueSize,   \* options.maxQueueSize
    MaxAttempts     \* options.maxAttempts

ASSUME QueueAssumption ==
    /\ IsFiniteSet(Tasks)
    /\ Concurrency \in Nat \ {0} /\ MaxAttempts \in Nat \ {0}
    /\ MaxQueueSize \in Nat

VARIABLES
    queue,         \* what #schedule works on: pending, running, activeKeys
    attempt,       \* executions of each task so far
    taskState,     \* where each task is, and at the end how it ended
    queueClosed,
    order          \* the tasks in the order their promises were made

queueVars == <<queue, attempt, taskState, queueClosed, order>>

QueueInit ==
    /\ queue = [pending |-> <<>>, running |-> {}, activeKeys |-> {}]
    /\ attempt = [t \in Tasks |-> 0]
    /\ taskState = [t \in Tasks |-> "new"]
    /\ queueClosed = FALSE
    /\ order = <<>>

-----------------------------------------------------------------------------

Blocked(t, keys) == KeyOf(t) # NoKey /\ KeyOf(t) \in keys

\* The keys of the running tasks are forgotten.
MutantStartable(q) == DOMAIN q.pending

Startable(q) == {i \in DOMAIN q.pending : ~Blocked(q.pending[i], q.activeKeys)}

FirstOf(S) == CHOOSE i \in S : \A j \in S : i <= j

RemoveIndex(s, i) == SubSeq(s, 1, i - 1) \o SubSeq(s, i + 1, Len(s))

\* One turn of the loop of #schedule: the first startable task runs.
StartFirst(q) ==
    LET i == FirstOf(Startable(q))
        t == q.pending[i]
    IN  [pending    |-> RemoveIndex(q.pending, i),
         running    |-> q.running \cup {t},
         activeKeys |-> q.activeKeys \cup ({KeyOf(t)} \ {NoKey})]

CanStart(q) == Cardinality(q.running) < Concurrency /\ Startable(q) # {}

\* #schedule: turn after turn, while a slot and a startable task are left.
Schedule(q) ==
    LET turn[n \in 0 .. Concurrency] ==
          IF n = 0 THEN q
          ELSE IF CanStart(turn[n - 1]) THEN StartFirst(turn[n - 1])
          ELSE turn[n - 1]
    IN  turn[Concurrency]

\* The states after #schedule made q of the queue: what it started runs.
Scheduled(q, states) ==
    /\ queue' = Schedule(q)
    /\ taskState' = [t \in Tasks |->
                       IF t \in queue'.running \ queue.running
                       THEN "running" ELSE states[t]]
    /\ attempt' = [t \in Tasks |->
                       IF t \in queue'.running \ queue.running
                       THEN 1 ELSE attempt[t]]

Drained == queue.pending = <<>> /\ queue.running = {}

-----------------------------------------------------------------------------

\* submit(): refused when closed, or when it cannot start at once and the
\* pending bound is reached.
Submit(t) ==
    LET startsNow == /\ Cardinality(queue.running) < Concurrency
                     /\ ~Blocked(t, queue.activeKeys)
    IN
    /\ taskState[t] = "new"
    /\ \/ /\ queueClosed \/ (~startsNow /\ Len(queue.pending) >= MaxQueueSize)
          /\ taskState' = [taskState EXCEPT ![t] = "refused"]
          /\ UNCHANGED <<queue, attempt, order>>
       \/ /\ ~queueClosed
          /\ startsNow \/ Len(queue.pending) < MaxQueueSize
          /\ Scheduled([queue EXCEPT !.pending = Append(@, t)],
                       [taskState EXCEPT ![t] = "pending"])
          /\ order' = Append(order, t)
    /\ UNCHANGED queueClosed

\* The abort signal of a pending task; a running one no longer listens.
AbortPending(t) ==
    /\ taskState[t] = "pending"
    /\ \E i \in DOMAIN queue.pending :
          /\ queue.pending[i] = t
          /\ queue' = [queue EXCEPT !.pending = RemoveIndex(@, i)]
    /\ taskState' = [taskState EXCEPT ![t] = "refused"]
    /\ UNCHANGED <<attempt, queueClosed, order>>

\* The finally of a run: its slot and its key are free again.
Settle(t, outcome) ==
    /\ Scheduled([pending    |-> queue.pending,
                  running    |-> queue.running \ {t},
                  activeKeys |-> queue.activeKeys \ {KeyOf(t)}],
                 [taskState EXCEPT ![t] = outcome])
    /\ UNCHANGED <<queueClosed, order>>

MayRetry(t, class) == class = "retryable" /\ attempt[t] < MaxAttempts

\* #run after a failed attempt, by the class of the error.
Fail(t, class) ==
    \/ /\ MayRetry(t, class)
       /\ taskState' = [taskState EXCEPT ![t] = "sleeping"]
       /\ UNCHANGED <<queue, attempt, queueClosed, order>>
    \/ ~MayRetry(t, class) /\ Settle(t, "failed")

\* The back-off is over: the task runs again.
Retry(t) ==
    /\ taskState[t] = "sleeping"
    /\ attempt' = [attempt EXCEPT ![t] = @ + 1]
    /\ taskState' = [taskState EXCEPT ![t] = "running"]
    /\ UNCHANGED <<queue, queueClosed, order>>

\* close(): no new work; the promise resolves when the queue has drained.
CloseQueue ==
    /\ ~queueClosed
    /\ queueClosed' = TRUE
    /\ UNCHANGED <<queue, attempt, taskState, order>>

QueueNext ==
    \/ \E t \in Tasks :
          \/ Submit(t) \/ AbortPending(t) \/ Retry(t)
          \/ /\ taskState[t] = "running"
             /\ \/ Settle(t, "completed")
                \/ \E class \in {"retryable", "expired", "permanent"} : Fail(t, class)
    \/ CloseQueue

QueueSpec == QueueInit /\ [][QueueNext]_queueVars

-----------------------------------------------------------------------------

Ended == {"completed", "failed", "refused"}

QueueTypeOK ==
    /\ queue.pending \in Seq(Tasks) /\ queue.running \subseteq Tasks
    /\ attempt \in [Tasks -> Nat]
    /\ taskState \in [Tasks -> {"new", "pending", "running", "sleeping"} \cup Ended]
    /\ queueClosed \in BOOLEAN
    /\ order \in Seq(Tasks)

(***************************************************************************)
(* "Tasks with the same key never overlap": the runs under way, back-offs  *)
(* between two attempts included, have different keys, and the recorded    *)
(* active keys are exactly theirs.                                         *)
(***************************************************************************)
KeysNeverOverlap ==
    /\ \A t, u \in queue.running :
          KeyOf(t) = KeyOf(u) /\ KeyOf(t) # NoKey => t = u
    /\ queue.activeKeys = {KeyOf(t) : t \in queue.running} \ {NoKey}

Started(t) == attempt[t] > 0

(***************************************************************************)
(* "Key-scoped ordering": of two accepted tasks with one key the earlier   *)
(* one has started, or was withdrawn, whenever the later one has started.  *)
(***************************************************************************)
KeysInOrder ==
    \A i, j \in DOMAIN order :
      /\ i < j
      /\ KeyOf(order[i]) = KeyOf(order[j]) /\ KeyOf(order[i]) # NoKey
      /\ Started(order[j])
      => Started(order[i]) \/ taskState[order[i]] = "refused"

(***************************************************************************)
(* A slot is idle only when no pending task could use it, and the pending  *)
(* tasks stay within maxQueueSize.                                         *)
(***************************************************************************)
QueueIsBusy ==
    /\ Cardinality(queue.running) <= Concurrency
    /\ Len(queue.pending) <= MaxQueueSize
    /\ ~CanStart(queue)

\* The scheduler's promises together.
QueueSafe == KeysNeverOverlap /\ KeysInOrder /\ QueueIsBusy
=============================================================================
