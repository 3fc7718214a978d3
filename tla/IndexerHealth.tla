--------------------------- MODULE IndexerHealth ---------------------------
(***************************************************************************)
(* What an operator is told of the indexer: the loop records its runs and  *)
(* its failures (indexer/progress.ts), and the query server answers health *)
(* checks and renders metrics from them and from the store (api.ts), at    *)
(* any moment of a run, before the first one, and after a restart.         *)
(***************************************************************************)
EXTENDS Integers, FiniteSetsExt

CONSTANTS
    Heads,            \* ledgers the RPC may report as its latest
    Replays,          \* ledgers an operator may have a run start at
    RollbackWindow,
    FinalityLag,
    IndexRuns,        \* bound: runs of a process
    MaxRestarts,
    Unknown           \* what nothing is known of

VARIABLES
    checkpoint,       \* the next ledger of the store
    stored,           \* ledgers of the events in the store
    run,              \* [at, from, head]: the run in progress
    progress,         \* IndexerProgressReporter
    seen,             \* the highest head this process was told
    restarts

healthVars == <<checkpoint, stored, run, progress, seen, restarts>>

StartLedger == 1
Waiting == [at |-> "waiting", from |-> 0, head |-> 0]

\* The constructor.
NoProgress ==
    [latest |-> Unknown, indexed |-> Unknown, runs |-> 0, successes |-> 0, failures |-> 0,
     events |-> 0, undecoded |-> 0, error |-> FALSE]

HealthInit ==
    /\ checkpoint = Unknown /\ stored = {} /\ run = Waiting
    /\ progress = NoProgress /\ seen = 0 /\ restarts = 0

\* A run goes back by the rollback window, but not before the start; an
\* operator may have one start elsewhere.
FromLedger(override) ==
    IF override # Unknown THEN Max({StartLedger, override})
    ELSE IF checkpoint = Unknown THEN StartLedger
    ELSE Max({StartLedger, checkpoint - RollbackWindow})

StartRun(override) ==
    /\ run.at = "waiting" /\ progress.runs < IndexRuns
    /\ run' = [at |-> "fetching", from |-> FromLedger(override), head |-> 0]
    /\ UNCHANGED <<checkpoint, stored, progress, seen, restarts>>

MutantFetch(head) ==
    /\ run.at = "fetching"
    /\ run' = [run EXCEPT !.at = "decoding", !.head = head]
    /\ seen' = head
    /\ UNCHANGED <<checkpoint, stored, progress, restarts>>

\* recordLatestLedger: as soon as the head is known.
Fetch(head) ==
    /\ run.at = "fetching"
    /\ run' = [run EXCEPT !.at = "decoding", !.head = head]
    /\ seen' = head
    /\ progress' = [progress EXCEPT !.latest = head]
    /\ UNCHANGED <<checkpoint, stored, restarts>>

Through == Max({run.from - 1, run.head - FinalityLag})

\* recordRun: every ledger has an event; some do not decode.  A range that
\* ends before it starts is not committed.
RecordRun ==
    /\ run.at = "decoding" /\ run' = Waiting
    /\ \E undecoded \in SUBSET (run.from..Through) :
         LET decoded == (run.from..Through) \ undecoded IN
         /\ IF Through < run.from THEN UNCHANGED <<checkpoint, stored>>
            ELSE checkpoint' = Through + 1 /\ stored' = (stored \ (run.from..Through)) \cup decoded
         /\ progress' = [progress EXCEPT
              !.runs = @ + 1, !.successes = @ + 1, !.failures = 0,
              !.events = @ + Cardinality(decoded), !.undecoded = @ + Cardinality(undecoded),
              !.latest = run.head, !.indexed = Through, !.error = FALSE]
    /\ UNCHANGED <<seen, restarts>>

\* recordFailure: the RPC, or the database, has failed.
RecordFailure ==
    /\ run.at # "waiting" /\ run' = Waiting
    /\ progress' = [progress EXCEPT !.runs = @ + 1, !.failures = @ + 1, !.error = TRUE]
    /\ UNCHANGED <<checkpoint, stored, seen, restarts>>

Restart ==
    /\ restarts < MaxRestarts /\ restarts' = restarts + 1
    /\ run' = Waiting /\ progress' = NoProgress /\ seen' = 0
    /\ UNCHANGED <<checkpoint, stored>>

\* An operator replays what is stored, or starts an empty store late: a start
\* beyond the checkpoint would leave a gap that nothing tells of.
Replayable(ledger) == checkpoint # Unknown => ledger <= checkpoint

HealthNext ==
    \/ StartRun(Unknown)
    \/ \E ledger \in Replays : Replayable(ledger) /\ StartRun(ledger)
    \/ \E head \in Heads : Fetch(head)
    \/ RecordRun \/ RecordFailure \/ Restart

HealthSpec == HealthInit /\ [][HealthNext]_healthVars

SoundHealth ==
    /\ Heads \cup Replays \subseteq Nat /\ {RollbackWindow, FinalityLag, IndexRuns, MaxRestarts} \subseteq Nat
    /\ Unknown \notin Int

-----------------------------------------------------------------------------
(* What is answered.                                                       *)

\* snapshot
Lag(p) == IF Unknown \in {p.latest, p.indexed} THEN Unknown ELSE Max({0, p.latest - p.indexed})
Snapshot ==
    [started |-> progress.successes > 0, healthy |-> progress.failures = 0, lag |-> Lag(progress)]

\* A query server without a reporter.
UnknownProgress == [started |-> FALSE, healthy |-> TRUE, lag |-> Unknown]

\* GET /health, with and without a reporter.
Health(p) ==
    [ok |-> TRUE, status |-> IF p.healthy THEN "ok" ELSE "degraded",
     nextLedger |-> checkpoint, lag |-> p.lag, eventsStored |-> Cardinality(stored)]

\* renderPrometheusMetrics: nothing is said where a number would be a lie.
Metrics(p) ==
    [up |-> p.healthy, started |-> p.started,
     lag |-> IF p.lag = Unknown THEN {} ELSE {p.lag},
     lastError |-> progress.error, processed |-> progress.events]

-----------------------------------------------------------------------------

\* The lag that is reported is never less than what the store is behind the
\* head the process saw last, with failed runs, heads that fall back, replays
\* and restarts in between, and it is not reported before a run has
\* succeeded (progress.ts: "zero lag and unknown lag are not the same claim").
LagIsNotUnderstated ==
    /\ Snapshot.lag # Unknown =>
         Snapshot.started /\ (checkpoint # Unknown => Snapshot.lag >= seen - (checkpoint - 1))
    /\ ~Snapshot.started => Health(Snapshot).lag = Unknown /\ Metrics(Snapshot).lag = {}
    /\ Health(UnknownProgress).lag = Unknown

\* Health, the up gauge and the error gauge tell the same story, and work done
\* is never less than what it left in the store, unless an earlier process did it.
HealthAndMetricsAgree ==
    /\ Health(Snapshot).status = "ok" <=> Metrics(Snapshot).up
    /\ Metrics(Snapshot).up <=> ~Metrics(Snapshot).lastError
    /\ restarts = 0 => Metrics(Snapshot).processed >= Health(Snapshot).eventsStored
============================================================================
