--------------------------- MODULE ReportDelivery ---------------------------
(***************************************************************************)
(* packages/indexer, delivery.ts: scheduled reports.  Workers (processes   *)
(* that share one report database) generate an artifact for every period   *)
(* that closed and deliver it to each destination under a lease.           *)
(*                                                                         *)
(* One schedule, whose run r covers the r-th period.  The clock is         *)
(* abstracted to what is overdue: closed periods, retries whose backoff    *)
(* elapsed, leases that expired.                                           *)
(***************************************************************************)
EXTENDS Integers, FiniteSets

CONSTANTS
  Workers, Destinations,
  MaxAttempts, MaxCatchUpRuns, ClaimLimit, Absent,
  MaxRuns,          \* bound: periods that close
  MaxIncidents,     \* bound: events indexed after their period closed,
                    \* crashes of workers, saved schedules and replayed dead
                    \* letters together
  MaxOverruns,      \* bound: leases that expire while their worker lives
  Edited            \* whether the operator edits schedules and deliveries

ASSUME DeliveryAssumption ==
  /\ MaxAttempts \in Nat \ {0}
  /\ MaxCatchUpRuns \in Nat \ {0}
  /\ ClaimLimit \in Nat \ {0}
  /\ MaxRuns \in Nat /\ MaxIncidents \in Nat /\ MaxOverruns \in Nat
  /\ Edited \in BOOLEAN

VARIABLES
  closed,     \* periods closed so far
  books,      \* the content a report of each run would have now
  nextRun,    \* report_schedules.next_run_at
  enabled,    \* report_schedules.enabled
  artifacts,  \* report_artifacts: the content stored for each run
  rows,       \* report_deliveries
  due,        \* deliveries whose next_attempt_at passed
  expired,    \* deliveries whose lease_until passed
  worker,     \* what each worker's tick is doing
  copies,     \* history: copies each destination received, less those a
              \* worker took for undelivered and the replays asked for
  contents,   \* history: contents the destinations received
  bounds      \* [incidents, overruns] so far

vars == <<closed, books, nextRun, enabled, artifacts, rows, due, expired,
          worker, copies, contents, bounds>>
schedule == <<nextRun, enabled>>
history == <<copies, contents>>

Runs == 0..MaxRuns - 1
Ids == Runs \X Destinations
RunOf(id) == id[1]

Contents == 0..MaxIncidents
Statuses == {"pending", "delivering", "retry", "delivered", "dead_letter"}

\* A missing row or value is told from every content and every status.
ASSUME AbsentAssumption == Absent \notin Contents /\ Absent \notin Statuses

\* A delivery that enqueueArtifact has not inserted yet.
NoRow == [status |-> Absent, attempts |-> 0]

Idle == [at |-> "idle", run |-> 0, through |-> 0, n |-> 0, built |-> 0,
         id |-> Absent, verdict |-> Absent]

\* Where a worker is when it holds a claim.
HoldsClaim(w) == worker[w].at \in {"sending", "sent", "failed", "failing"}
Held(id) == \E w \in Workers : HoldsClaim(w) /\ worker[w].id = id

Init ==
  /\ closed = 0
  /\ books = [r \in Runs |-> 0]
  /\ nextRun = 0
  /\ enabled = TRUE
  /\ artifacts = [r \in Runs |-> Absent]
  /\ rows = [id \in Ids |-> NoRow]
  /\ due = {}
  /\ expired = {}
  /\ worker = [w \in Workers |-> Idle]
  /\ copies = [id \in Ids |-> 0]
  /\ contents = [r \in Runs |-> {}]
  /\ bounds = [incidents |-> 0, overruns |-> 0]

-----------------------------------------------------------------------------
(* Time, the books and the operator.                                       *)

PeriodCloses ==
  /\ closed < MaxRuns
  /\ closed' = closed + 1
  /\ UNCHANGED <<books, schedule, artifacts, rows, due, expired, worker,
                 history, bounds>>

\* The indexer stores an event of a period that closed before.
LateEvent(r) ==
  /\ r < closed
  /\ bounds.incidents < MaxIncidents
  /\ books' = [books EXCEPT ![r] = @ + 1]
  /\ bounds' = [bounds EXCEPT !.incidents = @ + 1]
  /\ UNCHANGED <<closed, schedule, artifacts, rows, due, expired, worker,
                 history>>

BackoffElapses(id) ==
  /\ rows[id].status = "retry"
  /\ id \notin due
  /\ due' = due \cup {id}
  /\ UNCHANGED <<closed, books, schedule, artifacts, rows, expired, worker,
                 history, bounds>>

\* A claim of a worker that died expires; so does one held for too long.
LeaseExpires(id) ==
  /\ rows[id].status = "delivering"
  /\ id \notin expired
  /\ IF Held(id)
     THEN /\ bounds.overruns < MaxOverruns
          /\ bounds' = [bounds EXCEPT !.overruns = @ + 1]
     ELSE UNCHANGED bounds
  /\ expired' = expired \cup {id}
  /\ UNCHANGED <<closed, books, schedule, artifacts, rows, due, worker,
                 history>>

\* The schedule is saved again: an earlier run is repeated, or it is
\* switched off and on.  (Skipping runs on purpose is not modelled.)
SaveSchedule(r, on) ==
  /\ bounds.incidents < MaxIncidents
  /\ r <= nextRun
  /\ nextRun' = r
  /\ enabled' = on
  /\ bounds' = [bounds EXCEPT !.incidents = @ + 1]
  /\ UNCHANGED <<closed, books, artifacts, rows, due, expired, worker,
                 history>>

ReplayDeadLetter(id) ==
  /\ bounds.incidents < MaxIncidents
  /\ rows[id].status = "dead_letter"
  /\ rows' = [rows EXCEPT ![id] = [status |-> "retry", attempts |-> 0]]
  /\ due' = due \cup {id}
  /\ copies' = [copies EXCEPT ![id] = @ - 1]
  /\ bounds' = [bounds EXCEPT !.incidents = @ + 1]
  /\ UNCHANGED <<closed, books, schedule, artifacts, expired, worker,
                 contents>>

-----------------------------------------------------------------------------
(* A tick: generateDue, then deliverDue.                                   *)

Step(w, new) == worker' = [worker EXCEPT ![w] = new]

\* dueSchedules: the schedule and the time are read once for the tick.
StartTick(w) ==
  /\ worker[w].at = "idle"
  /\ Step(w, [Idle EXCEPT !.at = "generate", !.run = nextRun,
                          !.through = IF enabled THEN closed ELSE 0])
  /\ UNCHANGED <<closed, books, schedule, artifacts, rows, due, expired,
                 history, bounds>>

\* artifactBuilder.build, awaited.
Build(w) ==
  LET k == worker[w]
  IN /\ k.at = "generate"
     /\ k.run < k.through
     /\ k.n < MaxCatchUpRuns
     /\ Step(w, [k EXCEPT !.at = "built", !.built = books[k.run]])
     /\ UNCHANGED <<closed, books, schedule, artifacts, rows, due, expired,
                    history, bounds>>

EndGenerate(w) ==
  LET k == worker[w]
  IN /\ k.at = "generate"
     /\ k.run >= k.through \/ k.n = MaxCatchUpRuns
     /\ Step(w, [k EXCEPT !.at = "deliver", !.n = 0])
     /\ UNCHANGED <<closed, books, schedule, artifacts, rows, due, expired,
                    history, bounds>>

\* The exception ends the tick; runReportWorker logs it.
Throw(w) ==
  /\ Step(w, Idle)
  /\ UNCHANGED <<artifacts, rows, due, expired>>

\* INSERT OR REPLACE of the deliveries.
MutantInserted(r) == {id \in Ids : RunOf(id) = r}

Inserted(r) == {id \in Ids : RunOf(id) = r /\ rows[id].status = Absent}

Store(w, inserted) ==
  LET k == worker[w]
  IN /\ artifacts' = [artifacts EXCEPT ![k.run] = k.built]
     /\ rows' = [id \in Ids |-> IF id \in inserted
                  THEN [status |-> "pending", attempts |-> 0] ELSE rows[id]]
     /\ due' = due \cup inserted
     /\ Step(w, [k EXCEPT !.at = "advance"])
     /\ UNCHANGED expired

\* enqueueArtifact, one transaction: INSERT OR IGNORE of the artifact and of
\* a delivery for every destination.
EnqueueArtifact(w) ==
  LET k == worker[w]
  IN /\ k.at = "built"
     /\ IF artifacts[k.run] \in {Absent, k.built}
        THEN Store(w, Inserted(k.run))
        ELSE Throw(w)
     /\ UNCHANGED <<closed, books, schedule, history, bounds>>

Advanced(w, ahead) ==
  LET k == worker[w]
  IN /\ nextRun' = ahead
     /\ Step(w, [k EXCEPT !.at = "generate", !.run = @ + 1, !.n = @ + 1])

\* A relative update, with no comparison.
MutantAdvanceSchedule(w) ==
  /\ worker[w].at = "advance"
  /\ Advanced(w, nextRun + 1)
  /\ UNCHANGED <<closed, books, enabled, artifacts, rows, due, expired,
                 history, bounds>>

\* A compare-and-set on the run this worker saw.
AdvanceSchedule(w) ==
  LET k == worker[w]
  IN /\ k.at = "advance"
     /\ IF enabled /\ nextRun = k.run
        THEN Advanced(w, k.run + 1)
        ELSE /\ Step(w, [k EXCEPT !.at = "deliver", !.n = 0])
             /\ UNCHANGED nextRun
     /\ UNCHANGED <<closed, books, enabled, artifacts, rows, due, expired,
                    history, bounds>>

\* Leases are ignored.
MutantClaimable ==
  {id \in due : rows[id].status \in {"pending", "retry", "delivering"}}

\* Abandoned claims are not taken over.
StrandingClaimable == {id \in due : rows[id].status \in {"pending", "retry"}}

Claimable ==
  {id \in due : rows[id].status \in {"pending", "retry"}}
    \cup {id \in expired : rows[id].status = "delivering"}

ClaimDue(w, id) ==
  LET k == worker[w]
  IN /\ k.at = "deliver"
     /\ k.n < ClaimLimit
     /\ id \in Claimable
     /\ rows' = [rows EXCEPT ![id] = [status |-> "delivering",
                                      attempts |-> @.attempts + 1]]
     /\ expired' = expired \ {id}
     /\ Step(w, [k EXCEPT !.at = "sending", !.n = @ + 1, !.id = id])
     /\ UNCHANGED <<closed, books, schedule, artifacts, due, history, bounds>>

EndTick(w) ==
  LET k == worker[w]
  IN /\ k.at = "deliver"
     /\ Claimable = {} \/ k.n = ClaimLimit
     /\ Step(w, Idle)
     /\ UNCHANGED <<closed, books, schedule, artifacts, rows, due, expired,
                    history, bounds>>

\* The transport's request, awaited: it may be received or not, and the
\* answer of one that was received may be an error or get lost.
Deliver(w, arrives, answered) ==
  LET k == worker[w]
  IN /\ k.at = "sending"
     /\ answered => arrives
     /\ IF arrives
        THEN contents' = [contents EXCEPT
               ![RunOf(k.id)] = @ \cup {artifacts[RunOf(k.id)]}]
        ELSE UNCHANGED contents
     /\ copies' = IF answered
                  THEN [copies EXCEPT ![k.id] = @ + 1] ELSE copies
     /\ Step(w, [k EXCEPT !.at = IF answered THEN "sent" ELSE "failed"])
     /\ UNCHANGED <<closed, books, schedule, artifacts, rows, due, expired,
                    bounds>>

\* It throws into the catch clause when the claim is gone.
MarkDelivered(w) ==
  LET k == worker[w]
  IN /\ k.at = "sent"
     /\ IF rows[k.id].status = "delivering"
        THEN /\ rows' = [rows EXCEPT ![k.id].status = "delivered"]
             /\ expired' = expired \ {k.id}
             /\ Step(w, [k EXCEPT !.at = "deliver"])
        ELSE /\ Step(w, [k EXCEPT !.at = "failed"])
             /\ UNCHANGED <<rows, expired>>
     /\ UNCHANGED <<closed, books, schedule, artifacts, due, history, bounds>>

\* markFailed reads the row, and throws out of the tick when the claim is
\* gone ...
ReadFailed(w) ==
  LET k == worker[w]
      verdict == IF rows[k.id].attempts >= MaxAttempts
                 THEN "dead_letter" ELSE "retry"
  IN /\ k.at = "failed"
     /\ IF rows[k.id].status = "delivering"
        THEN /\ Step(w, [k EXCEPT !.at = "failing", !.verdict = verdict])
             /\ UNCHANGED <<artifacts, rows, due, expired>>
        ELSE Throw(w)
     /\ UNCHANGED <<closed, books, schedule, history, bounds>>

\* ... then writes it, in a statement that does not look at the status.
WriteFailed(w) ==
  LET k == worker[w]
  IN /\ k.at = "failing"
     /\ rows' = [rows EXCEPT ![k.id].status = k.verdict]
     /\ due' = due \ {k.id}
     /\ expired' = expired \ {k.id}
     /\ Step(w, [k EXCEPT !.at = "deliver", !.verdict = Absent])
     /\ UNCHANGED <<closed, books, schedule, artifacts, history, bounds>>

\* The process dies and is started again.
Crash(w) ==
  LET k == worker[w]
  IN /\ k.at # "idle"
     /\ bounds.incidents < MaxIncidents
     /\ bounds' = [bounds EXCEPT !.incidents = @ + 1]
     /\ copies' = IF k.at = "sent" THEN [copies EXCEPT ![k.id] = @ - 1]
                  ELSE copies
     /\ Step(w, Idle)
     /\ UNCHANGED <<closed, books, schedule, artifacts, rows, due, expired,
                    contents>>

-----------------------------------------------------------------------------
Tick(w) ==
  \/ StartTick(w)
  \/ Build(w) \/ EndGenerate(w) \/ EnqueueArtifact(w) \/ AdvanceSchedule(w)
  \/ \E id \in Ids : ClaimDue(w, id)
  \/ EndTick(w)
  \/ \E arrives, answered \in BOOLEAN : Deliver(w, arrives, answered)
  \/ MarkDelivered(w) \/ ReadFailed(w) \/ WriteFailed(w)

TimePasses ==
  \/ PeriodCloses
  \/ \E id \in Ids : BackoffElapses(id) \/ LeaseExpires(id)

OperatorEdits ==
  /\ Edited
  /\ \/ \E r \in Runs, on \in BOOLEAN : SaveSchedule(r, on)
     \/ \E id \in Ids : ReplayDeadLetter(id)

Next ==
  \/ \E w \in Workers : Tick(w) \/ Crash(w)
  \/ TimePasses
  \/ \E r \in Runs : LateEvent(r)
  \/ OperatorEdits

Spec == Init /\ [][Next]_vars

\* Workers tick for ever; a backoff ends; the lease of the dead runs out.
Fairness ==
  /\ \A w \in Workers : WF_vars(Tick(w))
  /\ \A id \in Ids : WF_vars(BackoffElapses(id)) /\ WF_vars(LeaseExpires(id))

FairSpec == Spec /\ Fairness

-----------------------------------------------------------------------------
Worker ==
  [at : {"idle", "generate", "built", "advance", "deliver", "sending", "sent",
         "failed", "failing"},
   run : 0..MaxRuns, through : 0..MaxRuns, n : Nat, built : Contents,
   id : Ids \cup {Absent}, verdict : {Absent, "retry", "dead_letter"}]

TypeOK ==
  /\ closed \in 0..MaxRuns
  /\ books \in [Runs -> Contents]
  /\ nextRun \in 0..MaxRuns
  /\ enabled \in BOOLEAN
  /\ artifacts \in [Runs -> Contents \cup {Absent}]
  /\ rows \in [Ids -> [status : Statuses \cup {Absent}, attempts : Nat]]
  /\ due \subseteq Ids
  /\ expired \subseteq Ids
  /\ worker \in [Workers -> Worker]
  /\ copies \in [Ids -> Int]
  /\ contents \in [Runs -> SUBSET Contents]
  /\ bounds \in [incidents : 0..MaxIncidents, overruns : 0..MaxOverruns]

(* delivery.test.ts, "uses leases to prevent duplicate concurrent delivery *)
(* and reclaim abandoned work": two workers never send the same delivery   *)
(* at the same time.                                                       *)
ExclusiveClaim ==
  \A v, w \in Workers :
    v # w /\ HoldsClaim(v) /\ HoldsClaim(w) => worker[v].id # worker[w].id

(* delivery.ts, "idempotent generation and delivery": a destination gets   *)
(* another copy only after one it received was taken for undelivered (its  *)
(* answer was an error or was lost, or the worker died on it) or after an  *)
(* operator replayed it; repeated generation of a run alone sends nothing. *)
NoCopyWithoutExcuse == \A id \in Ids : copies[id] <= 1

(* "immutable report artifacts": all destinations and all attempts of a    *)
(* run get one content, however often the run is generated and whatever is *)
(* indexed meanwhile.                                                      *)
OneContentPerRun == \A r \in Runs : Cardinality(contents[r]) <= 1

(* Both, and rows that are well formed: whatever happens, a destination    *)
(* sees one report per run (delivery.ts, "idempotent generation and        *)
(* delivery" of "immutable report artifacts").                             *)
OneReportPerRun == TypeOK /\ NoCopyWithoutExcuse /\ OneContentPerRun

(* generateDue and advanceSchedule: concurrent and crashing workers leave  *)
(* no run behind the schedule without its artifact and its deliveries.     *)
NoRunSkipped ==
  \A id \in Ids : RunOf(id) < nextRun =>
    artifacts[RunOf(id)] # Absent /\ rows[id].status # Absent

(* markDelivered and markFailed of workers within their leases: a delivery *)
(* that was delivered is never retried or dead-lettered.                   *)
DeliveredIsFinal ==
  [][\A id \in Ids :
       rows[id].status = "delivered" => rows'[id].status = "delivered"]_vars

(* "Attempts are leased, retry with exponential backoff, and eventually    *)
(* enter dead_letter" (docs/audit-trail.md): every delivery of a period    *)
(* that closed ends delivered or dead-lettered.                            *)
EveryRunSettles ==
  \A id \in Ids : RunOf(id) < closed ~>
    rows[id].status \in {"delivered", "dead_letter"}

\* The run the schedule stands at was stored with another content than a
\* report of it would have now: every tick throws before it delivers.
Poisoned ==
  \E r \in Runs : r = nextRun /\ artifacts[r] \notin {Absent, books[r]}

(* The same with the two ways out that the code has: an operator who       *)
(* switches the schedule off, and enqueueArtifact's refusal of a run whose *)
(* artifact is stored with another content.  Crashed, overtaken and        *)
(* throwing workers leave no delivery behind for ever.                     *)
OtherRunsSettle ==
  \A id \in Ids : RunOf(id) < closed ~>
    \/ rows[id].status \in {"delivered", "dead_letter"}
    \/ Poisoned
    \/ ~enabled
=============================================================================
