--------------------------- MODULE IndexerProofs ---------------------------
(***************************************************************************)
(* packages/indexer.  Scheduled reports, for any number of workers,        *)
(* destinations, runs and incidents: what is stored is what is sent, no    *)
(* run is skipped, and workers within their leases do not get into each    *)
(* other's way.  The events they are made from, for any windows, lags,     *)
(* page sizes and chains: every fork is repaired by the next poll.         *)
(* And the agents panel of the dashboard, which is read from the contracts *)
(* themselves: its rows tell what was read, and none is missing.           *)
(***************************************************************************)
EXTENDS ReportDelivery, EventIndexer, AgentPanel, FiniteSetTheorems,
        WellFoundedInduction, TLAPS

Stored(r) ==
  /\ artifacts[r] # Absent
  /\ \A id \in Ids : RunOf(id) = r => rows[id].status # Absent

\* What a worker in the middle of a tick relies on.
WorkerIsSound(w) ==
  LET k == worker[w]
  IN /\ k.at \in {"built", "advance"} => k.run < k.through
     /\ k.at = "advance" => Stored(k.run)
     /\ HoldsClaim(w) => k.id \in Ids /\ rows[k.id].status # Absent
     /\ k.at = "failing" => k.verdict # Absent

BooksAreBounded == \A r \in Runs : books[r] <= bounds.incidents

RowsHaveArtifacts ==
  \A id \in Ids : rows[id].status # Absent => artifacts[RunOf(id)] # Absent

SentIsStored ==
  \A r \in Runs : \A c \in contents[r] :
    artifacts[r] # Absent /\ c = artifacts[r]

Inv ==
  /\ TypeOK
  /\ \A w \in Workers : WorkerIsSound(w)
  /\ BooksAreBounded
  /\ RowsHaveArtifacts
  /\ SentIsStored
  /\ NoRunSkipped

\* Artifacts are immutable and deliveries are not deleted.
NothingIsDropped ==
  /\ \A r \in Runs : artifacts[r] # Absent => artifacts'[r] = artifacts[r]
  /\ \A id \in Ids : rows[id].status # Absent => rows'[id].status # Absent

(* Types of what a worker and a row are made of.                           *)
LEMMA Types ==
  ASSUME Inv
  PROVE  /\ \A w \in Workers : worker[w] \in Worker
         /\ \A id \in Ids : rows[id] \in [status : Statuses \cup {Absent},
                                          attempts : Nat]
         /\ \A id \in Ids : RunOf(id) \in Runs
         /\ MaxRuns \in Nat /\ MaxIncidents \in Nat /\ MaxOverruns \in Nat
BY DeliveryAssumption DEF Inv, TypeOK, Ids, RunOf

LEMMA WorkerMoves ==
  ASSUME Inv, NEW w \in Workers, NEW new \in Worker, Step(w, new)
  PROVE  /\ worker' \in [Workers -> Worker]
         /\ worker'[w] = new
         /\ \A v \in Workers \ {w} : worker'[v] = worker[v]
BY DEF Step, Inv, TypeOK

(* What a worker relies on stays true while nothing is dropped.            *)
LEMMA OthersStaySound ==
  ASSUME Inv, NothingIsDropped, NEW v \in Workers, worker'[v] = worker[v]
  PROVE  WorkerIsSound(v)'
<1>1. worker[v] \in Worker /\ WorkerIsSound(v)
  BY Types DEF Inv
<1>2. ASSUME NEW r \in Runs, Stored(r)
      PROVE  Stored(r)'
  BY <1>2 DEF NothingIsDropped, Stored
<1>3. worker[v].at = "advance" => worker[v].run \in Runs
  <2>1. worker[v].run \in 0..MaxRuns /\ worker[v].through \in 0..MaxRuns
    BY <1>1 DEF Worker
  <2> QED
    BY <1>1, <2>1, Types DEF WorkerIsSound, Runs
<1>4. HoldsClaim(v)' <=> HoldsClaim(v)
  BY DEF HoldsClaim
<1>5. HoldsClaim(v) =>
        worker[v].id \in Ids /\ rows'[worker[v].id].status # Absent
  BY <1>1 DEF WorkerIsSound, NothingIsDropped
<1> QED
  BY <1>1, <1>2, <1>3, <1>4, <1>5 DEF WorkerIsSound

(* A step of one worker.                                                   *)
LEMMA WorkerStep ==
  ASSUME Inv, NEW w \in Workers, NEW new \in Worker, Step(w, new),
         NothingIsDropped,
         WorkerIsSound(w)',
         worker' \in [Workers -> Worker] => TypeOK',
         books' = books /\ bounds'.incidents >= bounds.incidents,
         RowsHaveArtifacts', SentIsStored', NoRunSkipped'
  PROVE  Inv'
<1>1. TypeOK' /\ \A v \in Workers \ {w} : WorkerIsSound(v)'
  BY WorkerMoves, OthersStaySound
<1>2. BooksAreBounded'
  <2>1. \A r \in Runs : books[r] <= bounds.incidents /\ books[r] \in Nat
    BY DEF Inv, BooksAreBounded, TypeOK, Contents
  <2>2. bounds.incidents \in Nat /\ bounds'.incidents \in Nat
    BY <1>1 DEF Inv, TypeOK
  <2> QED
    BY <2>1, <2>2 DEF BooksAreBounded
<1> QED
  BY <1>1, <1>2 DEF Inv

(* A step that touches neither the stored reports nor the schedule.        *)
LEMMA NothingStored ==
  ASSUME Inv, UNCHANGED <<artifacts, contents>>, nextRun' = nextRun,
         \A id \in Ids : rows'[id].status = Absent <=> rows[id].status = Absent
  PROVE  NothingIsDropped /\ RowsHaveArtifacts' /\ SentIsStored' /\ NoRunSkipped'
BY DEF Inv, NothingIsDropped, RowsHaveArtifacts, SentIsStored, NoRunSkipped

-----------------------------------------------------------------------------
LEMMA InitInv == Init => Inv
<1> SUFFICES ASSUME Init PROVE Inv
  OBVIOUS
<1> USE DeliveryAssumption
<1>1. Idle \in Worker /\ NoRow \in [status : Statuses \cup {Absent}, attempts : Nat]
  BY DEF Idle, Worker, Contents, NoRow
<1>2. TypeOK
  BY <1>1 DEF Init, TypeOK, Contents
<1>3. \A w \in Workers : WorkerIsSound(w)
  BY DEF Init, WorkerIsSound, HoldsClaim, Idle
<1>4. BooksAreBounded
  BY DEF Init, BooksAreBounded
<1>5. \A id \in Ids : rows[id].status = Absent
  BY DEF Init, NoRow
<1>6. SentIsStored
  BY DEF Init, SentIsStored
<1>7. NoRunSkipped
  <2>1. \A id \in Ids : RunOf(id) \in Nat
    BY DEF Ids, RunOf, Runs
  <2> QED
    BY <2>1 DEF Init, NoRunSkipped
<1> QED
  BY <1>2, <1>3, <1>4, <1>5, <1>6, <1>7 DEF Inv, RowsHaveArtifacts

-----------------------------------------------------------------------------
(* Time, the books and the operator.                                       *)

(* A step that leaves every worker where it is.                            *)
LEMMA OutsideStep ==
  ASSUME Inv, UNCHANGED worker, NothingIsDropped, TypeOK', BooksAreBounded',
         RowsHaveArtifacts', SentIsStored', NoRunSkipped'
  PROVE  Inv'
BY OthersStaySound DEF Inv

LEMMA PeriodClosesInv == Inv /\ PeriodCloses => Inv'
<1> SUFFICES ASSUME Inv, PeriodCloses PROVE Inv'
  OBVIOUS
<1> USE DEF PeriodCloses, schedule, history
<1>1. TypeOK'
  BY Types DEF Inv, TypeOK
<1>2. BooksAreBounded'
  BY DEF Inv, BooksAreBounded
<1> QED
  BY <1>1, <1>2, NothingStored, OutsideStep

LEMMA LateEventInv == \A r \in Runs : Inv /\ LateEvent(r) => Inv'
<1> SUFFICES ASSUME NEW r \in Runs, Inv, LateEvent(r) PROVE Inv'
  OBVIOUS
<1> USE DEF LateEvent, schedule, history
<1>1. bounds \in [incidents : 0..MaxIncidents, overruns : 0..MaxOverruns]
  BY DEF Inv, TypeOK
<1>2. /\ bounds'.incidents = bounds.incidents + 1
      /\ bounds'.incidents \in 0..MaxIncidents
      /\ bounds' \in [incidents : 0..MaxIncidents, overruns : 0..MaxOverruns]
  BY <1>1, Types
<1>3. /\ books \in [Runs -> Contents]
      /\ \A q \in Runs : books[q] <= bounds.incidents
  BY DEF Inv, TypeOK, BooksAreBounded
<1>4. BooksAreBounded'
  BY <1>1, <1>2, <1>3 DEF BooksAreBounded, Contents
<1>5. books' \in [Runs -> Contents]
  BY <1>1, <1>2, <1>3, Types DEF Contents
<1>6. TypeOK'
  BY <1>2, <1>5 DEF Inv, TypeOK
<1> QED
  BY <1>4, <1>6, NothingStored, OutsideStep

LEMMA BackoffElapsesInv == \A id \in Ids : Inv /\ BackoffElapses(id) => Inv'
<1> SUFFICES ASSUME NEW id \in Ids, Inv, BackoffElapses(id) PROVE Inv'
  OBVIOUS
<1> USE DEF BackoffElapses, schedule, history
<1>1. TypeOK'
  BY DEF Inv, TypeOK
<1>2. BooksAreBounded'
  BY DEF Inv, BooksAreBounded
<1> QED
  BY <1>1, <1>2, NothingStored, OutsideStep

LEMMA LeaseExpiresInv == \A id \in Ids : Inv /\ LeaseExpires(id) => Inv'
<1> SUFFICES ASSUME NEW id \in Ids, Inv, LeaseExpires(id) PROVE Inv'
  OBVIOUS
<1> USE DEF LeaseExpires, schedule, history
<1>1. bounds \in [incidents : 0..MaxIncidents, overruns : 0..MaxOverruns]
  BY DEF Inv, TypeOK
<1>2. /\ bounds' \in [incidents : 0..MaxIncidents, overruns : 0..MaxOverruns]
      /\ bounds'.incidents = bounds.incidents
  BY <1>1, Types
<1>3. TypeOK'
  BY <1>2 DEF Inv, TypeOK
<1>4. BooksAreBounded'
  BY <1>2 DEF Inv, BooksAreBounded
<1> QED
  BY <1>3, <1>4, NothingStored, OutsideStep

LEMMA SaveScheduleInv ==
  \A r \in Runs, on \in BOOLEAN : Inv /\ SaveSchedule(r, on) => Inv'
<1> SUFFICES ASSUME NEW r \in Runs, NEW on \in BOOLEAN, Inv,
                    SaveSchedule(r, on)
             PROVE  Inv'
  OBVIOUS
<1> USE DEF SaveSchedule, schedule, history
<1>1. bounds \in [incidents : 0..MaxIncidents, overruns : 0..MaxOverruns]
  BY DEF Inv, TypeOK
<1>2. /\ bounds' \in [incidents : 0..MaxIncidents, overruns : 0..MaxOverruns]
      /\ bounds'.incidents = bounds.incidents + 1
  BY <1>1, Types
<1>3. r \in 0..MaxRuns
  BY Types DEF Runs
<1>4. TypeOK'
  BY <1>2, <1>3 DEF Inv, TypeOK
<1>5. BooksAreBounded'
  BY <1>1, <1>2 DEF Inv, BooksAreBounded, TypeOK, Contents
<1>6. NoRunSkipped'
  <2>1. \A id \in Ids : RunOf(id) < r => RunOf(id) < nextRun
    BY <1>3, Types DEF Inv, TypeOK, Runs
  <2> QED
    BY <2>1 DEF Inv, NoRunSkipped
<1>7. NothingIsDropped /\ RowsHaveArtifacts' /\ SentIsStored'
  BY DEF Inv, NothingIsDropped, RowsHaveArtifacts, SentIsStored
<1> QED
  BY <1>4, <1>5, <1>6, <1>7, OutsideStep

LEMMA ReplayDeadLetterInv ==
  \A id \in Ids : Inv /\ ReplayDeadLetter(id) => Inv'
<1> SUFFICES ASSUME NEW id \in Ids, Inv, ReplayDeadLetter(id) PROVE Inv'
  OBVIOUS
<1> USE DEF ReplayDeadLetter, schedule
<1>1. bounds \in [incidents : 0..MaxIncidents, overruns : 0..MaxOverruns]
  BY DEF Inv, TypeOK
<1>2. /\ bounds' \in [incidents : 0..MaxIncidents, overruns : 0..MaxOverruns]
      /\ bounds'.incidents = bounds.incidents + 1
  BY <1>1, Types
<1>3. rows' \in [Ids -> [status : Statuses \cup {Absent}, attempts : Nat]]
  BY DEF Inv, TypeOK, Statuses
<1>4. copies' \in [Ids -> Int]
  BY DEF Inv, TypeOK
<1>5. TypeOK'
  BY <1>2, <1>3, <1>4 DEF Inv, TypeOK
<1>6. BooksAreBounded'
  BY <1>1, <1>2 DEF Inv, BooksAreBounded, TypeOK, Contents
<1>7. \A d \in Ids : rows'[d].status = Absent <=> rows[d].status = Absent
  BY AbsentAssumption DEF Inv, TypeOK, Statuses
<1> QED
  BY <1>5, <1>6, <1>7, NothingStored, OutsideStep

-----------------------------------------------------------------------------
(* A tick.                                                                 *)

(* A step of one worker that changes nothing else.                         *)
LEMMA QuietStep ==
  ASSUME Inv, NEW w \in Workers, NEW new \in Worker, Step(w, new),
         WorkerIsSound(w)',
         UNCHANGED <<closed, books, schedule, artifacts, rows, due, expired,
                     history, bounds>>
  PROVE  Inv'
<1> USE DEF schedule, history
<1>1. worker' \in [Workers -> Worker] => TypeOK'
  BY DEF Inv, TypeOK
<1>2. bounds'.incidents >= bounds.incidents
  BY DEF Inv, TypeOK
<1>3. NothingIsDropped /\ RowsHaveArtifacts' /\ SentIsStored' /\ NoRunSkipped'
  BY NothingStored
<1> QED
  BY <1>1, <1>2, <1>3, WorkerStep

LEMMA StartTickInv == \A w \in Workers : Inv /\ StartTick(w) => Inv'
<1> SUFFICES ASSUME NEW w \in Workers, Inv, StartTick(w) PROVE Inv'
  OBVIOUS
<1> DEFINE new == [Idle EXCEPT !.at = "generate", !.run = nextRun,
                     !.through = IF enabled THEN closed ELSE 0]
<1>1. new \in Worker /\ new.at = "generate"
  <2>1. (IF enabled THEN closed ELSE 0) \in 0..MaxRuns
    BY Types DEF Inv, TypeOK
  <2>2. Idle \in Worker /\ nextRun \in 0..MaxRuns
    BY DeliveryAssumption DEF Idle, Worker, Contents, Inv, TypeOK
  <2> QED
    BY <2>1, <2>2 DEF Worker
<1>2. Step(w, new)
  BY DEF StartTick
<1> HIDE DEF new
<1>3. WorkerIsSound(w)'
  BY <1>1, <1>2, WorkerMoves DEF WorkerIsSound, HoldsClaim
<1> QED
  BY <1>1, <1>2, <1>3, QuietStep DEF StartTick

LEMMA BuildInv == \A w \in Workers : Inv /\ Build(w) => Inv'
<1> SUFFICES ASSUME NEW w \in Workers, Inv, Build(w) PROVE Inv'
  OBVIOUS
<1> DEFINE k == worker[w]
<1> DEFINE new == [k EXCEPT !.at = "built", !.built = books[k.run]]
<1>1. k \in Worker /\ k.run < k.through
  BY Types DEF Build
<1>2. k.run \in Runs
  BY <1>1, Types DEF Worker, Runs
<1>3. new \in Worker /\ new.at = "built" /\ new.run < new.through
  BY <1>1, <1>2 DEF Worker, Inv, TypeOK
<1>4. Step(w, new)
  BY DEF Build
<1> HIDE DEF new
<1>5. WorkerIsSound(w)'
  BY <1>3, <1>4, WorkerMoves DEF WorkerIsSound, HoldsClaim
<1> QED
  BY <1>3, <1>4, <1>5, QuietStep DEF Build

LEMMA EndGenerateInv == \A w \in Workers : Inv /\ EndGenerate(w) => Inv'
<1> SUFFICES ASSUME NEW w \in Workers, Inv, EndGenerate(w) PROVE Inv'
  OBVIOUS
<1> DEFINE new == [worker[w] EXCEPT !.at = "deliver", !.n = 0]
<1>1. new \in Worker /\ new.at = "deliver"
  BY Types DEF Worker
<1>2. Step(w, new)
  BY DEF EndGenerate
<1> HIDE DEF new
<1>3. WorkerIsSound(w)'
  BY <1>1, <1>2, WorkerMoves DEF WorkerIsSound, HoldsClaim
<1> QED
  BY <1>1, <1>2, <1>3, QuietStep DEF EndGenerate

(* A worker that gives its tick up relies on nothing.                      *)
LEMMA IdleIsSound ==
  ASSUME Inv, NEW w \in Workers, Step(w, Idle)
  PROVE  Idle \in Worker /\ WorkerIsSound(w)'
<1>1. Idle \in Worker /\ Idle.at = "idle"
  BY DeliveryAssumption DEF Idle, Worker, Contents
<1> QED
  BY <1>1, WorkerMoves DEF WorkerIsSound, HoldsClaim

LEMMA EndTickInv == \A w \in Workers : Inv /\ EndTick(w) => Inv'
BY IdleIsSound, QuietStep DEF EndTick

(* A step of one worker that leaves the schedule, the books and the set of *)
(* the rows alone.                                                         *)
LEMMA RowStep ==
  ASSUME Inv, NEW w \in Workers, NEW new \in Worker, Step(w, new),
         WorkerIsSound(w)',
         rows' \in [Ids -> [status : Statuses \cup {Absent}, attempts : Nat]],
         \A id \in Ids : rows'[id].status = Absent <=> rows[id].status = Absent,
         due' \subseteq Ids, expired' \subseteq Ids,
         UNCHANGED <<closed, books, schedule, artifacts, history, bounds>>
  PROVE  Inv'
<1> USE DEF schedule, history
<1>1. worker' \in [Workers -> Worker] => TypeOK'
  BY DEF Inv, TypeOK
<1>2. bounds'.incidents >= bounds.incidents
  BY DEF Inv, TypeOK
<1>3. NothingIsDropped /\ RowsHaveArtifacts' /\ SentIsStored' /\ NoRunSkipped'
  BY NothingStored
<1> QED
  BY <1>1, <1>2, <1>3, WorkerStep

LEMMA EnqueueArtifactInv ==
  \A w \in Workers : Inv /\ EnqueueArtifact(w) => Inv'
<1> SUFFICES ASSUME NEW w \in Workers, Inv, EnqueueArtifact(w) PROVE Inv'
  OBVIOUS
<1> USE DEF schedule, history
<1> DEFINE k == worker[w]
<1>1. /\ k \in Worker /\ k.at = "built" /\ k.run < k.through
      /\ k.built \in Contents
  BY Types DEF EnqueueArtifact, Inv, WorkerIsSound, Worker
<1>2. k.run \in Runs
  BY <1>1, Types DEF Worker, Runs
<1>3. CASE artifacts[k.run] \in {Absent, k.built}
  <2> DEFINE inserted == Inserted(k.run)
             new == [k EXCEPT !.at = "advance"]
  <2>1. /\ artifacts' = [artifacts EXCEPT ![k.run] = k.built]
        /\ rows' = [id \in Ids |-> IF id \in inserted
             THEN [status |-> "pending", attempts |-> 0] ELSE rows[id]]
        /\ due' = due \cup inserted
        /\ Step(w, new)
        /\ UNCHANGED <<expired, closed, books, schedule, history, bounds>>
    BY <1>3 DEF EnqueueArtifact, Store
  <2>2. /\ inserted \subseteq Ids
        /\ \A id \in Ids : id \in inserted <=>
             RunOf(id) = k.run /\ rows[id].status = Absent
    BY DEF Inserted
  <2>3. /\ new \in Worker /\ new.at = "advance" /\ new.run = k.run
        /\ new.through = k.through
    BY <1>1 DEF Worker
  <2> HIDE DEF new, inserted
  <2>4. /\ artifacts'[k.run] = k.built
        /\ \A r \in Runs : r # k.run => artifacts'[r] = artifacts[r]
        /\ artifacts' \in [Runs -> Contents \cup {Absent}]
    BY <1>1, <1>2, <2>1 DEF Inv, TypeOK
  <2>5. k.built # Absent
    BY <1>1, AbsentAssumption
  <2>6. \A id \in Ids : rows'[id].status =
          IF id \in inserted THEN "pending" ELSE rows[id].status
    BY <2>1
  <2>7. "pending" # Absent
    BY AbsentAssumption DEF Statuses
  <2>8. NothingIsDropped
    BY <1>2, <1>3, <2>4, <2>6, <2>7 DEF NothingIsDropped
  <2>9. \A r \in Runs : r = k.run => Stored(r)'
    BY <2>2, <2>4, <2>5, <2>6, <2>7 DEF Stored
  <2>10. WorkerIsSound(w)'
    BY <1>1, <1>2, <2>1, <2>3, <2>9, WorkerMoves DEF WorkerIsSound, HoldsClaim
  <2>11. rows' \in [Ids -> [status : Statuses \cup {Absent}, attempts : Nat]]
    BY <2>1, Types DEF Statuses
  <2>12. worker' \in [Workers -> Worker] => TypeOK'
    BY <2>1, <2>2, <2>4, <2>11 DEF Inv, TypeOK
  <2>13. RowsHaveArtifacts'
    BY <2>2, <2>4, <2>5, <2>6, Types DEF RowsHaveArtifacts, Inv
  <2>14. SentIsStored'
    BY <1>2, <1>3, <2>1, <2>4, <2>5 DEF SentIsStored, Inv
  <2>15. NoRunSkipped'
    BY <2>1, <2>8, Types DEF NoRunSkipped, NothingIsDropped, Inv
  <2>16. books' = books /\ bounds'.incidents >= bounds.incidents
    BY <2>1 DEF Inv, TypeOK
  <2> QED
    BY <2>1, <2>3, <2>8, <2>10, <2>12, <2>13, <2>14, <2>15, <2>16, WorkerStep
<1>4. CASE ~(artifacts[k.run] \in {Absent, k.built})
  <2>1. Throw(w) /\ UNCHANGED <<closed, books, schedule, history, bounds>>
    BY <1>4 DEF EnqueueArtifact
  <2> QED
    BY <2>1, IdleIsSound, QuietStep DEF Throw
<1> QED
  BY <1>3, <1>4

LEMMA AdvanceScheduleInv ==
  \A w \in Workers : Inv /\ AdvanceSchedule(w) => Inv'
<1> SUFFICES ASSUME NEW w \in Workers, Inv, AdvanceSchedule(w) PROVE Inv'
  OBVIOUS
<1> USE DEF schedule, history
<1> DEFINE k == worker[w]
<1>1. k \in Worker /\ k.at = "advance" /\ k.run < k.through /\ Stored(k.run)
  BY Types DEF AdvanceSchedule, Inv, WorkerIsSound
<1>2. k.run + 1 \in 0..MaxRuns /\ k.n \in Nat
  BY <1>1, Types DEF Worker
<1>3. CASE enabled /\ nextRun = k.run
  <2> DEFINE new == [k EXCEPT !.at = "generate", !.run = @ + 1, !.n = @ + 1]
  <2>1. /\ nextRun' = k.run + 1
        /\ Step(w, new)
        /\ UNCHANGED <<closed, books, enabled, artifacts, rows, due, expired,
                       history, bounds>>
    BY <1>3 DEF AdvanceSchedule, Advanced
  <2>2. new \in Worker /\ new.at = "generate"
    <3>1. k.run + 1 \in 0..MaxRuns /\ k.n + 1 \in Nat
      BY <1>2
    <3> QED
      BY <1>1, <3>1 DEF Worker
  <2> HIDE DEF new
  <2>3. WorkerIsSound(w)'
    BY <2>1, <2>2, WorkerMoves DEF WorkerIsSound, HoldsClaim
  <2>4. worker' \in [Workers -> Worker] => TypeOK'
    BY <1>2, <2>1 DEF Inv, TypeOK
  <2>5. NothingIsDropped /\ RowsHaveArtifacts' /\ SentIsStored'
    BY <2>1 DEF Inv, NothingIsDropped, RowsHaveArtifacts, SentIsStored
  <2>6. \A id \in Ids : RunOf(id) < k.run + 1 =>
          RunOf(id) < nextRun \/ RunOf(id) = k.run
    <3>1. k.run \in Int /\ nextRun = k.run
      BY <1>1, <1>3, Types DEF Worker
    <3>2. \A id \in Ids : RunOf(id) \in Int
      BY Types DEF Runs
    <3> QED
      BY <3>1, <3>2
  <2>7. NoRunSkipped'
    BY <1>1, <2>1, <2>6 DEF Inv, NoRunSkipped, Stored
  <2>8. books' = books /\ bounds'.incidents >= bounds.incidents
    BY <2>1 DEF Inv, TypeOK
  <2> QED
    BY <2>1, <2>2, <2>3, <2>4, <2>5, <2>7, <2>8, WorkerStep
<1>4. CASE ~(enabled /\ nextRun = k.run)
  <2> DEFINE new == [k EXCEPT !.at = "deliver", !.n = 0]
  <2>1. /\ Step(w, new)
        /\ UNCHANGED <<closed, books, schedule, artifacts, rows, due, expired,
                       history, bounds>>
    BY <1>4 DEF AdvanceSchedule
  <2>2. new \in Worker /\ new.at = "deliver"
    BY <1>1 DEF Worker
  <2> HIDE DEF new
  <2>3. WorkerIsSound(w)'
    BY <2>1, <2>2, WorkerMoves DEF WorkerIsSound, HoldsClaim
  <2> QED
    BY <2>1, <2>2, <2>3, QuietStep
<1> QED
  BY <1>3, <1>4

LEMMA ClaimDueInv ==
  \A w \in Workers, id \in Ids : Inv /\ ClaimDue(w, id) => Inv'
<1> SUFFICES ASSUME NEW w \in Workers, NEW id \in Ids, Inv, ClaimDue(w, id)
             PROVE  Inv'
  OBVIOUS
<1> DEFINE k == worker[w]
           new == [k EXCEPT !.at = "sending", !.n = @ + 1, !.id = id]
<1>1. /\ rows' = [rows EXCEPT ![id] = [status |-> "delivering",
                                       attempts |-> @.attempts + 1]]
      /\ expired' = expired \ {id}
      /\ Step(w, new)
      /\ UNCHANGED <<closed, books, schedule, artifacts, due, history, bounds>>
      /\ rows[id].status \in {"pending", "retry", "delivering"}
  BY DEF ClaimDue, Claimable
<1>2. new \in Worker /\ new.at = "sending" /\ new.id = id
  <2>1. k \in Worker
    BY Types
  <2>2. k.n + 1 \in Nat
    BY <2>1 DEF Worker
  <2> QED
    BY <2>1, <2>2 DEF Worker
<1> HIDE DEF new
<1>3. rows \in [Ids -> [status : Statuses \cup {Absent}, attempts : Nat]]
  BY DEF Inv, TypeOK
<1>4. rows' \in [Ids -> [status : Statuses \cup {Absent}, attempts : Nat]]
  BY <1>1, <1>3 DEF Statuses
<1>5. /\ rows'[id].status = "delivering"
      /\ \A d \in Ids : d # id => rows'[d] = rows[d]
  BY <1>1, <1>3
<1>6. \A s \in {"pending", "retry", "delivering"} : s # Absent
  BY AbsentAssumption DEF Statuses
<1>7. \A d \in Ids : rows'[d].status = Absent <=> rows[d].status = Absent
  BY <1>1, <1>5, <1>6
<1>8. WorkerIsSound(w)'
  BY <1>1, <1>2, <1>5, <1>6, WorkerMoves DEF WorkerIsSound, HoldsClaim
<1>9. due' \subseteq Ids /\ expired' \subseteq Ids
  BY <1>1 DEF Inv, TypeOK
<1> QED
  BY <1>1, <1>2, <1>4, <1>7, <1>8, <1>9, RowStep

LEMMA DeliverInv ==
  \A w \in Workers, arrives, answered \in BOOLEAN :
    Inv /\ Deliver(w, arrives, answered) => Inv'
<1> SUFFICES ASSUME NEW w \in Workers, NEW arrives \in BOOLEAN,
                    NEW answered \in BOOLEAN, Inv,
                    Deliver(w, arrives, answered)
             PROVE  Inv'
  OBVIOUS
<1> DEFINE k == worker[w]
           new == [k EXCEPT !.at = IF answered THEN "sent" ELSE "failed"]
<1>1. /\ k \in Worker /\ k.at = "sending" /\ k.id \in Ids
      /\ rows[k.id].status # Absent
  BY Types DEF Deliver, Inv, WorkerIsSound, HoldsClaim
<1>2. PICK d \in Ids : d = k.id
  BY <1>1
<1>3. /\ contents' = IF arrives
           THEN [contents EXCEPT ![RunOf(d)] = @ \cup {artifacts[RunOf(d)]}]
           ELSE contents
      /\ copies' = IF answered THEN [copies EXCEPT ![d] = @ + 1] ELSE copies
      /\ Step(w, new)
      /\ UNCHANGED <<closed, books, nextRun, enabled, artifacts, rows, due,
                     expired, bounds>>
  BY <1>2 DEF Deliver, schedule
<1>4. /\ new \in Worker /\ new.at \in {"sent", "failed"} /\ new.id = d
  BY <1>1, <1>2 DEF Worker
<1> HIDE DEF new
<1>5. /\ RunOf(d) \in Runs /\ artifacts[RunOf(d)] # Absent
      /\ artifacts[RunOf(d)] \in Contents
  BY <1>1, <1>2, Types DEF Inv, RowsHaveArtifacts, TypeOK
<1>6. contents' \in [Runs -> SUBSET Contents] /\ copies' \in [Ids -> Int]
  <2>1. contents \in [Runs -> SUBSET Contents] /\ copies \in [Ids -> Int]
    BY DEF Inv, TypeOK
  <2>2. contents' \in [Runs -> SUBSET Contents]
    BY <1>3, <1>5, <2>1
  <2>3. copies' \in [Ids -> Int]
    BY <1>3, <2>1
  <2> QED
    BY <2>2, <2>3
<1>7. worker' \in [Workers -> Worker] => TypeOK'
  BY <1>3, <1>6 DEF Inv, TypeOK
<1>8. WorkerIsSound(w)'
  BY <1>1, <1>2, <1>3, <1>4, WorkerMoves DEF WorkerIsSound, HoldsClaim
<1>9. \A r \in Runs : \A c \in contents'[r] :
        c \in contents[r] \/ (r = RunOf(d) /\ c = artifacts[r])
  <2>1. contents \in [Runs -> SUBSET Contents]
    BY DEF Inv, TypeOK
  <2> QED
    BY <1>3, <2>1
<1>10. SentIsStored'
  BY <1>3, <1>5, <1>9 DEF SentIsStored, Inv
<1>11. NothingIsDropped /\ RowsHaveArtifacts' /\ NoRunSkipped'
  BY <1>3 DEF Inv, NothingIsDropped, RowsHaveArtifacts, NoRunSkipped
<1>12. books' = books /\ bounds'.incidents >= bounds.incidents
  BY <1>3 DEF Inv, TypeOK
<1> QED
  BY <1>3, <1>4, <1>7, <1>8, <1>10, <1>11, <1>12, WorkerStep

(* The status of a row that was claimed once changes to another one.       *)
LEMMA StatusWritten ==
  ASSUME Inv, NEW id \in Ids, NEW status \in Statuses,
         rows[id].status # Absent,
         rows' = [rows EXCEPT ![id].status = status]
  PROVE  /\ rows' \in [Ids -> [status : Statuses \cup {Absent}, attempts : Nat]]
         /\ rows'[id].status = status
         /\ \A d \in Ids : d # id => rows'[d] = rows[d]
         /\ \A d \in Ids : rows'[d].status = Absent <=> rows[d].status = Absent
<1>1. rows \in [Ids -> [status : Statuses \cup {Absent}, attempts : Nat]]
  BY DEF Inv, TypeOK
<1>2. rows'[id].status = status /\ \A d \in Ids : d # id => rows'[d] = rows[d]
  BY <1>1
<1>3. rows' \in [Ids -> [status : Statuses \cup {Absent}, attempts : Nat]]
  BY <1>1
<1> QED
  BY <1>2, <1>3, AbsentAssumption

LEMMA MarkDeliveredInv == \A w \in Workers : Inv /\ MarkDelivered(w) => Inv'
<1> SUFFICES ASSUME NEW w \in Workers, Inv, MarkDelivered(w) PROVE Inv'
  OBVIOUS
<1> DEFINE k == worker[w]
<1>1. /\ k \in Worker /\ k.at = "sent" /\ k.id \in Ids
      /\ rows[k.id].status # Absent
  BY Types DEF MarkDelivered, Inv, WorkerIsSound, HoldsClaim
<1>2. PICK d \in Ids : d = k.id
  BY <1>1
<1>3. CASE rows[d].status = "delivering"
  <2> DEFINE new == [k EXCEPT !.at = "deliver"]
  <2>1. /\ rows' = [rows EXCEPT ![d].status = "delivered"]
        /\ expired' = expired \ {d}
        /\ Step(w, new)
        /\ UNCHANGED <<closed, books, schedule, artifacts, due, history, bounds>>
    BY <1>2, <1>3 DEF MarkDelivered
  <2>2. new \in Worker /\ new.at = "deliver"
    BY <1>1 DEF Worker
  <2> HIDE DEF new
  <2>3. WorkerIsSound(w)'
    BY <2>1, <2>2, WorkerMoves DEF WorkerIsSound, HoldsClaim
  <2>4. "delivered" \in Statuses
    BY DEF Statuses
  <2>5. due' \subseteq Ids /\ expired' \subseteq Ids
    BY <2>1 DEF Inv, TypeOK
  <2> QED
    BY <1>1, <1>2, <2>1, <2>2, <2>3, <2>4, <2>5, StatusWritten, RowStep
<1>4. CASE rows[d].status # "delivering"
  <2> DEFINE new == [k EXCEPT !.at = "failed"]
  <2>1. /\ Step(w, new)
        /\ UNCHANGED <<closed, books, schedule, artifacts, rows, due, expired,
                       history, bounds>>
    BY <1>2, <1>4 DEF MarkDelivered
  <2>2. new \in Worker /\ new.at = "failed" /\ new.id = d
    BY <1>1, <1>2 DEF Worker
  <2> HIDE DEF new
  <2>3. WorkerIsSound(w)'
    BY <1>1, <1>2, <2>1, <2>2, WorkerMoves DEF WorkerIsSound, HoldsClaim
  <2> QED
    BY <2>1, <2>2, <2>3, QuietStep
<1> QED
  BY <1>3, <1>4

LEMMA ReadFailedInv == \A w \in Workers : Inv /\ ReadFailed(w) => Inv'
<1> SUFFICES ASSUME NEW w \in Workers, Inv, ReadFailed(w) PROVE Inv'
  OBVIOUS
<1> DEFINE k == worker[w]
<1>1. /\ k \in Worker /\ k.at = "failed" /\ k.id \in Ids
      /\ rows[k.id].status # Absent
  BY Types DEF ReadFailed, Inv, WorkerIsSound, HoldsClaim
<1>2. PICK d \in Ids : d = k.id
  BY <1>1
<1>3. CASE rows[d].status = "delivering"
  <2>1. PICK verdict \in {"dead_letter", "retry"} :
          /\ Step(w, [k EXCEPT !.at = "failing", !.verdict = verdict])
          /\ UNCHANGED <<closed, books, schedule, artifacts, rows, due, expired,
                         history, bounds>>
    BY <1>2, <1>3 DEF ReadFailed
  <2> DEFINE new == [k EXCEPT !.at = "failing", !.verdict = verdict]
  <2>2. /\ new \in Worker /\ new.at = "failing" /\ new.id = d
        /\ new.verdict = verdict
    BY <1>1, <1>2 DEF Worker
  <2>3. verdict # Absent
    BY AbsentAssumption DEF Statuses
  <2> HIDE DEF new
  <2>4. WorkerIsSound(w)'
    BY <1>1, <1>2, <2>1, <2>2, <2>3, WorkerMoves DEF WorkerIsSound, HoldsClaim, new
  <2> QED
    BY <2>1, <2>2, <2>4, QuietStep DEF new
<1>4. CASE rows[d].status # "delivering"
  <2>1. Throw(w) /\ UNCHANGED <<closed, books, schedule, history, bounds>>
    BY <1>2, <1>4 DEF ReadFailed
  <2> QED
    BY <2>1, IdleIsSound, QuietStep DEF Throw
<1> QED
  BY <1>3, <1>4

LEMMA WriteFailedInv == \A w \in Workers : Inv /\ WriteFailed(w) => Inv'
<1> SUFFICES ASSUME NEW w \in Workers, Inv, WriteFailed(w) PROVE Inv'
  OBVIOUS
<1> DEFINE k == worker[w]
           new == [k EXCEPT !.at = "deliver", !.verdict = Absent]
<1>1. /\ k \in Worker /\ k.at = "failing" /\ k.id \in Ids
      /\ rows[k.id].status # Absent /\ k.verdict # Absent
  BY Types DEF WriteFailed, Inv, WorkerIsSound, HoldsClaim
<1>2. PICK d \in Ids : d = k.id
  BY <1>1
<1>3. PICK verdict \in Statuses : verdict = k.verdict
  BY <1>1 DEF Worker, Statuses
<1>4. /\ rows' = [rows EXCEPT ![d].status = verdict]
      /\ due' = due \ {d}
      /\ expired' = expired \ {d}
      /\ Step(w, new)
      /\ UNCHANGED <<closed, books, schedule, artifacts, history, bounds>>
  BY <1>2, <1>3 DEF WriteFailed
<1>5. new \in Worker /\ new.at = "deliver"
  BY <1>1 DEF Worker
<1> HIDE DEF new
<1>6. WorkerIsSound(w)'
  BY <1>4, <1>5, WorkerMoves DEF WorkerIsSound, HoldsClaim
<1>7. due' \subseteq Ids /\ expired' \subseteq Ids
  BY <1>4 DEF Inv, TypeOK
<1> QED
  BY <1>1, <1>2, <1>4, <1>5, <1>6, <1>7, StatusWritten, RowStep

LEMMA CrashInv == \A w \in Workers : Inv /\ Crash(w) => Inv'
<1> SUFFICES ASSUME NEW w \in Workers, Inv, Crash(w) PROVE Inv'
  OBVIOUS
<1> USE DEF schedule
<1> DEFINE k == worker[w]
<1>1. /\ bounds' = [bounds EXCEPT !.incidents = @ + 1]
      /\ bounds.incidents < MaxIncidents
      /\ copies' = IF k.at = "sent" THEN [copies EXCEPT ![k.id] = @ - 1]
                   ELSE copies
      /\ Step(w, Idle)
      /\ UNCHANGED <<closed, books, schedule, artifacts, rows, due, expired,
                     contents>>
  BY DEF Crash
<1>2. bounds \in [incidents : 0..MaxIncidents, overruns : 0..MaxOverruns]
  BY DEF Inv, TypeOK
<1>3. /\ bounds' \in [incidents : 0..MaxIncidents, overruns : 0..MaxOverruns]
      /\ bounds'.incidents >= bounds.incidents
  BY <1>1, <1>2, Types
<1>4. copies' \in [Ids -> Int]
  <2>1. copies \in [Ids -> Int]
    BY DEF Inv, TypeOK
  <2>2. CASE k.at = "sent"
    <3>1. k.id \in Ids
      BY <2>2 DEF Inv, WorkerIsSound, HoldsClaim
    <3> QED
      BY <1>1, <2>1, <2>2, <3>1
  <2>3. CASE k.at # "sent"
    BY <1>1, <2>1, <2>3
  <2> QED
    BY <2>2, <2>3
<1>5. worker' \in [Workers -> Worker] => TypeOK'
  BY <1>1, <1>3, <1>4 DEF Inv, TypeOK
<1>6. NothingIsDropped /\ RowsHaveArtifacts' /\ SentIsStored' /\ NoRunSkipped'
  BY <1>1, NothingStored
<1> QED
  BY <1>1, <1>3, <1>5, <1>6, IdleIsSound, WorkerStep

LEMMA NextInv == Inv /\ [Next]_vars => Inv'
<1> SUFFICES ASSUME Inv, [Next]_vars PROVE Inv'
  OBVIOUS
<1>1. CASE UNCHANGED vars
  <2>1. TypeOK' /\ BooksAreBounded'
    BY <1>1 DEF Inv, TypeOK, BooksAreBounded, vars
  <2> QED
    BY <1>1, <2>1, NothingStored, OutsideStep DEF vars
<1>2. ASSUME NEW w \in Workers, Tick(w) PROVE Inv'
  BY <1>2, StartTickInv, BuildInv, EndGenerateInv, EnqueueArtifactInv,
     AdvanceScheduleInv, ClaimDueInv, EndTickInv, DeliverInv,
     MarkDeliveredInv, ReadFailedInv, WriteFailedInv DEF Tick
<1>3. ASSUME TimePasses PROVE Inv'
  BY <1>3, PeriodClosesInv, BackoffElapsesInv, LeaseExpiresInv DEF TimePasses
<1>4. ASSUME OperatorEdits PROVE Inv'
  BY <1>4, SaveScheduleInv, ReplayDeadLetterInv DEF OperatorEdits
<1> QED
  BY <1>1, <1>2, <1>3, <1>4, CrashInv, LateEventInv DEF Next

(* NoRunSkipped, for any number of workers that crash, overrun their       *)
(* leases and overtake each other: advanceSchedule moves the schedule over *)
(* a run only when its artifact and all its deliveries are stored.         *)
THEOREM NoRunIsSkipped == Spec => []NoRunSkipped
<1>1. Inv => NoRunSkipped
  BY DEF Inv
<1> QED
  BY <1>1, InitInv, NextInv, PTL DEF Spec

(* All destinations and all attempts of a run get the content that was     *)
(* stored first: enqueueArtifact never replaces an artifact.               *)
LEMMA ContentIsUnique == Inv => OneContentPerRun
<1> SUFFICES ASSUME Inv, NEW r \in Runs PROVE Cardinality(contents[r]) <= 1
  BY DEF OneContentPerRun
<1>1. \A c \in contents[r] : c = artifacts[r]
  BY DEF Inv, SentIsStored
<1>2. CASE contents[r] = {}
  <2>1. Cardinality({}) = 0
    BY FS_EmptySet
  <2>2. Cardinality(contents[r]) = 0
    BY <1>2, <2>1, Zenon
  <2> QED
    BY <2>2
<1>3. CASE contents[r] # {}
  <2>1. contents[r] = {artifacts[r]}
    BY <1>1, <1>3
  <2>2. Cardinality({artifacts[r]}) = 1
    BY FS_Singleton
  <2> QED
    BY <2>1, <2>2
<1> QED
  BY <1>2, <1>3

(* The part of OneReportPerRun that needs no lease: "immutable report      *)
(* artifacts", also for workers that outlive their leases.                 *)
THEOREM ContentsAreImmutable == Spec => []OneContentPerRun
BY ContentIsUnique, InitInv, NextInv, PTL DEF Spec

-----------------------------------------------------------------------------
(* Workers within their leases (MaxOverruns = 0: a lease expires only when *)
(* no worker holds its claim).                                             *)

Leased ==
  \A w \in Workers : HoldsClaim(w) =>
    rows[worker[w].id].status = "delivering" /\ worker[w].id \notin expired

\* A copy that somebody knows of.
Acknowledged(id) ==
  \/ rows[id].status = "delivered"
  \/ \E w \in Workers : worker[w].at = "sent" /\ worker[w].id = id

CopiesAreAcknowledged ==
  \A id \in Ids : copies[id] <= 1 /\ (~Acknowledged(id) => copies[id] <= 0)

LeaseInv == Leased /\ ExclusiveClaim /\ CopiesAreAcknowledged

DeliveredStays ==
  \A id \in Ids :
    rows[id].status = "delivered" => rows'[id].status = "delivered"

(* A step on which nobody takes a new claim and nobody gets another copy.  *)
LEMMA LeaseStep ==
  ASSUME Inv, LeaseInv, copies' \in [Ids -> Int],
         \A v \in Workers : HoldsClaim(v)' =>
           /\ HoldsClaim(v) /\ worker'[v].id = worker[v].id
           /\ rows'[worker[v].id].status = "delivering"
           /\ worker[v].id \notin expired',
         DeliveredStays,
         \A id \in Ids : copies'[id] <= copies[id],
         \A v \in Workers : worker[v].at = "sent" =>
           \/ worker'[v].at = "sent" /\ worker'[v].id = worker[v].id
           \/ rows'[worker[v].id].status = "delivered"
           \/ copies'[worker[v].id] <= 0
  PROVE  LeaseInv'
<1>1. Leased'
  BY DEF Leased
<1>2. ExclusiveClaim'
  BY DEF LeaseInv, ExclusiveClaim
<1>3. copies \in [Ids -> Int]
  BY DEF Inv, TypeOK
<1>4. ASSUME NEW id \in Ids, Acknowledged(id)
      PROVE  Acknowledged(id)' \/ copies'[id] <= 0
  BY <1>4 DEF Acknowledged, DeliveredStays
<1>5. CopiesAreAcknowledged'
  <2> SUFFICES ASSUME NEW id \in Ids
               PROVE  /\ copies'[id] <= 1
                      /\ ~Acknowledged(id)' => copies'[id] <= 0
    BY DEF CopiesAreAcknowledged
  <2>1. /\ copies[id] \in Int /\ copies'[id] \in Int
        /\ copies'[id] <= copies[id]
    BY <1>3
  <2>2. copies[id] <= 1 /\ (~Acknowledged(id) => copies[id] <= 0)
    BY DEF LeaseInv, CopiesAreAcknowledged
  <2> QED
    BY <1>4, <2>1, <2>2
<1> QED
  BY <1>1, <1>2, <1>5 DEF LeaseInv

(* A step that leaves the claims and the rows that exist alone.            *)
LEMMA LeaseUntouched ==
  ASSUME Inv, LeaseInv, copies' \in [Ids -> Int],
         \A id \in Ids : copies'[id] <= copies[id],
         \A id \in Ids : rows[id].status \in {"delivering", "delivered"} =>
                           rows'[id].status = rows[id].status,
         \A v \in Workers : HoldsClaim(v) => worker[v].id \notin expired',
         \A v \in Workers : worker'[v] = worker[v] \/
           (~HoldsClaim(v)' /\ worker[v].at # "sent")
  PROVE  LeaseInv' /\ DeliveredStays
<1>1. \A v \in Workers : HoldsClaim(v) => worker[v].id \in Ids
  BY DEF Inv, WorkerIsSound
<1>2. \A v \in Workers : worker'[v] = worker[v] =>
        (HoldsClaim(v)' <=> HoldsClaim(v))
  BY DEF HoldsClaim
<1>3. \A v \in Workers : HoldsClaim(v) =>
        rows'[worker[v].id].status = "delivering"
  BY <1>1 DEF LeaseInv, Leased
<1>4. DeliveredStays
  BY DEF DeliveredStays
<1>5. \A v \in Workers : HoldsClaim(v)' =>
        /\ HoldsClaim(v) /\ worker'[v].id = worker[v].id
        /\ rows'[worker[v].id].status = "delivering"
        /\ worker[v].id \notin expired'
  BY <1>2, <1>3
<1>6. \A v \in Workers : worker[v].at = "sent" => worker'[v] = worker[v]
  OBVIOUS
<1> QED
  BY <1>4, <1>5, <1>6, LeaseStep

LEMMA LeaseOutside ==
  ASSUME MaxOverruns = 0, Inv, LeaseInv, TypeOK',
         \/ TimePasses
         \/ \E r \in Runs : LateEvent(r)
         \/ OperatorEdits
  PROVE  LeaseInv' /\ DeliveredStays
<1> USE DEF schedule, history
<1>1. copies \in [Ids -> Int] /\ copies' \in [Ids -> Int]
  BY DEF Inv, TypeOK
<1>2. ASSUME PeriodCloses \/ (\E r \in Runs : LateEvent(r)) \/
             (\E id \in Ids : BackoffElapses(id)) \/
             (\E r \in Runs, on \in BOOLEAN : SaveSchedule(r, on))
      PROVE  LeaseInv' /\ DeliveredStays
  <2>1. UNCHANGED <<rows, expired, worker, copies>>
    BY <1>2 DEF PeriodCloses, LateEvent, BackoffElapses, SaveSchedule
  <2> QED
    BY <1>1, <2>1, LeaseUntouched DEF LeaseInv, Leased
<1>3. ASSUME NEW id \in Ids, LeaseExpires(id)
      PROVE  LeaseInv' /\ DeliveredStays
  <2>1. bounds.overruns \in 0..MaxOverruns
    BY DEF Inv, TypeOK
  <2>2. ~Held(id) /\ expired' = expired \cup {id}
        /\ UNCHANGED <<rows, worker, copies>>
    BY <1>3, <2>1 DEF LeaseExpires
  <2>3. \A v \in Workers : HoldsClaim(v) => worker[v].id \notin expired'
    BY <2>2 DEF Held, LeaseInv, Leased
  <2> QED
    BY <1>1, <2>2, <2>3, LeaseUntouched
<1>4. ASSUME NEW id \in Ids, ReplayDeadLetter(id)
      PROVE  LeaseInv' /\ DeliveredStays
  <2>1. /\ rows[id].status = "dead_letter"
        /\ \A d \in Ids : d # id => rows'[d] = rows[d]
        /\ \A d \in Ids : copies'[d] = IF d = id THEN copies[d] - 1
                                                 ELSE copies[d]
        /\ UNCHANGED <<expired, worker>>
    BY <1>4 DEF ReplayDeadLetter, Inv, TypeOK
  <2>2. \A d \in Ids : copies'[d] <= copies[d]
    BY <1>1, <2>1
  <2> QED
    BY <1>1, <2>1, <2>2, LeaseUntouched DEF LeaseInv, Leased
<1> QED
  BY <1>2, <1>3, <1>4 DEF TimePasses, OperatorEdits

(* The steps of a tick on which the worker holds no claim.                 *)
LEMMA LeaseUnclaimed ==
  ASSUME Inv, LeaseInv, TypeOK', NEW w \in Workers,
         \/ StartTick(w) \/ Build(w) \/ EndGenerate(w) \/ EnqueueArtifact(w)
         \/ AdvanceSchedule(w) \/ EndTick(w)
  PROVE  LeaseInv' /\ DeliveredStays
<1> USE DEF schedule, history
<1>1. copies \in [Ids -> Int] /\ copies' = copies /\ expired' = expired
  BY DEF Inv, TypeOK, StartTick, Build, EndGenerate, EnqueueArtifact, Store,
         Throw, AdvanceSchedule, EndTick
<1>2. worker[w].at \in {"idle", "generate", "built", "advance", "deliver"}
  BY DEF StartTick, Build, EndGenerate, EnqueueArtifact, AdvanceSchedule,
         EndTick
<1>3. worker \in [Workers -> Worker]
  BY DEF Inv, TypeOK
<1>4. /\ worker'[w].at \in {"idle", "generate", "built", "advance", "deliver"}
      /\ \A v \in Workers : v # w => worker'[v] = worker[v]
  <2>1. worker[w] \in Worker
    BY Types
  <2>2. CASE StartTick(w)
    BY <1>3, <2>2 DEF StartTick, Step, Idle
  <2>3. CASE Build(w)
    BY <1>3, <2>1, <2>3 DEF Build, Step, Worker
  <2>4. CASE EndGenerate(w)
    BY <1>3, <2>1, <2>4 DEF EndGenerate, Step, Worker
  <2>5. CASE EnqueueArtifact(w)
    <3>1. CASE Step(w, Idle)
      BY <1>3, <3>1 DEF Step, Idle
    <3>2. CASE Step(w, [worker[w] EXCEPT !.at = "advance"])
      BY <1>3, <2>1, <3>2 DEF Step, Worker
    <3>3. \/ Store(w, Inserted(worker[w].run)) \/ Throw(w)
      BY <2>5 DEF EnqueueArtifact
    <3>4. Step(w, Idle) \/ Step(w, [worker[w] EXCEPT !.at = "advance"])
      BY <3>3 DEF Store, Throw
    <3> QED
      BY <3>1, <3>2, <3>4
  <2>6. CASE AdvanceSchedule(w)
    <3>1. CASE Step(w, [worker[w] EXCEPT !.at = "generate",
                                         !.run = worker[w].run + 1,
                                         !.n = worker[w].n + 1])
      BY <1>3, <2>1, <3>1 DEF Step, Worker
    <3>2. CASE Step(w, [worker[w] EXCEPT !.at = "deliver", !.n = 0])
      BY <1>3, <2>1, <3>2 DEF Step, Worker
    <3>3. ASSUME Advanced(w, worker[w].run + 1)
          PROVE  Step(w, [worker[w] EXCEPT !.at = "generate",
                                           !.run = worker[w].run + 1,
                                           !.n = worker[w].n + 1])
      BY <3>3 DEF Advanced
    <3>4. \/ Advanced(w, worker[w].run + 1)
          \/ Step(w, [worker[w] EXCEPT !.at = "deliver", !.n = 0])
      BY <2>6 DEF AdvanceSchedule
    <3> QED
      BY <3>1, <3>2, <3>3, <3>4
  <2>7. CASE EndTick(w)
    BY <1>3, <2>7 DEF EndTick, Step, Idle
  <2> QED
    BY <2>2, <2>3, <2>4, <2>5, <2>6, <2>7
<1>5. ~HoldsClaim(w)' /\ worker[w].at # "sent"
  BY <1>2, <1>4 DEF HoldsClaim
<1>6. \A id \in Ids : rows[id].status \in {"delivering", "delivered"} =>
        rows'[id].status = rows[id].status
  <2>1. CASE EnqueueArtifact(w)
    <3>1. \/ UNCHANGED rows
          \/ rows' = [id \in Ids |-> IF id \in Inserted(worker[w].run)
               THEN [status |-> "pending", attempts |-> 0] ELSE rows[id]]
      BY <2>1 DEF EnqueueArtifact, Store, Throw
    <3>2. \A id \in Inserted(worker[w].run) : rows[id].status = Absent
      BY DEF Inserted
    <3> QED
      BY <3>1, <3>2, AbsentAssumption DEF Statuses
  <2>2. CASE ~EnqueueArtifact(w)
    BY <2>2 DEF StartTick, Build, EndGenerate, AdvanceSchedule, EndTick
  <2> QED
    BY <2>1, <2>2
<1> QED
  BY <1>1, <1>4, <1>5, <1>6, LeaseUntouched DEF LeaseInv, Leased

LEMMA LeaseClaimDue ==
  ASSUME Inv, LeaseInv, NEW w \in Workers, NEW id \in Ids, ClaimDue(w, id)
  PROVE  LeaseInv' /\ DeliveredStays
<1> DEFINE k == worker[w]
           new == [k EXCEPT !.at = "sending", !.n = @ + 1, !.id = id]
<1>1. /\ k \in Worker /\ k.at = "deliver"
      /\ rows' = [rows EXCEPT ![id] = [status |-> "delivering",
                                       attempts |-> @.attempts + 1]]
      /\ expired' = expired \ {id}
      /\ worker' = [worker EXCEPT ![w] = new]
      /\ UNCHANGED copies
      /\ id \in Claimable
  BY Types DEF ClaimDue, Step, history
<1>2. new.at = "sending" /\ new.id = id
  BY <1>1 DEF Worker
<1> HIDE DEF new
<1>3. /\ worker'[w] = new
      /\ \A v \in Workers : v # w => worker'[v] = worker[v]
  BY <1>1 DEF Inv, TypeOK
<1>4. /\ rows'[id].status = "delivering"
      /\ \A d \in Ids : d # id => rows'[d] = rows[d]
  BY <1>1 DEF Inv, TypeOK
<1>5. /\ rows[id].status # "delivered"
      /\ \A v \in Workers : HoldsClaim(v) => worker[v].id # id
  BY <1>1 DEF Claimable, LeaseInv, Leased
<1>6. /\ HoldsClaim(w)'
      /\ \A v \in Workers : v # w => (HoldsClaim(v)' <=> HoldsClaim(v))
  BY <1>2, <1>3 DEF HoldsClaim
<1>7. \A v \in Workers : HoldsClaim(v) => worker[v].id \in Ids
  BY DEF Inv, WorkerIsSound
<1>8. Leased'
  BY <1>1, <1>2, <1>3, <1>4, <1>5, <1>6, <1>7 DEF LeaseInv, Leased
<1>9. ExclusiveClaim'
  BY <1>2, <1>3, <1>5, <1>6 DEF LeaseInv, ExclusiveClaim
<1>10. DeliveredStays
  BY <1>4, <1>5 DEF DeliveredStays
<1>11. \A d \in Ids : Acknowledged(d) => Acknowledged(d)'
  BY <1>1, <1>3, <1>10 DEF Acknowledged, DeliveredStays
<1>12. CopiesAreAcknowledged'
  BY <1>1, <1>11 DEF LeaseInv, CopiesAreAcknowledged
<1> QED
  BY <1>8, <1>9, <1>10, <1>12 DEF LeaseInv

(* Sending: only the holder of the claim can add a copy.                   *)
LEMMA LeaseDeliver ==
  ASSUME Inv, LeaseInv, TypeOK', NEW w \in Workers, NEW arrives \in BOOLEAN,
         NEW answered \in BOOLEAN, Deliver(w, arrives, answered)
  PROVE  LeaseInv' /\ DeliveredStays
<1> DEFINE k == worker[w]
           new == [k EXCEPT !.at = IF answered THEN "sent" ELSE "failed"]
<1>1. k \in Worker /\ k.at = "sending" /\ HoldsClaim(w) /\ k.id \in Ids
  BY Types DEF Deliver, HoldsClaim, Inv, WorkerIsSound
<1>2. PICK d \in Ids : d = k.id
  BY <1>1
<1>3. /\ copies' = IF answered THEN [copies EXCEPT ![d] = @ + 1] ELSE copies
      /\ worker' = [worker EXCEPT ![w] = new]
      /\ UNCHANGED <<rows, expired>>
  BY <1>2 DEF Deliver, Step
<1>4. /\ new.at = (IF answered THEN "sent" ELSE "failed")
      /\ new.id = d
  BY <1>1, <1>2 DEF Worker
<1> HIDE DEF new
<1>5. /\ worker'[w] = new
      /\ \A v \in Workers : v # w => worker'[v] = worker[v]
  BY <1>3 DEF Inv, TypeOK
<1>6. \A v \in Workers : /\ worker'[v].id = worker[v].id
                         /\ HoldsClaim(v)' <=> HoldsClaim(v)
  BY <1>1, <1>2, <1>4, <1>5 DEF HoldsClaim
<1>7. Leased' /\ ExclusiveClaim' /\ DeliveredStays
  BY <1>3, <1>6 DEF LeaseInv, Leased, ExclusiveClaim, DeliveredStays
<1>8. rows[d].status = "delivering"
  BY <1>1, <1>2 DEF LeaseInv, Leased
<1>9. \A v \in Workers : worker[v].at = "sent" => worker[v].id # d
  BY <1>1, <1>2 DEF LeaseInv, ExclusiveClaim, HoldsClaim
<1>10. copies[d] <= 0
  BY <1>8, <1>9 DEF LeaseInv, CopiesAreAcknowledged, Acknowledged
<1>11. copies \in [Ids -> Int]
  BY DEF Inv, TypeOK
<1>12. ASSUME NEW i \in Ids
       PROVE  copies'[i] <= 1 /\ (~Acknowledged(i)' => copies'[i] <= 0)
  <2>1. copies[i] <= 1 /\ (~Acknowledged(i) => copies[i] <= 0)
    BY DEF LeaseInv, CopiesAreAcknowledged
  <2>2. Acknowledged(i) => Acknowledged(i)'
    BY <1>1, <1>3, <1>5 DEF Acknowledged
  <2>3. CASE i = d /\ answered
    <3>1. copies'[i] <= 1
      BY <1>3, <1>10, <1>11, <2>3
    <3>2. Acknowledged(i)'
      BY <1>4, <1>5, <2>3 DEF Acknowledged
    <3> QED
      BY <3>1, <3>2
  <2>4. CASE ~(i = d /\ answered)
    <3>1. copies'[i] = copies[i]
      BY <1>3, <1>11, <2>4
    <3> QED
      BY <2>1, <2>2, <3>1
  <2> QED
    BY <2>3, <2>4
<1>13. CopiesAreAcknowledged'
  BY <1>12 DEF CopiesAreAcknowledged
<1> QED
  BY <1>7, <1>13 DEF LeaseInv

LEMMA LeaseMarkDelivered ==
  ASSUME Inv, LeaseInv, TypeOK', NEW w \in Workers, MarkDelivered(w)
  PROVE  LeaseInv' /\ DeliveredStays
<1> DEFINE k == worker[w]
           new == [k EXCEPT !.at = "deliver"]
<1>1. /\ k \in Worker /\ k.at = "sent" /\ HoldsClaim(w) /\ k.id \in Ids
      /\ rows[k.id].status = "delivering"
  BY Types DEF MarkDelivered, HoldsClaim, Inv, WorkerIsSound, LeaseInv, Leased
<1>2. PICK d \in Ids : d = k.id
  BY <1>1
<1>3. /\ rows' = [rows EXCEPT ![d].status = "delivered"]
      /\ expired' = expired \ {d}
      /\ worker' = [worker EXCEPT ![w] = new]
      /\ UNCHANGED copies
  BY <1>1, <1>2 DEF MarkDelivered, Step, history
<1>4. new.at = "deliver"
  BY <1>1 DEF Worker
<1> HIDE DEF new
<1>5. /\ worker'[w] = new
      /\ \A v \in Workers : v # w => worker'[v] = worker[v]
  BY <1>3 DEF Inv, TypeOK
<1>6. /\ rows'[d].status = "delivered"
      /\ \A i \in Ids : i # d => rows'[i] = rows[i]
  BY <1>3 DEF Inv, TypeOK
<1>7. \A v \in Workers : HoldsClaim(v)' =>
        /\ v # w /\ HoldsClaim(v) /\ worker'[v].id = worker[v].id
        /\ worker[v].id # d /\ worker[v].id \in Ids
  BY <1>1, <1>2, <1>4, <1>5
     DEF HoldsClaim, LeaseInv, ExclusiveClaim, Inv, WorkerIsSound
<1>8. DeliveredStays
  BY <1>6 DEF DeliveredStays
<1>9. \A v \in Workers : HoldsClaim(v)' =>
        /\ HoldsClaim(v) /\ worker'[v].id = worker[v].id
        /\ rows'[worker[v].id].status = "delivering"
        /\ worker[v].id \notin expired'
  BY <1>3, <1>6, <1>7 DEF LeaseInv, Leased
<1>10. \A v \in Workers : worker[v].at = "sent" =>
         \/ worker'[v].at = "sent" /\ worker'[v].id = worker[v].id
         \/ rows'[worker[v].id].status = "delivered"
  BY <1>2, <1>5, <1>6
<1>11. /\ copies' \in [Ids -> Int]
       /\ \A i \in Ids : copies'[i] <= copies[i]
  BY <1>3 DEF Inv, TypeOK
<1> QED
  BY <1>8, <1>9, <1>10, <1>11, LeaseStep

LEMMA LeaseReadFailed ==
  ASSUME Inv, LeaseInv, TypeOK', NEW w \in Workers, ReadFailed(w)
  PROVE  LeaseInv' /\ DeliveredStays
<1> DEFINE k == worker[w]
<1>1. /\ k \in Worker /\ k.at = "failed" /\ HoldsClaim(w)
      /\ rows[k.id].status = "delivering"
  BY Types DEF ReadFailed, HoldsClaim, LeaseInv, Leased
<1>2. /\ worker'[w].at = "failing" /\ worker'[w].id = worker[w].id
      /\ \A v \in Workers : v # w => worker'[v] = worker[v]
      /\ UNCHANGED <<rows, expired, copies>>
  <2>1. worker \in [Workers -> Worker]
    BY DEF Inv, TypeOK
  <2> QED
    <3>1. PICK v \in {"retry", "dead_letter"} :
            Step(w, [worker[w] EXCEPT !.at = "failing", !.verdict = v])
      BY <1>1 DEF ReadFailed
    <3>2. /\ worker'[w].at = "failing" /\ worker'[w].id = worker[w].id
          /\ \A v1 \in Workers : v1 # w => worker'[v1] = worker[v1]
      BY <1>1, <2>1, <3>1 DEF Step, Worker
    <3>3. UNCHANGED <<rows, expired, copies>>
      BY <1>1 DEF ReadFailed, history
    <3> QED
      BY <3>2, <3>3
<1>3. \A v \in Workers : HoldsClaim(v)' =>
        HoldsClaim(v) /\ worker'[v].id = worker[v].id
  BY <1>1, <1>2 DEF HoldsClaim
<1>4. \A v \in Workers : worker[v].at = "sent" => worker'[v] = worker[v]
  BY <1>1, <1>2
<1>5. /\ copies' \in [Ids -> Int]
      /\ \A i \in Ids : copies'[i] <= copies[i]
  BY <1>2 DEF Inv, TypeOK
<1>6. DeliveredStays
  BY <1>2 DEF DeliveredStays
<1>7. \A v \in Workers : HoldsClaim(v) =>
        /\ rows'[worker[v].id].status = "delivering"
        /\ worker[v].id \notin expired'
  BY <1>2 DEF LeaseInv, Leased
<1> QED
  BY <1>3, <1>4, <1>5, <1>6, <1>7, LeaseStep

LEMMA LeaseWriteFailed ==
  ASSUME Inv, LeaseInv, TypeOK', NEW w \in Workers, WriteFailed(w)
  PROVE  LeaseInv' /\ DeliveredStays
<1> DEFINE k == worker[w]
           new == [k EXCEPT !.at = "deliver", !.verdict = Absent]
<1>1. /\ k \in Worker /\ k.at = "failing" /\ HoldsClaim(w) /\ k.id \in Ids
      /\ rows[k.id].status = "delivering"
  BY Types DEF WriteFailed, HoldsClaim, Inv, WorkerIsSound, LeaseInv, Leased
<1>2. PICK d \in Ids : d = k.id
  BY <1>1
<1>3. /\ rows' = [rows EXCEPT ![d].status = k.verdict]
      /\ expired' = expired \ {d}
      /\ worker' = [worker EXCEPT ![w] = new]
      /\ UNCHANGED copies
  BY <1>1, <1>2 DEF WriteFailed, Step, history
<1>4. new.at = "deliver"
  BY <1>1 DEF Worker
<1> HIDE DEF new
<1>5. /\ worker'[w] = new
      /\ \A v \in Workers : v # w => worker'[v] = worker[v]
  BY <1>3 DEF Inv, TypeOK
<1>6. /\ rows[d].status = "delivering"
      /\ \A i \in Ids : i # d => rows'[i] = rows[i]
  BY <1>1, <1>2, <1>3 DEF Inv, TypeOK
<1>7. \A v \in Workers : HoldsClaim(v)' =>
        /\ v # w /\ HoldsClaim(v) /\ worker'[v].id = worker[v].id
        /\ worker[v].id # d /\ worker[v].id \in Ids
  BY <1>1, <1>2, <1>4, <1>5
     DEF HoldsClaim, LeaseInv, ExclusiveClaim, Inv, WorkerIsSound
<1>8. DeliveredStays
  BY <1>6 DEF DeliveredStays
<1>9. \A v \in Workers : HoldsClaim(v)' =>
        /\ HoldsClaim(v) /\ worker'[v].id = worker[v].id
        /\ rows'[worker[v].id].status = "delivering"
        /\ worker[v].id \notin expired'
  BY <1>3, <1>6, <1>7 DEF LeaseInv, Leased
<1>10. \A v \in Workers : worker[v].at = "sent" => worker'[v] = worker[v]
  BY <1>1, <1>5
<1>11. /\ copies' \in [Ids -> Int]
       /\ \A i \in Ids : copies'[i] <= copies[i]
  BY <1>3 DEF Inv, TypeOK
<1> QED
  BY <1>8, <1>9, <1>10, <1>11, LeaseStep

LEMMA LeaseCrash ==
  ASSUME Inv, LeaseInv, TypeOK', NEW w \in Workers, Crash(w)
  PROVE  LeaseInv' /\ DeliveredStays
<1> DEFINE k == worker[w]
<1>1. /\ copies' = IF k.at = "sent" THEN [copies EXCEPT ![k.id] = @ - 1]
                   ELSE copies
      /\ worker' = [worker EXCEPT ![w] = Idle]
      /\ UNCHANGED <<rows, expired>>
  BY DEF Crash, Step
<1>2. /\ worker'[w].at = "idle"
      /\ \A v \in Workers : v # w => worker'[v] = worker[v]
  BY <1>1 DEF Inv, TypeOK, Idle
<1>3. copies \in [Ids -> Int] /\ copies' \in [Ids -> Int]
  BY DEF Inv, TypeOK
<1>4. k.at = "sent" => k.id \in Ids
  BY DEF HoldsClaim, Inv, WorkerIsSound
<1>5. \A i \in Ids : copies'[i] <= copies[i]
  <2>1. CASE k.at = "sent"
    <3>1. \A i \in Ids :
            copies'[i] = IF i = k.id THEN copies[i] - 1 ELSE copies[i]
      BY <1>1, <1>3, <2>1
    <3>2. \A i \in Ids : copies[i] \in Int
      BY <1>3
    <3> QED
      BY <3>1, <3>2
  <2>2. CASE k.at # "sent"
    BY <1>1, <1>3, <2>2
  <2> QED
    BY <2>1, <2>2
<1>6. k.at = "sent" => copies'[k.id] <= 0
  <2> SUFFICES ASSUME k.at = "sent" PROVE copies'[k.id] <= 0
    OBVIOUS
  <2>1. copies[k.id] <= 1 /\ copies[k.id] \in Int
    BY <1>3, <1>4 DEF LeaseInv, CopiesAreAcknowledged
  <2>2. copies'[k.id] = copies[k.id] - 1
    BY <1>1, <1>3, <1>4
  <2> QED
    BY <2>1, <2>2
<1>7. \A v \in Workers : HoldsClaim(v)' =>
        /\ HoldsClaim(v) /\ worker'[v].id = worker[v].id
        /\ rows'[worker[v].id].status = "delivering"
        /\ worker[v].id \notin expired'
  BY <1>1, <1>2 DEF HoldsClaim, LeaseInv, Leased
<1>8. \A v \in Workers : worker[v].at = "sent" =>
        \/ worker'[v].at = "sent" /\ worker'[v].id = worker[v].id
        \/ copies'[worker[v].id] <= 0
  BY <1>2, <1>6
<1>9. DeliveredStays
  BY <1>1 DEF DeliveredStays
<1> QED
  BY <1>3, <1>5, <1>7, <1>8, <1>9, LeaseStep

LEMMA InitLease == Init => LeaseInv
<1> SUFFICES ASSUME Init PROVE LeaseInv
  OBVIOUS
<1>1. \A w \in Workers : ~HoldsClaim(w)
  BY DEF Init, Idle, HoldsClaim
<1>2. CopiesAreAcknowledged
  BY DEF Init, CopiesAreAcknowledged
<1> QED
  BY <1>1, <1>2 DEF LeaseInv, Leased, ExclusiveClaim

LEMMA NextLease ==
  ASSUME MaxOverruns = 0, Inv, LeaseInv, [Next]_vars
  PROVE  LeaseInv' /\ DeliveredStays
<1>1. TypeOK'
  BY NextInv DEF Inv
<1>2. CASE UNCHANGED vars
  <2>1. UNCHANGED <<rows, expired, worker, copies>>
    BY <1>2 DEF vars
  <2>2. copies' \in [Ids -> Int] /\ \A i \in Ids : copies'[i] <= copies[i]
    BY <2>1 DEF Inv, TypeOK
  <2> QED
    BY <2>1, <2>2, LeaseUntouched DEF LeaseInv, Leased
<1>3. ASSUME NEW w \in Workers, Tick(w)
      PROVE  LeaseInv' /\ DeliveredStays
  BY <1>1, <1>3, LeaseUnclaimed, LeaseClaimDue, LeaseDeliver,
     LeaseMarkDelivered, LeaseReadFailed, LeaseWriteFailed DEF Tick
<1> QED
  BY <1>1, <1>2, <1>3, LeaseOutside, LeaseCrash DEF Next

(* ExclusiveClaim: no two workers send the same delivery at the same time, *)
(* as long as no worker outlives its lease (claimDue, leaseMs).            *)
THEOREM ClaimsAreExclusive ==
  ASSUME MaxOverruns = 0
  PROVE  Spec => []ExclusiveClaim
<1>1. LeaseInv => ExclusiveClaim
  BY DEF LeaseInv
<1> QED
  BY <1>1, InitInv, InitLease, NextInv, NextLease, PTL DEF Spec

(* OneReportPerRun: within the leases a destination gets a second copy of  *)
(* a run only after the first was taken for undelivered or was replayed,   *)
(* and never another content, whatever workers crash or repeat and         *)
(* whatever is indexed meanwhile.                                          *)
THEOREM ReportsAreUnique ==
  ASSUME MaxOverruns = 0
  PROVE  Spec => []OneReportPerRun
<1>1. Inv /\ LeaseInv => OneReportPerRun
  BY ContentIsUnique
     DEF Inv, LeaseInv, CopiesAreAcknowledged, OneReportPerRun,
         NoCopyWithoutExcuse
<1> QED
  BY <1>1, InitInv, InitLease, NextInv, NextLease, PTL DEF Spec

(* DeliveredIsFinal: within the leases neither markFailed, which does not  *)
(* look at the status it overwrites, nor a second claim takes back what    *)
(* was delivered.                                                          *)
THEOREM DeliveredForGood ==
  ASSUME MaxOverruns = 0
  PROVE  Spec => DeliveredIsFinal
<1>1. ASSUME Inv, LeaseInv, [Next]_vars
      PROVE  [\A id \in Ids : rows[id].status = "delivered" =>
                rows'[id].status = "delivered"]_vars
  BY <1>1, NextLease DEF DeliveredStays
<1> QED
  BY <1>1, InitInv, InitLease, NextInv, NextLease, PTL
     DEF Spec, DeliveredIsFinal
-----------------------------------------------------------------------------
RowsOf(items, l) == {i \in items : i.ledger = l}

\* The ledgers of its range a run has read.
ReadSoFar == run.from..(IF run.done THEN run.latest ELSE run.after)

\* What a run in progress relies on.  A ledger it has read may since have
\* been replaced, but none deeper than a fork below the head it saw.
RunIsSound ==
  /\ StartLedger <= run.from /\ run.from <= ResumeAt
  /\ run.from - 1 <= run.after
  /\ run.from <= run.latest => run.latest <= Len(chain)
  /\ run.from <= run.after => run.after <= Len(chain)
  /\ run.latest < run.from => run.after = run.from - 1
  /\ run.done = FALSE => \A i \in run.fetched : i.ledger <= run.after
  /\ \A l \in ReadSoFar :
       RowsOf(run.fetched, l) = Canonical(l) \/ run.latest - Depth < l

IndexerInv == StaleIsRepaired /\ (run # NoRun => RunIsSound)

LEMMA LeastNumber ==
  ASSUME NEW S \in SUBSET Nat, S # {}
  PROVE  \E i \in S : \A j \in S : i <= j
<1>1. \E i \in S : \A j \in S : ~(<<j, i>> \in OpToRel(<, Nat))
  BY NatLessThanWellFounded, WFMin
<1>2. \A i, j \in Nat : j < i => <<j, i>> \in OpToRel(<, Nat)
  BY DEF OpToRel
<1>3. PICK i \in S : \A j \in S : ~(<<j, i>> \in OpToRel(<, Nat))
  BY <1>1
<1>4. \A j \in S : ~(j < i)
  BY <1>2, <1>3
<1> QED
  BY <1>4

LEMMA MaxOfTwo ==
  ASSUME NEW a \in Int, NEW b \in Int
  PROVE  Max({a, b}) = IF a >= b THEN a ELSE b
<1>1. \A x \in {a, b} : (\A y \in {a, b} : x >= y) => x = IF a >= b THEN a ELSE b
  OBVIOUS
<1>2. \E x \in {a, b} : \A y \in {a, b} : x >= y
  OBVIOUS
<1> QED
  BY <1>1, <1>2 DEF Max

LEMMA MaxOfLedgers ==
  ASSUME NEW n \in Nat, NEW S \in SUBSET 1..n, S # {}
  PROVE  Max(S) \in S /\ \A l \in S : l <= Max(S)
<1> DEFINE T == {n - l : l \in S}
<1>1. T \in SUBSET Nat /\ T # {}
  <2>1. \A l \in S : n - l \in Nat
    OBVIOUS
  <2> QED
    BY <2>1
<1>2. PICK i \in T : \A j \in T : i <= j
  <2> HIDE DEF T
  <2> QED
    BY <1>1, LeastNumber
<1>3. PICK m \in S : i = n - m
  OBVIOUS
<1>4. \A l \in S : m >= l
  <2>1. \A l \in S : n - m <= n - l
    BY <1>2, <1>3
  <2> QED
    BY <2>1
<1>5. \E x \in S : \A y \in S : x >= y
  BY <1>4
<1>6. Max(S) \in S /\ \A y \in S : Max(S) >= y
  BY <1>5 DEF Max
<1> QED
  BY <1>6

(* A page holds the first PageSize of the ledgers that are due: all of     *)
(* them when it is not full, and when it is, all up to its last one.       *)
LEMMA PageFacts ==
  ASSUME NEW n \in Nat, NEW owed \in SUBSET 1..n, NEW batch \in SUBSET owed,
         \A l \in owed :
           l \in batch <=> Cardinality({m \in owed : m < l}) < PageSize
  PROVE  /\ Cardinality(batch) # PageSize => batch = owed
         /\ Cardinality(batch) = PageSize =>
              /\ Max(batch) \in batch /\ \A l \in batch : l <= Max(batch)
              /\ \A l \in owed : l <= Max(batch) => l \in batch
<1> DEFINE Before(l) == {m \in owed : m < l}
<1>1. PageSize \in Nat /\ PageSize > 0
  BY IndexerAssumption
<1>2. IsFiniteSet(owed)
  <2>1. IsFiniteSet(1..n)
    BY FS_Interval
  <2> QED
    BY <2>1, FS_Subset
<1>3. \A S \in SUBSET owed : IsFiniteSet(S) /\ Cardinality(S) \in Nat
  BY <1>2, FS_Subset, FS_CardinalityType
<1>4. Cardinality({}) = 0
  BY FS_EmptySet
<1>5. \A l \in owed : l \in batch <=> Cardinality(Before(l)) < PageSize
  OBVIOUS
<1>6. \A l \in owed : l \in Nat
  OBVIOUS
<1>7. ASSUME NEW l \in owed, NEW m \in owed, l <= m
      PROVE  Before(l) \subseteq Before(m)
  <2>1. \A k \in owed : k < l => k < m
    BY <1>7, <1>6
  <2> QED
    BY <2>1
<1>8. \A l \in owed : Before(l) \in SUBSET owed
  OBVIOUS
<1>9. ASSUME batch # {}
      PROVE  Max(batch) \in batch /\ \A l \in batch : l <= Max(batch)
  BY <1>9, MaxOfLedgers
<1> DEFINE M == Max(batch)
<1> HIDE DEF Before, M
<1>10. ASSUME batch # {}, NEW l \in owed, l <= M
      PROVE  l \in batch
  <2>1. M \in batch /\ M \in owed
    BY <1>9, <1>10 DEF M
  <2>2. Before(l) \subseteq Before(M)
    BY <1>7, <1>10, <2>1
  <2>3. Cardinality(Before(l)) <= Cardinality(Before(M))
    BY <1>3, <1>8, <2>1, <2>2, FS_Subset
  <2>4. Cardinality(Before(M)) < PageSize
    BY <1>5, <2>1
  <2>5. Cardinality(Before(l)) \in Nat /\ Cardinality(Before(M)) \in Nat
    BY <1>3, <1>8, <1>10, <2>1
  <2>6. Cardinality(Before(l)) < PageSize
    BY <1>1, <2>3, <2>4, <2>5
  <2> QED
    BY <1>5, <1>10, <2>6
<1>11. Cardinality(batch) <= PageSize
  <2>1. CASE batch = {}
    <3>1. Cardinality(batch) = 0
      BY <1>4, <2>1, Zenon
    <3> QED
      BY <1>1, <3>1
  <2>2. CASE batch # {}
    <3>1. M \in batch /\ \A l \in batch : l <= M
      BY <1>9, <2>2 DEF M
    <3>2. M \in owed /\ Cardinality(Before(M)) < PageSize
      BY <1>5, <3>1
    <3>3. batch \subseteq Before(M) \cup {M}
      <4>1. M \in Nat
        BY <1>6, <3>2
      <4>2. \A l \in batch : l \in owed /\ (l < M \/ l = M)
        BY <1>6, <3>1, <4>1
      <4> QED
        BY <4>2 DEF Before
    <3>4. Before(M) \subseteq owed
      BY <1>8, <3>2
    <3>5. IsFiniteSet(Before(M)) /\ Cardinality(Before(M)) \in Nat
      BY <1>3, <3>4
    <3>6. M \notin Before(M)
      <4>1. M \in Nat
        BY <3>2
      <4> QED
        BY <4>1 DEF Before
    <3>7. /\ IsFiniteSet(Before(M) \cup {M})
          /\ Cardinality(Before(M) \cup {M}) = Cardinality(Before(M)) + 1
      BY <3>5, <3>6, FS_AddElement
    <3>8. Cardinality(batch) <= Cardinality(Before(M)) + 1
      BY <3>3, <3>7, FS_Subset
    <3>9. Cardinality(batch) \in Nat
      BY <1>3
    <3> QED
      BY <1>1, <3>2, <3>5, <3>8, <3>9
  <2> QED
    BY <2>1, <2>2
<1>12. ASSUME batch # owed
       PROVE  Cardinality(batch) = PageSize
  <2>1. owed \ batch \in SUBSET Nat
    BY <1>6
  <2>2. owed \ batch # {}
    BY <1>12
  <2>3. PICK l \in owed \ batch : \A j \in owed \ batch : l <= j
    BY <2>1, <2>2, LeastNumber
  <2>4. Before(l) \subseteq batch
    <3>1. \A m \in owed : m < l => m \in batch
      <4>1. l \in Nat /\ \A m \in owed : m \in Nat
        OBVIOUS
      <4> QED
        BY <2>3, <4>1
    <3> QED
      BY <3>1 DEF Before
  <2>5. ~(Cardinality(Before(l)) < PageSize)
    BY <1>5, <2>3
  <2>6. Cardinality(Before(l)) <= Cardinality(batch)
    BY <1>3, <2>4, FS_Subset
  <2>7. Cardinality(Before(l)) \in Nat /\ Cardinality(batch) \in Nat
    BY <1>3, <1>8, <2>3
  <2> QED
    BY <1>1, <1>11, <2>5, <2>6, <2>7
<1>13. ASSUME Cardinality(batch) = PageSize
       PROVE  batch # {}
  <2> SUFFICES ASSUME batch = {} PROVE FALSE
    OBVIOUS
  <2>1. Cardinality(batch) = 0
    BY <1>4, Zenon
  <2> QED
    BY <1>1, <1>13, <2>1
<1> QED
  BY <1>9, <1>10, <1>12, <1>13 DEF M

-----------------------------------------------------------------------------
(* Types, and where the next poll resumes.                                 *)
LEMMA IndexerTypes ==
  ASSUME IndexerTypeOK
  PROVE  /\ StartLedger \in Nat /\ StartLedger >= 1
         /\ StartLedger <= MaxHead + 1
         /\ RollbackWindow \in Nat /\ FinalityLag \in Nat /\ Depth \in Nat
         /\ MaxHead \in Nat /\ Len(chain) \in Nat /\ Len(chain) <= MaxHead
         /\ next \in Nat /\ (next # 0 => StartLedger + 1 <= next)
         /\ \A i \in stored : i.ledger \in 1..MaxHead
         /\ run # NoRun => run \in Run
BY IndexerAssumption DEF IndexerTypeOK, Item

LEMMA ResumesWithin ==
  ASSUME IndexerTypeOK
  PROVE  /\ ResumeAt \in Nat /\ StartLedger <= ResumeAt
         /\ ResumeAt <= MaxHead + 1
         /\ next = 0 => ResumeAt = StartLedger
         /\ next # 0 => /\ ResumeAt <= next
                        /\ next - RollbackWindow <= ResumeAt
                        /\ \/ ResumeAt = StartLedger
                           \/ ResumeAt = next - RollbackWindow
<1> DEFINE checkpoint == IF next = 0 THEN StartLedger ELSE next
<1>1. /\ StartLedger \in Nat /\ next \in Nat /\ RollbackWindow \in Nat
      /\ StartLedger <= MaxHead + 1 /\ next <= MaxHead + 1
      /\ next # 0 => StartLedger + 1 <= next
      /\ MaxHead \in Nat
  <2>1. next # 0 => next <= MaxHead + 1
    BY IndexerAssumption DEF IndexerTypeOK
  <2> QED
    BY <2>1, IndexerTypes
<1>2. checkpoint \in Nat
  BY <1>1
<1>3. ResumeAt = Max({StartLedger, checkpoint - RollbackWindow})
  BY DEF ResumeAt
<1> HIDE DEF checkpoint
<1>4. ResumeAt = IF StartLedger >= checkpoint - RollbackWindow
                 THEN StartLedger ELSE checkpoint - RollbackWindow
  BY <1>1, <1>2, <1>3, MaxOfTwo
<1>5. checkpoint = IF next = 0 THEN StartLedger ELSE next
  BY DEF checkpoint
<1> QED
  BY <1>1, <1>2, <1>4, <1>5

LEMMA RunTypes ==
  ASSUME IndexerTypeOK, run # NoRun
  PROVE  /\ run.from \in 1..MaxHead + 1 /\ run.latest \in 0..MaxHead
         /\ run.after \in 0..MaxHead /\ run.done \in BOOLEAN
         /\ \A i \in run.fetched : i \in Item /\ i.ledger \in 1..MaxHead
         /\ run.fetched \subseteq Item
         /\ ReadSoFar \subseteq Int
BY IndexerTypes DEF Run, Item, ReadSoFar

(* Canonical(l) depends on ledger l of the chain only.                     *)
LEMMA CanonicalIsLocal ==
  ASSUME NEW l, chain'[l] = chain[l]
  PROVE  Canonical(l)' = Canonical(l)
BY DEF Canonical, ItemAt

(* A run in progress stays sound while the chain keeps all but its last    *)
(* ledgers, and the checkpoint stays.                                      *)
LEMMA RunStaysSound ==
  ASSUME IndexerTypeOK, run # NoRun, RunIsSound,
         run' = run, next' = next, Len(chain') \in Nat,
         Len(chain) <= Len(chain'),
         \A l \in 1..Len(chain) :
           chain'[l] = chain[l] \/ Len(chain) - Depth < l
  PROVE  RunIsSound'
<1>1. ResumeAt' = ResumeAt
  BY DEF ResumeAt
<1>2. ReadSoFar' = ReadSoFar
  BY DEF ReadSoFar
<1>3. ASSUME NEW l \in ReadSoFar
      PROVE  \/ RowsOf(run.fetched, l) = Canonical(l)'
             \/ run.latest - Depth < l
  <2>1. /\ run.from \in Nat /\ run.from >= 1 /\ run.latest \in Nat
        /\ run.after \in Nat /\ Len(chain) \in Nat /\ Depth \in Nat
    BY RunTypes, IndexerTypes
  <2>2. l \in Int /\ run.from <= l
    BY <1>3, <2>1 DEF ReadSoFar
  <2>3. l <= Len(chain)
    <3>1. CASE run.done
      <4>1. l <= run.latest
        BY <1>3, <2>1, <3>1 DEF ReadSoFar
      <4> QED
        BY <2>1, <2>2, <4>1 DEF RunIsSound
    <3>2. CASE ~run.done
      <4>1. l <= run.after
        BY <1>3, <2>1, <3>2 DEF ReadSoFar
      <4> QED
        BY <2>1, <2>2, <4>1 DEF RunIsSound
    <3> QED
      BY <3>1, <3>2
  <2>4. CASE chain'[l] = chain[l]
    BY <1>3, <2>4, CanonicalIsLocal DEF RunIsSound
  <2>5. CASE Len(chain) - Depth < l
    <3>1. run.latest <= Len(chain)
      <4>1. CASE run.from <= run.latest
        BY <4>1 DEF RunIsSound
      <4>2. CASE run.latest < run.from
        BY <2>1, <2>2, <2>3, <4>2
      <4> QED
        BY <2>1, <4>1, <4>2
    <3> QED
      BY <2>1, <2>2, <2>5, <3>1
  <2>6. l \in 1..Len(chain)
    BY <2>1, <2>2, <2>3
  <2> QED
    BY <2>4, <2>5, <2>6
<1>4. /\ run.from <= run.latest => run.latest <= Len(chain')
      /\ run.from <= run.after => run.after <= Len(chain')
  BY RunTypes, IndexerTypes DEF RunIsSound
<1> QED
  BY <1>1, <1>2, <1>3, <1>4 DEF RunIsSound, RowsOf

-----------------------------------------------------------------------------
(* The chain grows, or a fork replaces its last ledgers.                   *)
LEMMA ChainKeepsPromises ==
  ASSUME IndexerInv, Depth <= RollbackWindow + FinalityLag,
         UNCHANGED <<run, stored, next>>, IndexerTypeOK',
         Len(chain) <= Len(chain'),
         \A l \in 1..Len(chain) :
           chain'[l] = chain[l] \/ Len(chain) - Depth < l
  PROVE  IndexerInv'
<1>1. IndexerTypeOK /\ StaleIsReread /\ HeldBack
  BY DEF IndexerInv, StaleIsRepaired
<1>2. /\ Len(chain) \in Nat /\ Len(chain') \in Nat /\ Depth \in Nat
      /\ FinalityLag \in Nat /\ RollbackWindow \in Nat /\ next \in Nat
      /\ StartLedger \in Nat /\ StartLedger >= 1
      /\ next # 0 => StartLedger + 1 <= next
  <2>1. Len(chain') \in Nat
    BY DEF IndexerTypeOK
  <2> QED
    BY <1>1, <2>1, IndexerTypes
<1>3. HeldBack'
  <2>1. next' - 1 <= Len(chain') - FinalityLag \/ next' = 0
    <3>1. next - 1 <= Len(chain) - FinalityLag \/ next = 0
      BY <1>1 DEF HeldBack
    <3>2. next' = next
      OBVIOUS
    <3> QED
      BY <1>2, <3>1, <3>2
  <2>2. \A i \in stored' : i.ledger <= Len(chain') - FinalityLag
    <3>1. \A i \in stored : i.ledger \in 1..MaxHead
      BY <1>1, IndexerTypes
    <3>2. \A i \in stored : i.ledger <= Len(chain) - FinalityLag
      BY <1>1 DEF HeldBack
    <3>3. stored' = stored
      OBVIOUS
    <3> QED
      BY <1>2, <3>1, <3>2, <3>3
  <2> QED
    BY <2>1, <2>2 DEF HeldBack
<1>4. StaleIsReread'
  <2> SUFFICES ASSUME NEW l \in 1..Len(chain'),
                      StartLedger <= l, l < next, IsStale(l)'
               PROVE  l >= ResumeAt
    BY DEF StaleIsReread, ResumeAt
  <2>1. next # 0 /\ next - 1 <= Len(chain) - FinalityLag
    BY <1>1, <1>2 DEF HeldBack
  <2>2. l \in 1..Len(chain)
    BY <1>2, <2>1
  <2>3. CASE chain'[l] = chain[l]
    <3>1. IsStale(l)
      BY <2>3, CanonicalIsLocal DEF IsStale
    <3> QED
      BY <1>1, <2>2, <3>1 DEF StaleIsReread
  <2>4. CASE Len(chain) - Depth < l
    <3>1. /\ StartLedger <= ResumeAt /\ ResumeAt \in Nat
          /\ ResumeAt = StartLedger \/ ResumeAt = next - RollbackWindow
      BY <1>1, <2>1, ResumesWithin
    <3>2. l \in Nat
      BY <2>2
    <3> QED
      BY <1>2, <2>1, <2>4, <3>1, <3>2
  <2> QED
    BY <2>2, <2>3, <2>4
<1>5. (run # NoRun => RunIsSound)'
  <2> SUFFICES ASSUME run # NoRun
               PROVE  RunIsSound'
    OBVIOUS
  <2>1. RunIsSound
    BY DEF IndexerInv
  <2> QED
    BY <1>1, <1>2, <2>1, RunStaysSound
<1> QED
  BY <1>3, <1>4, <1>5 DEF IndexerInv, StaleIsRepaired

LEMMA ChainMovesKeepPromises ==
  ASSUME IndexerInv, Depth <= RollbackWindow + FinalityLag, ChainMoves
  PROVE  IndexerInv'
<1>1. IndexerTypeOK
  BY DEF IndexerInv, StaleIsRepaired
<1>2. /\ chain \in Seq(Block) /\ Len(chain) \in Nat /\ Len(chain) <= MaxHead
      /\ forks \in 0..MaxForks /\ MaxForks \in Nat /\ MaxHead \in Nat
      /\ Kinds \subseteq {"none", "event", "garbled"} /\ Depth \in Nat
  BY <1>1, IndexerTypes, IndexerAssumption DEF IndexerTypeOK
<1>3. ASSUME NEW kind \in Kinds, CloseLedger(kind)
      PROVE  IndexerInv'
  <2> DEFINE block == [fork |-> forks, kind |-> kind]
  <2>1. block \in Block
    BY <1>2 DEF Block
  <2> HIDE DEF block
  <2>2. /\ chain' = Append(chain, block) /\ Len(chain) < MaxHead
        /\ UNCHANGED <<forks, process, run, stored, next, failures, blips>>
    BY <1>3 DEF CloseLedger, block
  <2>3. /\ chain' \in Seq(Block) /\ Len(chain') = Len(chain) + 1
        /\ \A l \in 1..Len(chain) : chain'[l] = chain[l]
    BY <1>2, <2>1, <2>2
  <2>4. Len(chain') <= MaxHead /\ Len(chain) <= Len(chain')
    BY <1>2, <2>2, <2>3
  <2>5. IndexerTypeOK'
    BY <1>1, <2>2, <2>3, <2>4 DEF IndexerTypeOK
  <2> QED
    BY <2>2, <2>3, <2>4, <2>5, ChainKeepsPromises
<1>4. ASSUME NEW k \in 1..Len(chain), NEW kinds \in [1..Len(chain) - k + 1 -> Kinds],
             Fork(k, kinds)
      PROVE  IndexerInv'
  <2>1. /\ forks < MaxForks /\ forks' = forks + 1
        /\ Len(chain) - Depth < k
        /\ UNCHANGED <<process, run, stored, next, failures, blips>>
        /\ chain' = [m \in 1..Len(chain) |->
             IF m < k THEN chain[m]
                      ELSE [fork |-> forks + 1, kind |-> kinds[m - k + 1]]]
    BY <1>2, <1>4 DEF Fork
  <2>2. forks + 1 \in 0..MaxForks
    BY <1>2, <2>1
  <2>3. \A m \in 1..Len(chain) : ~(m < k) => kinds[m - k + 1] \in Kinds
    <3> SUFFICES ASSUME NEW m \in 1..Len(chain), ~(m < k)
                 PROVE  kinds[m - k + 1] \in Kinds
      OBVIOUS
    <3>1. m - k + 1 \in 1..Len(chain) - k + 1
      BY <1>2
    <3> QED
      BY <3>1
  <2>4. \A m \in 1..Len(chain) : ~(m < k) =>
          [fork |-> forks + 1, kind |-> kinds[m - k + 1]] \in Block
    BY <2>2, <2>3 DEF Block
  <2>5. \A m \in 1..Len(chain) : chain[m] \in Block
    BY <1>2
  <2>6. chain' \in [1..Len(chain) -> Block]
    BY <2>1, <2>4, <2>5
  <2>7. chain' \in Seq(Block) /\ Len(chain') = Len(chain)
    BY <1>2, <2>6
  <2>8. IndexerTypeOK'
    BY <1>1, <1>2, <2>1, <2>2, <2>7 DEF IndexerTypeOK
  <2>9. \A l \in 1..Len(chain) :
          chain'[l] = chain[l] \/ Len(chain) - Depth < l
    <3>1. \A l \in 1..Len(chain) : l < k => chain'[l] = chain[l]
      BY <2>1
    <3>2. \A l \in 1..Len(chain) : ~(l < k) => Len(chain) - Depth < l
      BY <1>2, <2>1
    <3> QED
      BY <3>1, <3>2
  <2>10. Len(chain) <= Len(chain')
    BY <1>2, <2>7
  <2> QED
    BY <2>1, <2>8, <2>9, <2>10, ChainKeepsPromises
<1> QED
  BY <1>3, <1>4 DEF ChainMoves

-----------------------------------------------------------------------------
(* A run begins, reads pages and commits, or is lost.                      *)
LEMMA StoreIsKept ==
  ASSUME IndexerInv, UNCHANGED <<chain, stored, next>>
  PROVE  StaleIsReread' /\ HeldBack'
BY DEF IndexerInv, StaleIsRepaired, StaleIsReread, HeldBack, IsStale,
       Canonical, ItemAt, ResumeAt

LEMMA LostRunsKeepPromises ==
  ASSUME IndexerInv, UNCHANGED <<chain, stored, next>>, IndexerTypeOK',
         run' = run \/ run' = NoRun
  PROVE  IndexerInv'
<1>1. StaleIsReread' /\ HeldBack'
  BY StoreIsKept
<1>2. CASE run' = run
  <2>1. (run # NoRun => RunIsSound)'
    BY <1>2 DEF IndexerInv, RunIsSound, ReadSoFar, RowsOf, Canonical, ItemAt,
                ResumeAt
  <2> QED
    BY <1>1, <2>1 DEF IndexerInv, StaleIsRepaired
<1>3. CASE run' = NoRun
  BY <1>1, <1>3 DEF IndexerInv, StaleIsRepaired
<1> QED
  BY <1>2, <1>3

LEMMA BeginKeepsPromises ==
  ASSUME IndexerInv, NEW from \in Int, Begin(from),
         StartLedger <= from, from <= ResumeAt
  PROVE  IndexerInv'
<1>1. IndexerTypeOK
  BY DEF IndexerInv, StaleIsRepaired
<1>2. /\ UNCHANGED <<chain, forks, process, stored, next, failures, blips>>
      /\ run' = [from |-> from, latest |-> from - 1, fetched |-> {},
                 after |-> from - 1, done |-> FALSE]
  BY DEF Begin
<1>3. /\ StartLedger \in Nat /\ StartLedger >= 1 /\ MaxHead \in Nat
      /\ ResumeAt \in Nat /\ ResumeAt <= MaxHead + 1 /\ Depth \in Nat
  BY <1>1, IndexerTypes, ResumesWithin
<1>4. from \in 1..MaxHead + 1 /\ from - 1 \in 0..MaxHead
  BY <1>3
<1>5. run' \in Run
  BY <1>2, <1>4 DEF Run
<1>6. IndexerTypeOK'
  BY <1>1, <1>2, <1>5 DEF IndexerTypeOK
<1>7. /\ run'.from = from /\ run'.latest = from - 1 /\ run'.fetched = {}
      /\ run'.after = from - 1 /\ run'.done = FALSE
  BY <1>2
<1>8. ResumeAt' = ResumeAt
  BY <1>2 DEF ResumeAt
<1>9. \A l : l \notin ReadSoFar'
  <2>1. ReadSoFar' = from..from - 1
    BY <1>7 DEF ReadSoFar
  <2> QED
    BY <1>4, <2>1
<1>10. /\ from - 1 <= from - 1 /\ ~(from <= from - 1)
  BY <1>4
<1>11. RunIsSound'
  BY <1>7, <1>8, <1>9, <1>10 DEF RunIsSound
<1>12. StaleIsReread' /\ HeldBack'
  BY <1>2, StoreIsKept
<1> QED
  BY <1>6, <1>11, <1>12 DEF IndexerInv, StaleIsRepaired

LEMMA FetchKeepsPromises ==
  ASSUME IndexerInv, FetchPage
  PROVE  IndexerInv'
<1> DEFINE owed == {l \in run.after + 1..Len(chain) : chain[l].kind # "none"}
           batch == {l \in owed : Cardinality({m \in owed : m < l}) < PageSize}
           full == Cardinality(batch) = PageSize
           new == {ItemAt(l) : l \in {m \in batch : chain[m].kind = "event"}}
<1>1. IndexerTypeOK /\ run # NoRun /\ RunIsSound /\ run.done = FALSE
  <2>1. IndexerTypeOK /\ run # NoRun /\ RunIsSound /\ ~run.done
    BY DEF FetchPage, IndexerInv, StaleIsRepaired
  <2> QED
    BY <2>1, RunTypes
<1>2. /\ UNCHANGED <<chain, forks, process, stored, next, failures, blips>>
      /\ run' = [run EXCEPT !.latest = Latest, !.fetched = @ \cup new,
                            !.after = IF full THEN Max(batch) ELSE @,
                            !.done = ~full]
  BY DEF FetchPage
<1>3. /\ run \in Run /\ run.from \in Nat /\ run.from >= 1
      /\ run.after \in Nat /\ run.after <= MaxHead
      /\ run.latest \in Nat /\ run.latest <= MaxHead
      /\ Len(chain) \in Nat /\ Len(chain) <= MaxHead /\ MaxHead \in Nat
      /\ Depth \in Nat
  BY <1>1, RunTypes, IndexerTypes
<1>4. /\ run.from - 1 <= run.after
      /\ run.from <= run.latest => run.latest <= Len(chain)
      /\ run.latest < run.from => run.after = run.from - 1
      /\ \A i \in run.fetched : i.ledger <= run.after
  BY <1>1 DEF RunIsSound
<1>5. Latest = IF run.latest < run.from THEN Len(chain) ELSE run.latest
  BY DEF Latest
<1>6. /\ owed \in SUBSET (1..Len(chain))
      /\ \A l \in owed : run.after < l /\ l <= Len(chain) /\ l \in Nat
      /\ \A l \in run.after + 1..Len(chain) :
           l \in owed <=> chain[l].kind # "none"
  BY <1>3
<1>7. batch \in SUBSET owed
  OBVIOUS
<1>8. \A l \in owed :
        l \in batch <=> Cardinality({m \in owed : m < l}) < PageSize
  OBVIOUS
<1>9. \A i \in new : \E l \in batch : i = ItemAt(l) /\ chain[l].kind = "event"
  OBVIOUS
<1>10. \A l \in batch : chain[l].kind = "event" => ItemAt(l) \in new
  OBVIOUS
<1> HIDE DEF owed, batch, new
<1>11. /\ ~full => batch = owed
       /\ full => /\ Max(batch) \in batch /\ \A l \in batch : l <= Max(batch)
                  /\ \A l \in owed : l <= Max(batch) => l \in batch
  BY <1>3, <1>6, <1>7, <1>8, PageFacts
<1> DEFINE last == IF full THEN Max(batch) ELSE run.after
<1> HIDE DEF full
<1>12. /\ run'.from = run.from /\ run'.latest = Latest
       /\ run'.fetched = run.fetched \cup new
       /\ run'.after = last /\ run'.done = ~full
  BY <1>2, <1>3 DEF Run
<1>13. /\ last \in Nat /\ run.after <= last
       /\ last <= MaxHead
       /\ full => run.after < last /\ last <= Len(chain)
       /\ \A l \in batch : full => l <= last
  <2>1. CASE full
    <3>1. Max(batch) \in owed
      BY <1>7, <1>11, <2>1
    <3>2. last = Max(batch)
      BY <2>1 DEF last
    <3>3. last \in owed /\ \A l \in batch : l <= last
      BY <1>11, <2>1, <3>1, <3>2
    <3>4. run.after < last /\ last <= Len(chain) /\ last \in Nat
      BY <1>6, <3>3
    <3> QED
      BY <1>3, <3>3, <3>4
  <2>2. CASE ~full
    BY <1>3, <2>2 DEF last
  <2> QED
    BY <2>1, <2>2
<1>14. full => last = Max(batch)
  BY DEF last
<1>15. ~full => last = run.after
  BY DEF last
<1> HIDE DEF last
<1>16. Latest \in 0..MaxHead
  BY <1>3, <1>5
<1>17. new \subseteq Item
  <2>1. ASSUME NEW l \in batch
        PROVE  ItemAt(l) \in Item
    <3>1. l \in 1..MaxHead /\ l \in 1..Len(chain)
      BY <1>3, <1>6, <1>7
    <3>2. chain[l] \in Block
      BY <1>1, <3>1 DEF IndexerTypeOK
    <3>3. chain[l].fork \in 0..MaxForks
      BY <3>2 DEF Block
    <3> QED
      BY <3>1, <3>3 DEF ItemAt, Item
  <2> QED
    BY <1>9, <2>1
<1>18. IndexerTypeOK'
  <2>1. /\ run'.fetched \in SUBSET Item /\ last \in 0..MaxHead
        /\ (~full) \in BOOLEAN
    <3>1. run.fetched \subseteq Item
      BY <1>1, RunTypes
    <3>2. last \in 0..MaxHead
      BY <1>3, <1>13
    <3>3. (~full) \in BOOLEAN
      OBVIOUS
    <3> QED
      BY <1>12, <1>17, <3>1, <3>2, <3>3
  <2>2. run' \in Run
    <3>1. run.from \in 1..MaxHead + 1
      BY <1>1, RunTypes
    <3>2. run' = [from |-> run'.from, latest |-> run'.latest,
                  fetched |-> run'.fetched, after |-> run'.after,
                  done |-> run'.done]
      BY <1>2, <1>3 DEF Run
    <3>3. /\ run'.from \in 1..MaxHead + 1 /\ run'.latest \in 0..MaxHead
          /\ run'.fetched \in SUBSET Item /\ run'.after \in 0..MaxHead
          /\ run'.done \in BOOLEAN
      BY <1>12, <1>16, <2>1, <3>1
    <3> QED
      BY <3>2, <3>3 DEF Run
  <2> QED
    BY <1>1, <1>2, <2>2 DEF IndexerTypeOK
<1>19. \A i \in new : i.ledger \in batch
  BY <1>9 DEF ItemAt
<1>20. ASSUME NEW l \in run.after + 1..Len(chain), full => l <= last
       PROVE  RowsOf(run'.fetched, l) = Canonical(l)
  <2>1. l \in Nat /\ run.after < l
    BY <1>3
  <2>2. \A i \in run.fetched : i.ledger # l
    <3>1. \A i \in run.fetched : i.ledger \in Nat
      BY <1>1, RunTypes
    <3> QED
      BY <1>3, <1>4, <2>1, <3>1
  <2>3. \A i \in new : i.ledger = l =>
          i = ItemAt(l) /\ chain[l].kind = "event"
    BY <1>9 DEF ItemAt
  <2>4. RowsOf(run'.fetched, l) = {i \in new : i.ledger = l}
    BY <1>12, <2>2 DEF RowsOf
  <2>5. CASE chain[l].kind = "event"
    <3>1. l \in owed
      BY <1>6, <2>5
    <3>2. l \in batch
      BY <1>11, <1>14, <1>20, <3>1
    <3>3. ItemAt(l) \in new /\ ItemAt(l).ledger = l
      BY <1>10, <2>5, <3>2 DEF ItemAt
    <3> QED
      BY <2>3, <2>4, <2>5, <3>3 DEF Canonical
  <2>6. CASE chain[l].kind # "event"
    BY <2>3, <2>4, <2>6 DEF Canonical
  <2> QED
    BY <2>5, <2>6
<1>21. ASSUME NEW l \in Nat, l <= run.after
       PROVE  RowsOf(run'.fetched, l) = RowsOf(run.fetched, l)
  <2>1. \A i \in new : i.ledger # l
    <3>1. \A m \in batch : run.after < m /\ m \in Nat
      BY <1>6, <1>7
    <3> QED
      BY <1>3, <1>19, <1>21, <3>1
  <2> QED
    BY <1>12, <2>1 DEF RowsOf
<1>22. /\ run.from <= Latest => Latest <= Len(chain)
       /\ Latest < run.from => last = run.from - 1
       /\ run.from <= last => last <= Len(chain)
  <2>1. run.from <= run.after => run.after <= Len(chain)
    BY <1>1 DEF RunIsSound
  <2> QED
    BY <1>3, <1>4, <1>5, <1>13, <1>15, <2>1
<1>23. ASSUME NEW l \in ReadSoFar'
       PROVE  RowsOf(run'.fetched, l) = Canonical(l) \/ Latest - Depth < l
  <2>1. l \in run.from..(IF full THEN last ELSE Latest)
    BY <1>12 DEF ReadSoFar
  <2>2. l \in Nat /\ run.from <= l
    BY <1>3, <1>13, <1>16, <2>1
  <2>3. /\ full => l <= last
        /\ ~full => l <= Latest
    BY <1>3, <1>13, <1>16, <2>1
  <2>4. CASE l <= run.after
    <3>1. l \in ReadSoFar
      BY <1>1, <1>3, <2>2, <2>4 DEF ReadSoFar
    <3>2. RowsOf(run.fetched, l) = Canonical(l) \/ run.latest - Depth < l
      BY <1>1, <3>1 DEF RunIsSound
    <3>3. Latest = run.latest
      BY <1>3, <1>4, <1>5, <2>2, <2>4
    <3> QED
      BY <1>21, <2>2, <2>4, <3>2, <3>3
  <2>5. CASE run.after < l
    <3>1. l <= Len(chain)
      BY <1>3, <1>13, <1>16, <1>22, <2>2, <2>3
    <3>2. l \in run.after + 1..Len(chain)
      BY <1>3, <2>2, <2>5, <3>1
    <3> QED
      BY <1>20, <2>3, <3>2
  <2> QED
    BY <1>3, <2>2, <2>4, <2>5
<1>24. full => \A i \in run'.fetched : i.ledger <= last
  <2> SUFFICES ASSUME full, NEW i \in run'.fetched
               PROVE  i.ledger <= last
    OBVIOUS
  <2>1. CASE i \in new
    BY <1>11, <1>14, <1>19, <2>1
  <2>2. CASE i \in run.fetched
    <3>1. i.ledger \in Nat /\ i.ledger <= run.after
      BY <1>1, <1>4, <2>2, RunTypes
    <3> QED
      BY <1>3, <1>13, <3>1
  <2> QED
    BY <1>12, <2>1, <2>2
<1>25. RunIsSound'
  <2>1. ResumeAt' = ResumeAt /\ chain' = chain
    BY <1>2 DEF ResumeAt
  <2>2. \A l : RowsOf(run.fetched, l)' = RowsOf(run'.fetched, l)
    BY DEF RowsOf
  <2>3. \A l : Canonical(l)' = Canonical(l)
    BY <2>1 DEF Canonical, ItemAt
  <2>4. StartLedger <= run.from /\ run.from <= ResumeAt
    BY <1>1 DEF RunIsSound
  <2>5. run.from - 1 <= last
    BY <1>3, <1>4, <1>13
  <2>6. run'.done = FALSE => full
    BY <1>12
  <2>7. \A l \in ReadSoFar' :
          RowsOf(run.fetched, l)' = Canonical(l)' \/ run'.latest - Depth < l
    BY <1>12, <1>23, <2>2, <2>3
  <2> QED
    BY <1>12, <1>22, <1>24, <2>1, <2>4, <2>5, <2>6, <2>7 DEF RunIsSound
<1>26. StaleIsReread' /\ HeldBack'
  BY <1>2, StoreIsKept
<1> QED
  BY <1>18, <1>25, <1>26 DEF IndexerInv, StaleIsRepaired

LEMMA CommitKeepsPromises ==
  ASSUME IndexerInv, Depth <= RollbackWindow + FinalityLag, Commit
  PROVE  IndexerInv'
<1>1. IndexerTypeOK /\ StaleIsReread /\ HeldBack /\ RunIsSound
      /\ run # NoRun /\ run.done = TRUE
  <2>1. IndexerTypeOK /\ StaleIsReread /\ HeldBack /\ RunIsSound
        /\ run # NoRun /\ run.done
    BY DEF Commit, IndexerInv, StaleIsRepaired
  <2> QED
    BY <2>1, RunTypes
<1>2. /\ UNCHANGED <<chain, forks, failures, blips>>
      /\ run' = NoRun /\ process' = "tailing"
  BY DEF Commit
<1>3. /\ run.from \in Nat /\ run.from >= 1 /\ run.latest \in Nat
      /\ run.latest <= MaxHead /\ MaxHead \in Nat /\ next \in Nat
      /\ Len(chain) \in Nat /\ Len(chain) <= MaxHead /\ Depth \in Nat
      /\ FinalityLag \in Nat /\ RollbackWindow \in Nat
      /\ StartLedger \in Nat /\ StartLedger >= 1 /\ StartLedger <= run.from
      /\ run.from <= ResumeAt
      /\ run.from <= run.latest => run.latest <= Len(chain)
  BY <1>1, RunTypes, IndexerTypes DEF RunIsSound
<1>4. Through = IF run.from - 1 >= run.latest - FinalityLag
                THEN run.from - 1 ELSE run.latest - FinalityLag
  BY <1>3, MaxOfTwo DEF Through
<1>5. CASE ~(Through >= run.from)
  <2>1. UNCHANGED <<stored, next>>
    BY <1>5 DEF Commit
  <2>2. IndexerTypeOK'
    BY <1>1, <1>2, <2>1 DEF IndexerTypeOK
  <2> QED
    BY <1>2, <2>1, <2>2, LostRunsKeepPromises
<1>6. CASE Through >= run.from
  <2>1. /\ stored' = Replaced(run.from, Through, run.fetched)
        /\ next' = Through + 1
    BY <1>6 DEF Commit
  <2>2. /\ Through = run.latest - FinalityLag /\ Through \in Nat
        /\ run.latest <= Len(chain)
        /\ Through <= Len(chain) - FinalityLag
    BY <1>3, <1>4, <1>6
  <2>3. ASSUME NEW i \in stored'
        PROVE  \/ i \in stored /\ ~Within(i, run.from, Through)
               \/ i \in run.fetched /\ Within(i, run.from, Through)
    BY <2>1 DEF Replaced
  <2>4. stored' \subseteq Item
    <3>1. run.fetched \subseteq Item /\ stored \subseteq Item
      BY <1>1, RunTypes DEF IndexerTypeOK
    <3> QED
      BY <2>3, <3>1
  <2>5. next' \in StartLedger + 1..MaxHead + 1 - FinalityLag
    BY <1>3, <1>6, <2>1, <2>2
  <2>6. IndexerTypeOK'
    BY <1>1, <1>2, <2>4, <2>5 DEF IndexerTypeOK
  <2>7. HeldBack'
    <3>1. next' - 1 <= Len(chain') - FinalityLag
      BY <1>2, <1>3, <2>1, <2>2
    <3>2. ASSUME NEW i \in stored'
          PROVE  i.ledger <= Len(chain) - FinalityLag
      <4>1. CASE i \in stored
        BY <1>1, <4>1 DEF HeldBack
      <4>2. CASE i \in run.fetched /\ Within(i, run.from, Through)
        <5>1. i.ledger \in Nat /\ i.ledger <= Through
          BY <1>1, <4>2, RunTypes DEF Within
        <5> QED
          BY <1>3, <2>2, <5>1
      <4> QED
        BY <2>3, <4>1, <4>2
    <3> QED
      BY <1>2, <3>1, <3>2 DEF HeldBack
  <2>8. \A l : Canonical(l)' = Canonical(l)
    BY <1>2 DEF Canonical, ItemAt
  <2>9. ASSUME NEW l \in Nat, l < run.from
        PROVE  {i \in stored' : i.ledger = l} = {i \in stored : i.ledger = l}
    <3>1. \A i : i.ledger = l => ~Within(i, run.from, Through)
      BY <1>3, <2>9 DEF Within
    <3> QED
      BY <2>1, <3>1 DEF Replaced
  <2>10. ASSUME NEW l \in Nat, run.from <= l, l <= Through
         PROVE  {i \in stored' : i.ledger = l} = RowsOf(run.fetched, l)
    <3>1. \A i : i.ledger = l => Within(i, run.from, Through)
      BY <2>10 DEF Within
    <3> QED
      BY <2>1, <3>1 DEF Replaced, RowsOf
  <2>11. StaleIsReread'
    <3> SUFFICES ASSUME NEW l \in 1..Len(chain), StartLedger <= l,
                        l < next', IsStale(l)'
                 PROVE  l >= ResumeAt'
      BY <1>2 DEF StaleIsReread
    <3>1. {i \in stored' : i.ledger = l} # Canonical(l)
      BY <2>8 DEF IsStale
    <3>2. l \in Nat /\ l <= Through
      BY <1>3, <2>1, <2>2
    <3>3. CASE l < run.from
      <4>1. IsStale(l)
        BY <2>9, <3>1, <3>2, <3>3 DEF IsStale
      <4>2. ResumeAt \in Nat /\ (next = 0 => ResumeAt = StartLedger)
            /\ (next # 0 => ResumeAt <= next)
        BY <1>1, ResumesWithin
      <4>3. l < next
        BY <1>3, <3>2, <3>3, <4>2
      <4>4. l >= ResumeAt
        BY <1>1, <4>1, <4>3 DEF StaleIsReread
      <4> QED
        BY <1>3, <3>2, <3>3, <4>2, <4>4
    <3>4. CASE run.from <= l
      <4>1. RowsOf(run.fetched, l) # Canonical(l)
        BY <2>10, <3>1, <3>2, <3>4
      <4>2. l \in ReadSoFar
        BY <1>1, <1>3, <2>2, <3>2, <3>4 DEF ReadSoFar
      <4>3. run.latest - Depth < l
        BY <1>1, <4>1, <4>2 DEF RunIsSound
      <4>4. ResumeAt' = StartLedger \/ ResumeAt' = next' - RollbackWindow
        <5>1. (next # 0 => \/ ResumeAt = StartLedger
                           \/ ResumeAt = next - RollbackWindow)'
          BY <2>6, ResumesWithin, PTL
        <5>2. next' # 0
          BY <2>1, <2>2
        <5> QED
          BY <5>1, <5>2
      <4>5. next' = run.latest - FinalityLag + 1 /\ next' \in Int
        BY <1>3, <2>1, <2>2
      <4>6. (run.latest - FinalityLag + 1) - RollbackWindow <= l
        BY <1>3, <3>2, <4>3
      <4>7. CASE ResumeAt' = StartLedger
        BY <1>3, <3>2, <4>7
      <4>8. CASE ResumeAt' = next' - RollbackWindow
        <5>1. ResumeAt' = (run.latest - FinalityLag + 1) - RollbackWindow
          BY <4>5, <4>8, Zenon
        <5> QED
          BY <1>3, <3>2, <4>6, <5>1
      <4> QED
        BY <4>4, <4>7, <4>8
    <3> QED
      BY <1>3, <3>2, <3>3, <3>4
  <2> QED
    BY <1>2, <2>6, <2>7, <2>11 DEF IndexerInv, StaleIsRepaired
<1> QED
  BY <1>5, <1>6

(* Every step, of the chain, of a run, of a crash or of a restart, keeps   *)
(* what is promised, if replays reach back as far as the next poll.        *)
LEMMA StepsKeepPromises ==
  ASSUME IndexerInv, Depth <= RollbackWindow + FinalityLag,
         IndexerNext, ReplaysReachBack
  PROVE  IndexerInv'
<1>1. IndexerTypeOK
  BY DEF IndexerInv, StaleIsRepaired
<1>2. CASE ChainMoves
  BY <1>2, ChainMovesKeepPromises
<1>3. CASE Poll
  <2>1. ResumeAt \in Int /\ StartLedger <= ResumeAt
    BY <1>1, ResumesWithin
  <2>2. ResumeAt <= ResumeAt
    BY <2>1
  <2>3. Begin(ResumeAt)
    BY <1>3 DEF Poll
  <2> QED
    BY <2>1, <2>2, <2>3, BeginKeepsPromises
<1>4. CASE \E from \in 1..MaxHead : CatchUpFrom(from)
  <2>1. PICK from \in 1..MaxHead : CatchUpFrom(from)
    BY <1>4
  <2>2. from \in Int
    OBVIOUS
  <2>3. from <= ResumeAt
    BY <2>1 DEF ReplaysReachBack
  <2>4. StartLedger <= from /\ Begin(from)
    BY <1>1, <2>1, <2>2, IndexerTypes DEF CatchUpFrom
  <2> QED
    BY <2>2, <2>3, <2>4, BeginKeepsPromises
<1>5. CASE FetchPage
  BY <1>5, FetchKeepsPromises
<1>6. CASE Commit
  BY <1>6, CommitKeepsPromises
<1>7. CASE IndexerCrash
  <2>1. failures' \in 0..MaxFailures
    BY <1>1, <1>7, IndexerAssumption DEF IndexerCrash, IndexerTypeOK
  <2>2. IndexerTypeOK'
    BY <1>1, <1>7, <2>1 DEF IndexerCrash, IndexerTypeOK
  <2> QED
    BY <1>7, <2>2, LostRunsKeepPromises DEF IndexerCrash
<1>8. CASE RpcFails
  <2>1. /\ run' = NoRun /\ UNCHANGED <<chain, forks, stored, next>>
        /\ process' \in {"down", "stalled"}
    BY <1>8 DEF RpcFails
  <2>2. failures' \in 0..MaxFailures /\ blips' \in 0..MaxBlips
    BY <1>1, <1>8, IndexerAssumption DEF RpcFails, IndexerTypeOK
  <2>3. IndexerTypeOK'
    BY <1>1, <2>1, <2>2 DEF IndexerTypeOK
  <2> QED
    BY <2>1, <2>3, LostRunsKeepPromises
<1>9. CASE Start
  <2>1. IndexerTypeOK'
    BY <1>1, <1>9 DEF Start, IndexerTypeOK
  <2> QED
    BY <1>9, <2>1, LostRunsKeepPromises DEF Start
<1> QED
  BY <1>2, <1>3, <1>4, <1>5, <1>6, <1>7, <1>8, <1>9 DEF IndexerNext, Indexes

LEMMA IndexerStutters ==
  ASSUME IndexerInv, UNCHANGED indexerVars
  PROVE  IndexerInv'
<1>1. IndexerTypeOK'
  BY DEF indexerVars, IndexerInv, StaleIsRepaired, IndexerTypeOK
<1> QED
  BY <1>1, LostRunsKeepPromises DEF indexerVars

LEMMA IndexerStartsSound ==
  ASSUME IndexerInit
  PROVE  IndexerInv
<1>1. chain = <<>> /\ Len(chain) = 0 /\ stored = {} /\ next = 0 /\ run = NoRun
  BY DEF IndexerInit
<1>2. IndexerTypeOK
  BY <1>1, IndexerAssumption DEF IndexerInit, IndexerTypeOK
<1>3. StaleIsReread
  BY <1>1 DEF StaleIsReread
<1>4. HeldBack
  BY <1>1 DEF HeldBack
<1> QED
  BY <1>1, <1>2, <1>3, <1>4 DEF IndexerInv, StaleIsRepaired

(* README.md, "Reorg depth guarantee", for every rollback window, finality *)
(* lag, page size and chain: whatever grows or forks between two pages of  *)
(* a poll, and wherever a run is lost, a ledger whose rows are not those   *)
(* of the winning chain is one the next poll reads again, and no ledger is *)
(* committed within the finality lag, as long as forks are no deeper than  *)
(* window and lag together and no replay begins above the range that the   *)
(* next poll would read.                                                   *)
THEOREM ForksAreRepaired ==
  ASSUME Depth <= RollbackWindow + FinalityLag
  PROVE  IndexerSpec /\ [][ReplaysReachBack]_indexerVars => []StaleIsRepaired
<1>1. IndexerInit => IndexerInv
  BY IndexerStartsSound
<1>2. IndexerInv /\ [IndexerNext]_indexerVars /\ [ReplaysReachBack]_indexerVars
        => IndexerInv'
  <2> SUFFICES ASSUME IndexerInv, [IndexerNext]_indexerVars,
                      [ReplaysReachBack]_indexerVars
               PROVE  IndexerInv'
    OBVIOUS
  <2>1. CASE UNCHANGED indexerVars
    BY <2>1, IndexerStutters
  <2>2. CASE IndexerNext /\ ReplaysReachBack
    BY <2>2, StepsKeepPromises
  <2> QED
    BY <2>1, <2>2
<1>3. IndexerInv => StaleIsRepaired
  BY DEF IndexerInv
<1> QED
  BY <1>1, <1>2, <1>3, PTL DEF IndexerSpec

(* With a window of at most one ledger every replay of indexed ledgers     *)
(* reaches back that far, and nothing is assumed of the operator.          *)
THEOREM ShortWindowsAreRepaired ==
  ASSUME RollbackWindow <= 1, Depth <= RollbackWindow + FinalityLag
  PROVE  IndexerSpec => []StaleIsRepaired
<1>1. ASSUME IndexerInv, IndexerNext
      PROVE  ReplaysReachBack
  <2> SUFFICES ASSUME NEW from \in 1..MaxHead, CatchUpFrom(from)
               PROVE  from <= ResumeAt
    BY DEF ReplaysReachBack
  <2>1. IndexerTypeOK
    BY <1>1 DEF IndexerInv, StaleIsRepaired
  <2>2. /\ next \in Nat /\ RollbackWindow \in Nat
        /\ ResumeAt \in Nat
        /\ next # 0 => next - RollbackWindow <= ResumeAt
    BY <2>1, IndexerTypes, ResumesWithin
  <2>3. from \in Nat /\ from < next
    BY DEF CatchUpFrom
  <2> QED
    BY <2>2, <2>3
<1>2. IndexerInit => IndexerInv
  BY IndexerStartsSound
<1>3. IndexerInv /\ [IndexerNext]_indexerVars => IndexerInv'
  <2> SUFFICES ASSUME IndexerInv, [IndexerNext]_indexerVars
               PROVE  IndexerInv'
    OBVIOUS
  <2>1. CASE UNCHANGED indexerVars
    BY <2>1, IndexerStutters
  <2>2. CASE IndexerNext
    BY <1>1, <2>2, StepsKeepPromises
  <2> QED
    BY <2>1, <2>2
<1>4. IndexerInv => StaleIsRepaired
  BY DEF IndexerInv
<1> QED
  BY <1>2, <1>3, <1>4, PTL DEF IndexerSpec

-----------------------------------------------------------------------------
(* The agents panel of the dashboard.                                      *)

Channels == [active : BOOLEAN, spent : Nat, start : Nat]
Limiters == [max : Nat, spent : Nat]
Records == [AgentIds -> [channel : {NoRecord} \cup Channels, limiter : {NoRecord} \cup Limiters]]
Views == [id : AgentIds, channel : {NoRecord} \cup Channels, limits : {NoRecord} \cup Limiters,
          status : {"inactive", "warning", "active"}]

IsOpened(id, held) == held[id].channel \in Channels
IsClosed(id, held) == IsOpened(id, held) /\ held[id].channel.active = FALSE
NothingReopens(was, is) ==
    \A id \in AgentIds : /\ IsOpened(id, was) => IsOpened(id, is)
                         /\ IsClosed(id, was) => IsClosed(id, is)

\* A row shows what was read of its agent, and what was closed is closed.
RowIsSound(row, held) ==
    /\ row \in Views
    /\ row = ToAgentView(row.id, row.channel, row.limits)
    /\ row.channel # NoRecord => IsOpened(row.id, held)
    /\ row.channel # NoRecord /\ row.channel.active = FALSE => IsClosed(row.id, held)

ReadIsSound(id) ==
    /\ DOMAIN reads[id] = Queries
    /\ reads[id]["channel"] \in {Unread, Broken, NoRecord} \cup Channels
    /\ reads[id]["limits"] \in {Unread, Broken, NoRecord} \cup Limiters
    /\ reads[id]["channel"] \in Channels => IsOpened(id, contracts)
    /\ reads[id]["channel"] \in Channels /\ reads[id]["channel"].active = FALSE => IsClosed(id, contracts)

\* The roster, and what has become of the first agents of it.
Order == [i \in DOMAIN Watched |-> Watched[i].id]

AreOrdered(acc, n) ==
    /\ DOMAIN acc = {"rows", "failures"}
    /\ acc.rows \in Seq(Views) /\ acc.failures \in Seq(AgentIds)
    /\ Len(acc.rows) + Len(acc.failures) = n
    /\ \A k \in 1..n : \/ \E i \in 1..Len(acc.rows) : acc.rows[i].id = Order[k]
                       \/ \E i \in 1..Len(acc.failures) : acc.failures[i] = Order[k]
    /\ \A i \in 1..Len(acc.rows) : \E k \in 1..n : acc.rows[i].id = Order[k]
    /\ \A i, j \in 1..Len(acc.rows) : i < j =>
         \E k, l \in 1..n : k < l /\ acc.rows[i].id = Order[k] /\ acc.rows[j].id = Order[l]

AreAccounted(acc, n) ==
    /\ AreOrdered(acc, n)
    /\ \A i \in 1..Len(acc.rows) : RowIsSound(acc.rows[i], contracts)
    /\ Len(acc.failures) = Cardinality({k \in 1..n : Rejected(Order[k])})

PanelInv ==
    /\ ledger \in Nat /\ refusals \in Nat
    /\ clock # NoRecord => clock \in Nat /\ clock <= ledger
    /\ contracts \in Records
    /\ reads # <<>> => DOMAIN reads = AgentIds /\ \A id \in AgentIds : ReadIsSound(id)
    /\ panel # NoPanel => AreOrdered(panel, Len(Order))
    /\ panel.rows \in Seq(Views)
    /\ \A i \in 1..Len(panel.rows) : RowIsSound(panel.rows[i], contracts)

\* fanOut takes one agent after the other.
LEMMA FanOutTakesAll ==
    ASSUME NEW order, Len(order) \in Nat
    PROVE  \E upTo : /\ upTo[0] = NoPanel
                     /\ \A n \in 1..Len(order) : upTo[n] = Outcome(upTo[n - 1], order[n], order)
                     /\ FanOut(order) = upTo[Len(order)]
<1>. DEFINE Is(f, N) == f = [n \in 0..N |-> IF n = 0 THEN NoPanel ELSE Outcome(f[n - 1], order[n], order)]
            S == {N \in Nat : \E f : Is(f, N)}
<1>1. Is([n \in 0..0 |-> NoPanel], 0)
  OBVIOUS
<1>2. ASSUME NEW N \in Nat, NEW f, Is(f, N) PROVE \E g : Is(g, N + 1)
  <2>. DEFINE g == [n \in 0..(N + 1) |-> IF n <= N THEN f[n] ELSE Outcome(f[N], order[N + 1], order)]
  <2>1. \A n \in 0..N : g[n] = f[n]
    OBVIOUS
  <2>2. g[N + 1] = Outcome(f[N], order[N + 1], order)
    OBVIOUS
  <2>3. \A n \in 0..(N + 1) : g[n] = IF n = 0 THEN NoPanel ELSE Outcome(g[n - 1], order[n], order)
    <3>. TAKE n \in 0..(N + 1)
    <3>1. CASE n \in 0..N
      <4>1. f[n] = IF n = 0 THEN NoPanel ELSE Outcome(f[n - 1], order[n], order)
        BY <1>2, <3>1
      <4>2. g[n] = f[n] /\ (n # 0 => g[n - 1] = f[n - 1])
        BY <2>1, <3>1
      <4>. HIDE DEF g
      <4>. QED BY <4>1, <4>2
    <3>2. CASE n = N + 1
      <4>1. n # 0 /\ n - 1 = N /\ g[n - 1] = f[N]
        BY <2>1, <3>2
      <4>. HIDE DEF g
      <4>. QED BY <2>2, <3>2, <4>1
    <3>. QED BY <3>1, <3>2
  <2>4. g = [n \in 0..(N + 1) |-> g[n]]
    OBVIOUS
  <2>5. Is(g, N + 1)
    <3>. HIDE DEF g
    <3>. QED BY <2>3, <2>4
  <2>. HIDE DEF g
  <2>. QED BY <2>5
<1>3. ASSUME Nat \ S # {} PROVE FALSE
  <2>1. PICK N \in Nat \ S : \A M \in Nat \ S : N <= M
    BY <1>3, LeastNumber
  <2>2. N # 0
    BY <2>1, <1>1
  <2>3. N - 1 \in Nat /\ N - 1 \in S
    <3>. HIDE DEF S
    <3>. QED BY <2>1, <2>2
  <2>4. PICK f : Is(f, N - 1)
    BY <2>3
  <2>. HIDE DEF Is
  <2>5. \E g : Is(g, (N - 1) + 1)
    BY <1>2, <2>3, <2>4
  <2>. QED BY <2>1, <2>2, <2>5
<1>4. \E f : Is(f, Len(order))
  BY <1>3
<1>. DEFINE upTo == CHOOSE f : f = [n \in 0..Len(order) |->
                                      IF n = 0 THEN NoPanel ELSE Outcome(f[n - 1], order[n], order)]
<1>5. FanOut(order) = upTo[Len(order)]
  BY DEF FanOut
<1>6. upTo = [n \in 0..Len(order) |-> IF n = 0 THEN NoPanel ELSE Outcome(upTo[n - 1], order[n], order)]
  BY <1>4
<1>. HIDE DEF upTo
<1>7. upTo[0] = NoPanel /\ \A n \in 1..Len(order) : upTo[n] = Outcome(upTo[n - 1], order[n], order)
  BY <1>6
<1>. QED BY <1>5, <1>7

\* The views of what can be read; a warning is none of the other states.
LEMMA ViewsAreViews ==
    ASSUME NEW who \in AgentIds, NEW held \in {NoRecord} \cup Channels,
           NEW within \in {NoRecord} \cup Limiters,
           NEW v, v = ToAgentView(who, held, within)
    PROVE  v \in Views /\ v.id = who /\ v.channel = held /\ v.limits = within
<1>1. \A spent, limit, active : AgentStatus(spent, limit, active) \in {"inactive", "warning", "active"}
  BY DEF AgentStatus
<1>. QED BY <1>1 DEF ToAgentView, Views

LEMMA OrderIsTheRoster ==
    ASSUME SoundPanel
    PROVE  /\ Order \in Seq(AgentIds) /\ Len(Order) = Len(Watched) /\ Len(Watched) \in Nat
           /\ \A i \in 1..Len(Watched) : i \in DOMAIN Watched /\ Order[i] = Watched[i].id
<1>1. Watched \in Seq([id : AgentIds, channel : BOOLEAN])
  BY DEF SoundPanel
<1>2. DOMAIN Watched = 1..Len(Watched) /\ Len(Watched) \in Nat
  BY <1>1
<1>3. \A i \in 1..Len(Watched) : Watched[i].id \in AgentIds
  BY <1>2 DEF AgentIds
<1>4. Order = [i \in 1..Len(Watched) |-> Watched[i].id]
  BY <1>2 DEF Order
<1>5. Order \in [1..Len(Watched) -> AgentIds]
  BY <1>3, <1>4
<1>6. Order \in Seq(AgentIds)
  BY <1>5, <1>2
<1>7. Len(Order) = Len(Watched)
  BY <1>2, <1>4
<1>. QED BY <1>2, <1>4, <1>6, <1>7

LEMMA OutcomesAreAccounted ==
    ASSUME SoundPanel, PanelInv, reads # <<>>, \A id \in AgentIds : Settled(id),
           NEW n \in 1..Len(Order), NEW acc, AreAccounted(acc, n - 1)
    PROVE  AreAccounted(Outcome(acc, Order[n], Order), n)
<1>. DEFINE id == Order[n]
            out == Outcome(acc, Order[n], Order)
            R(m) == {k \in 1..m : Rejected(Order[k])}
<1>0. Order \in Seq(AgentIds) /\ n \in DOMAIN Order /\ id \in AgentIds /\ n \in Nat /\ n > 0
  BY OrderIsTheRoster
<1>1. /\ acc.rows \in Seq(Views) /\ Len(acc.rows) \in Nat
      /\ acc.failures \in Seq(AgentIds) /\ Len(acc.failures) \in Nat
      /\ Len(acc.rows) + Len(acc.failures) = n - 1
  BY DEF AreAccounted, AreOrdered
<1>2. IsFiniteSet(R(n - 1)) /\ n \notin R(n - 1)
  <2>1. IsFiniteSet(1..(n - 1))
    BY FS_Interval
  <2>. QED BY <2>1, FS_Subset
<1>3. CASE Rejected(id)
  <2>1. /\ DOMAIN out = {"rows", "failures"} /\ out.rows = acc.rows
        /\ out.failures = Append(acc.failures, id)
    BY <1>3, <1>1 DEF Outcome, AreAccounted, AreOrdered
  <2>2. R(n) = R(n - 1) \cup {n}
    BY <1>3
  <2>3. Cardinality(R(n)) = Cardinality(R(n - 1)) + 1
    BY <1>2, <2>2, FS_AddElement
  <2>4. /\ Len(out.failures) = Len(acc.failures) + 1
        /\ out.failures \in Seq(AgentIds)
        /\ out.failures[Len(acc.failures) + 1] = id
        /\ \A i \in 1..Len(acc.failures) : out.failures[i] = acc.failures[i]
    BY <2>1, <1>0, <1>1
  <2>5. ASSUME NEW k \in 1..n
        PROVE  \/ \E i \in 1..Len(out.rows) : out.rows[i].id = Order[k]
               \/ \E i \in 1..Len(out.failures) : out.failures[i] = Order[k]
    <3>1. CASE k = n
      <4>1. Len(acc.failures) + 1 \in 1..Len(out.failures)
        BY <2>4, <1>1
      <4>. QED BY <2>4, <3>1, <4>1
    <3>2. CASE k \in 1..(n - 1)
      <4>1. CASE \E i \in 1..Len(acc.rows) : acc.rows[i].id = Order[k]
        BY <2>1, <4>1
      <4>2. CASE \E i \in 1..Len(acc.failures) : acc.failures[i] = Order[k]
        <5>1. PICK i \in 1..Len(acc.failures) : acc.failures[i] = Order[k]
          BY <4>2
        <5>2. i \in 1..Len(out.failures)
          BY <2>4, <1>1
        <5>. QED BY <2>4, <5>1, <5>2
      <4>. QED BY <3>2, <4>1, <4>2 DEF AreAccounted, AreOrdered
    <3>. QED BY <3>1, <3>2
  <2>6. Len(acc.failures) = Cardinality(R(n - 1))
    BY DEF AreAccounted, AreOrdered
  <2>7. Len(out.failures) = Cardinality(R(n))
    <3>. HIDE DEF R, out
    <3>. QED BY <2>3, <2>4, <2>6
  <2>8. \A k \in 1..(n - 1) : k \in 1..n
    OBVIOUS
  <2>9. Len(out.rows) + Len(out.failures) = n
    <3>. HIDE DEF out, id
    <3>1. Len(out.rows) = Len(acc.rows) /\ Len(out.failures) = Len(acc.failures) + 1
      BY <2>1, <2>4
    <3>. DEFINE a == Len(acc.rows)
                b == Len(acc.failures)
                d == Len(out.rows)
                e == Len(out.failures)
    <3>2. a \in Nat /\ b \in Nat /\ a + b = n - 1 /\ d = a /\ e = b + 1 /\ n \in Nat
      BY <1>0, <1>1, <3>1
    <3>. HIDE DEF a, b, d, e
    <3>3. d + e = n
      BY <3>2
    <3>. QED BY <3>3 DEF d, e
  <2>10. AreAccounted(out, n)
    <3>1. \A i \in 1..Len(acc.rows) : \E k \in 1..n : acc.rows[i].id = Order[k]
      BY <2>8 DEF AreAccounted, AreOrdered
    <3>2. \A i, j \in 1..Len(acc.rows) : i < j =>
            \E k, l \in 1..n : k < l /\ acc.rows[i].id = Order[k] /\ acc.rows[j].id = Order[l]
      BY <2>8 DEF AreAccounted, AreOrdered
    <3>3. \A i \in 1..Len(acc.rows) : RowIsSound(acc.rows[i], contracts)
      BY DEF AreAccounted, AreOrdered
    <3>. HIDE DEF out, id
    <3>4. \A i, j \in 1..Len(out.rows) : i < j =>
            \E k, l \in 1..n : k < l /\ out.rows[i].id = Order[k] /\ out.rows[j].id = Order[l]
      <4>. SUFFICES ASSUME NEW i \in 1..Len(out.rows), NEW j \in 1..Len(out.rows), i < j
                    PROVE  \E k, l \in 1..n : k < l /\ out.rows[i].id = Order[k] /\ out.rows[j].id = Order[l]
        OBVIOUS
      <4>1. out.rows = acc.rows
        BY <2>1
      <4>. QED BY <4>1, <3>2
    <3>5. \A i \in 1..Len(out.rows) : RowIsSound(out.rows[i], contracts) /\ \E k \in 1..n : out.rows[i].id = Order[k]
      BY <2>1, <3>1, <3>3
    <3>6. out.rows \in Seq(Views) /\ out.failures \in Seq(AgentIds) /\ DOMAIN out = {"rows", "failures"}
      BY <1>1, <2>1, <2>4
    <3>7. Len(out.failures) = Cardinality({k \in 1..n : Rejected(Order[k])})
      BY <2>7
    <3>. QED BY <2>5, <2>9, <3>4, <3>5, <3>6, <3>7 DEF AreAccounted, AreOrdered
  <2>. QED BY <2>10
<1>4. CASE ~Rejected(id)
  <2>. DEFINE view == ToAgentView(id, reads[id]["channel"], reads[id]["limits"])
  <2>1. /\ DOMAIN out = {"rows", "failures"} /\ out.failures = acc.failures
        /\ out.rows = Append(acc.rows, view)
    BY <1>4, <1>1 DEF Outcome, AreAccounted, AreOrdered
  <2>2. RowIsSound(view, contracts) /\ view.id = id /\ view \in Views
    <3>1. ReadIsSound(id) /\ Settled(id)
      BY <1>0 DEF PanelInv, Records
    <3>2. reads[id]["channel"] \in {NoRecord} \cup Channels /\ reads[id]["limits"] \in {NoRecord} \cup Limiters
      BY <1>4, <3>1 DEF ReadIsSound, Settled, Rejected, Queries
    <3>3. view \in Views /\ view.id = id /\ view.channel = reads[id]["channel"] /\ view.limits = reads[id]["limits"]
      <4>. DEFINE c == reads[id]["channel"]
                  l == reads[id]["limits"]
      <4>1. c \in {NoRecord} \cup Channels /\ l \in {NoRecord} \cup Limiters
        BY <3>2
      <4>2. view = ToAgentView(id, c, l)
        OBVIOUS
      <4>. HIDE DEF id, c, l, view
      <4>4. view \in Views /\ view.id = id /\ view.channel = c /\ view.limits = l
        <5>1. id \in AgentIds
          BY <1>0
        <5>. QED BY <4>1, <4>2, <5>1, ViewsAreViews
      <4>. QED BY <4>4 DEF c, l
    <3>. HIDE DEF id
    <3>4. view = ToAgentView(view.id, view.channel, view.limits)
      BY <3>3
    <3>. HIDE DEF view
    <3>. QED BY <3>1, <3>2, <3>3, <3>4 DEF RowIsSound, ReadIsSound
  <2>3. R(n) = R(n - 1)
    BY <1>4
  <2>. HIDE DEF view, id, out
  <2>4. /\ Len(out.rows) = Len(acc.rows) + 1 /\ out.rows \in Seq(Views)
        /\ out.rows[Len(acc.rows) + 1] = view
        /\ \A i \in 1..Len(acc.rows) : out.rows[i] = acc.rows[i]
    BY <2>1, <2>2, <1>1
  <2>5. \A i \in 1..Len(out.rows) : i \in 1..Len(acc.rows) \/ i = Len(acc.rows) + 1
    BY <2>4, <1>1
  <2>6. \A i \in 1..Len(out.rows) : RowIsSound(out.rows[i], contracts)
    BY <2>2, <2>4, <2>5 DEF AreAccounted, AreOrdered
  <2>7. ASSUME NEW k \in 1..n
        PROVE  \/ \E i \in 1..Len(out.rows) : out.rows[i].id = Order[k]
               \/ \E i \in 1..Len(out.failures) : out.failures[i] = Order[k]
    <3>1. CASE k = n
      <4>1. Len(acc.rows) + 1 \in 1..Len(out.rows)
        BY <2>4, <1>1
      <4>. QED BY <2>2, <2>4, <3>1, <4>1 DEF id
    <3>2. CASE k \in 1..(n - 1)
      <4>1. CASE \E i \in 1..Len(acc.rows) : acc.rows[i].id = Order[k]
        <5>1. PICK i \in 1..Len(acc.rows) : acc.rows[i].id = Order[k]
          BY <4>1
        <5>2. i \in 1..Len(out.rows)
          BY <2>4, <1>1
        <5>. QED BY <2>4, <5>1, <5>2
      <4>2. CASE \E i \in 1..Len(acc.failures) : acc.failures[i] = Order[k]
        BY <2>1, <4>2
      <4>. QED BY <3>2, <4>1, <4>2 DEF AreAccounted, AreOrdered
    <3>. QED BY <3>1, <3>2
  <2>8. ASSUME NEW i \in 1..Len(out.rows) PROVE \E k \in 1..n : out.rows[i].id = Order[k]
    <3>1. CASE i \in 1..Len(acc.rows)
      <4>1. PICK k \in 1..(n - 1) : acc.rows[i].id = Order[k]
        BY <3>1 DEF AreAccounted, AreOrdered
      <4>. QED BY <2>4, <3>1, <4>1
    <3>2. CASE i = Len(acc.rows) + 1
      BY <2>2, <2>4, <3>2 DEF id
    <3>. QED BY <2>5, <3>1, <3>2
  <2>9. ASSUME NEW i \in 1..Len(out.rows), NEW j \in 1..Len(out.rows), i < j
        PROVE  \E k, l \in 1..n : k < l /\ out.rows[i].id = Order[k] /\ out.rows[j].id = Order[l]
    <3>1. i \in 1..Len(acc.rows)
      BY <2>4, <2>9, <1>1
    <3>2. CASE j \in 1..Len(acc.rows)
      <4>1. PICK k, l \in 1..(n - 1) : k < l /\ acc.rows[i].id = Order[k] /\ acc.rows[j].id = Order[l]
        BY <2>9, <3>1, <3>2 DEF AreAccounted, AreOrdered
      <4>2. k \in 1..n /\ l \in 1..n
        OBVIOUS
      <4>3. out.rows[i].id = Order[k] /\ out.rows[j].id = Order[l]
        BY <2>4, <3>1, <3>2, <4>1
      <4>. QED BY <4>1, <4>2, <4>3
    <3>3. CASE j = Len(acc.rows) + 1
      <4>1. PICK k \in 1..(n - 1) : acc.rows[i].id = Order[k]
        BY <3>1 DEF AreAccounted, AreOrdered
      <4>2. k \in 1..n /\ n \in 1..n /\ k < n
        OBVIOUS
      <4>3. out.rows[i].id = Order[k] /\ out.rows[j].id = Order[n]
        BY <2>2, <2>4, <3>1, <3>3, <4>1 DEF id
      <4>. QED BY <4>2, <4>3
    <3>. QED BY <2>5, <3>2, <3>3
  <2>10. Len(out.failures) = Cardinality(R(n)) /\ Len(out.rows) + Len(out.failures) = n
    <3>1. Len(acc.failures) = Cardinality(R(n - 1))
      BY DEF AreAccounted, AreOrdered
    <3>. HIDE DEF R
    <3>. QED BY <2>1, <2>3, <2>4, <3>1, <1>1
  <2>. QED BY <1>1, <2>1, <2>4, <2>6, <2>7, <2>8, <2>9, <2>10 DEF AreAccounted, AreOrdered, out, id
<1>. QED BY <1>3, <1>4

LEMMA RosterIsAccounted ==
    ASSUME SoundPanel, PanelInv, reads # <<>>, \A id \in AgentIds : Settled(id)
    PROVE  AreAccounted(FanOut(Order), Len(Order))
<1>1. Len(Order) \in Nat
  BY OrderIsTheRoster
<1>2. PICK upTo : /\ upTo[0] = NoPanel
                  /\ \A n \in 1..Len(Order) : upTo[n] = Outcome(upTo[n - 1], Order[n], Order)
                  /\ FanOut(Order) = upTo[Len(Order)]
  BY <1>1, FanOutTakesAll
<1>3. AreAccounted(NoPanel, 0)
  <2>1. {k \in 1..0 : Rejected(Order[k])} = {}
    OBVIOUS
  <2>2. Cardinality({k \in 1..0 : Rejected(Order[k])}) = 0
    BY <2>1, FS_EmptySet
  <2>. QED BY <2>2 DEF AreAccounted, AreOrdered, NoPanel
<1>. DEFINE Missed == {n \in 0..Len(Order) : ~AreAccounted(upTo[n], n)}
<1>4. ASSUME Missed # {} PROVE FALSE
  <2>1. PICK n \in Missed : \A m \in Missed : n <= m
    <3>1. Missed \in SUBSET Nat
      BY <1>1
    <3>. HIDE DEF Missed
    <3>. QED BY <3>1, <1>4, LeastNumber
  <2>2. n # 0
    BY <1>2, <1>3
  <2>3. n \in 1..Len(Order) /\ n - 1 \in 0..Len(Order) /\ ~(n <= n - 1)
    BY <2>2, <1>1
  <2>4. AreAccounted(upTo[n - 1], n - 1)
    BY <2>1, <2>3
  <2>5. AreAccounted(Outcome(upTo[n - 1], Order[n], Order), n)
    BY <2>3, <2>4, OutcomesAreAccounted
  <2>6. AreAccounted(upTo[n], n)
    BY <2>3, <2>5, <1>2
  <2>. QED BY <2>6
<1>. QED BY <1>1, <1>2, <1>4

\* What was opened stays on record, and what was closed stays closed.
LEMMA RecordsStay ==
    ASSUME PanelInv, NothingReopens(contracts, contracts')
    PROVE  /\ \A row \in Views : RowIsSound(row, contracts) => RowIsSound(row, contracts')
           /\ \A id \in AgentIds : ReadIsSound(id) /\ reads'[id] = reads[id] => ReadIsSound(id)'
<1>1. ASSUME NEW row \in Views, RowIsSound(row, contracts) PROVE RowIsSound(row, contracts')
  <2>1. row.id \in AgentIds
    BY DEF Views
  <2>. QED BY <1>1, <2>1 DEF RowIsSound, NothingReopens
<1>2. ASSUME NEW id \in AgentIds, ReadIsSound(id), reads'[id] = reads[id] PROVE ReadIsSound(id)'
  BY <1>2 DEF ReadIsSound, NothingReopens
<1>. QED BY <1>1, <1>2

LEMMA PanelInitInv ==
    ASSUME SoundPanel, PanelInit
    PROVE  PanelInv
<1>1. PICK hourLimit \in HourLimits :
        contracts = [id \in AgentIds |->
           LET watched == CHOOSE w \in ToSet(Watched) : w.id = id IN
           [channel |-> IF watched.channel THEN [active |-> TRUE, spent |-> 0, start |-> 0] ELSE NoRecord,
            limiter |-> IF watched.channel /\ hourLimit # NoRecord THEN [max |-> hourLimit, spent |-> 0] ELSE NoRecord]]
  BY DEF PanelInit
<1>2. hourLimit # NoRecord => hourLimit \in Nat
  BY DEF SoundPanel
<1>3. [active |-> TRUE, spent |-> 0, start |-> 0] \in Channels
  BY DEF Channels
<1>4. hourLimit # NoRecord => [max |-> hourLimit, spent |-> 0] \in Limiters
  BY <1>2 DEF Limiters
<1>5. contracts \in Records
  <2>. QED BY <1>1, <1>3, <1>4 DEF Records
<1>6. panel = NoPanel /\ panel.rows = <<>> /\ panel.rows \in Seq(Views) /\ Len(panel.rows) = 0
  BY DEF PanelInit, NoPanel
<1>7. reads = <<>> /\ ledger \in Nat /\ refusals \in Nat /\ clock = NoRecord
  BY DEF PanelInit
<1>. QED BY <1>5, <1>6, <1>7 DEF PanelInv, Records

\* A step that leaves the panel and the reads alone.
LEMMA PanelStays ==
    ASSUME PanelInv, UNCHANGED <<reads, panel>>,
           ledger' \in Nat, refusals' \in Nat, clock' # NoRecord => clock' \in Nat /\ clock' <= ledger',
           contracts' \in Records,
           NothingReopens(contracts, contracts')
    PROVE  PanelInv'
<1>1. /\ \A row \in Views : RowIsSound(row, contracts) => RowIsSound(row, contracts')
      /\ \A id \in AgentIds : ReadIsSound(id) /\ reads'[id] = reads[id] => ReadIsSound(id)'
  BY RecordsStay
<1>2. reads' # <<>> => DOMAIN reads' = AgentIds /\ \A id \in AgentIds : ReadIsSound(id)'
  BY <1>1 DEF PanelInv, Records
<1>3. panel' # NoPanel => AreOrdered(panel', Len(Order))
  BY DEF PanelInv, Records
<1>4. panel'.rows \in Seq(Views)
  BY DEF PanelInv, Records
<1>5. \A i \in 1..Len(panel'.rows) : RowIsSound(panel'.rows[i], contracts')
  <2>. TAKE i \in 1..Len(panel'.rows)
  <2>1. panel'.rows = panel.rows /\ i \in 1..Len(panel.rows) /\ panel.rows[i] \in Views
    BY DEF PanelInv, Records
  <2>2. RowIsSound(panel.rows[i], contracts)
    BY <2>1 DEF PanelInv, Records
  <2>3. RowIsSound(panel.rows[i], contracts')
    BY <1>1, <2>1, <2>2
  <2>. QED BY <2>1, <2>3
<1>. QED BY <1>2, <1>3, <1>4, <1>5 DEF PanelInv, Records

LEMMA CloseKeepsInv ==
    ASSUME SoundPanel, PanelInv, NEW id \in AgentIds, Close(id)
    PROVE  PanelInv'
<1>1. contracts[id].channel \in Channels
  BY DEF Close, PanelInv, Records
<1>2. [contracts[id].channel EXCEPT !.active = FALSE] \in Channels
  BY <1>1 DEF Channels
<1>3. contracts' = [contracts EXCEPT ![id].channel = [contracts[id].channel EXCEPT !.active = FALSE]]
  BY DEF Close, PanelInv, Records
<1>4. contracts' \in Records
  BY <1>2, <1>3 DEF PanelInv, Records
<1>5. ASSUME NEW other \in AgentIds
      PROVE  (IsOpened(other, contracts) => IsOpened(other, contracts')) /\ (IsClosed(other, contracts) => IsClosed(other, contracts'))
  <2>1. CASE other = id
    <3>1. contracts'[id].channel = [contracts[id].channel EXCEPT !.active = FALSE]
      BY <1>3 DEF PanelInv, Records
    <3>2. contracts'[id].channel.active = FALSE
      BY <3>1, <1>1 DEF Channels
    <3>. QED BY <2>1, <3>1, <3>2, <1>2 DEF IsOpened, IsClosed
  <2>2. CASE other # id
    BY <2>2, <1>3 DEF IsOpened, IsClosed, PanelInv, Records
  <2>. QED BY <2>1, <2>2
<1>6. NothingReopens(contracts, contracts')
  BY <1>5 DEF NothingReopens
<1>. QED BY <1>4, <1>6, PanelStays DEF Close, PanelInv, Records

LEMMA PayKeepsInv ==
    ASSUME SoundPanel, PanelInv, NEW id \in AgentIds, NEW amount \in Amounts, Pay(id, amount)
    PROVE  PanelInv'
<1>. DEFINE paid == Rolled(contracts[id].channel)
            charged == Charged(paid, amount)
            told == IF contracts[id].limiter = NoRecord THEN NoRecord ELSE Charged(contracts[id].limiter, amount)
<1>0. amount \in Nat /\ ledger \in Nat
  BY DEF SoundPanel, PanelInv
<1>1. contracts[id].channel \in Channels /\ contracts[id].limiter \in {NoRecord} \cup Limiters
  BY DEF Pay, PanelInv, Records
<1>2. paid \in Channels /\ paid.active = contracts[id].channel.active
  BY <1>0, <1>1 DEF Rolled, Channels
<1>3. charged \in Channels /\ charged.active = paid.active
  <2>. HIDE DEF paid
  <2>. QED BY <1>0, <1>2 DEF Channels, Charged
<1>4. told \in {NoRecord} \cup Limiters
  BY <1>0, <1>1 DEF Limiters, Charged
<1>5. contracts' = [contracts EXCEPT ![id] = [channel |-> charged, limiter |-> told]] /\ ~IsClosed(id, contracts)
  <2>1. contracts' = [contracts EXCEPT ![id] = [channel |-> charged, limiter |-> told]]
    BY DEF Pay
  <2>2. paid.active
    BY DEF Pay
  <2>. HIDE DEF paid
  <2>3. ~IsClosed(id, contracts)
    BY <1>2, <2>2 DEF IsClosed
  <2>. QED BY <2>1, <2>3
<1>. HIDE DEF charged, told, paid
<1>6. contracts' \in Records
  BY <1>3, <1>4, <1>5 DEF PanelInv, Records
<1>7. NothingReopens(contracts, contracts')
  <2>. SUFFICES ASSUME NEW other \in AgentIds
                PROVE  /\ IsOpened(other, contracts) => IsOpened(other, contracts')
                       /\ IsClosed(other, contracts) => IsClosed(other, contracts')
    BY DEF NothingReopens
  <2>1. CASE other = id
    BY <2>1, <1>3, <1>5 DEF IsOpened, IsClosed, PanelInv, Records
  <2>2. CASE other # id
    BY <2>2, <1>5 DEF IsOpened, IsClosed, PanelInv, Records
  <2>. QED BY <2>1, <2>2
<1>. QED BY <1>6, <1>7, PanelStays DEF Pay, PanelInv, Records

\* A read that is answered, or fails, leaves the others alone.
LEMMA ReadKeepsInv ==
    ASSUME SoundPanel, PanelInv, reads # <<>>, NEW id \in AgentIds, NEW query \in Queries,
           NEW answer, answer \in {Broken, Answer(id, query)},
           reads' = [reads EXCEPT ![id][query] = answer],
           UNCHANGED <<ledger, contracts, panel, clock>>, refusals' \in Nat
    PROVE  PanelInv'
<1>1. DOMAIN reads = AgentIds /\ ReadIsSound(id)
  BY DEF PanelInv, Records
<1>2. contracts[id] \in [channel : {NoRecord} \cup Channels, limiter : {NoRecord} \cup Limiters]
  BY DEF PanelInv, Records
<1>3. ASSUME NEW other \in AgentIds PROVE ReadIsSound(other)'
  <2>1. CASE other # id
    <3>1. reads'[other] = reads[other] /\ ReadIsSound(other)
      BY <1>1, <2>1 DEF PanelInv, Records
    <3>. QED BY <3>1 DEF ReadIsSound, IsOpened, IsClosed
  <2>2. CASE other = id
    <3>1. reads'[id] = [reads[id] EXCEPT ![query] = answer]
      BY <1>1
    <3>2. DOMAIN reads[id] = Queries
      BY <1>1 DEF ReadIsSound
    <3>3. CASE query = "channel"
      <4>1. reads'[id]["channel"] = answer /\ reads'[id]["limits"] = reads[id]["limits"]
        BY <3>1, <3>2, <3>3 DEF Queries
      <4>2. answer \in {Broken, contracts[id].channel}
        BY <3>3 DEF Answer
      <4>3. Broken \notin Channels
        BY DEF SoundPanel, Channels
      <4>. QED BY <2>2, <3>1, <3>2, <4>1, <4>2, <4>3, <1>1, <1>2 DEF ReadIsSound, IsOpened, IsClosed
    <3>4. CASE query = "limits"
      <4>1. reads'[id]["limits"] = answer /\ reads'[id]["channel"] = reads[id]["channel"]
        BY <3>1, <3>2, <3>4 DEF Queries
      <4>2. answer \in {Broken, contracts[id].limiter}
        BY <3>4 DEF Answer
      <4>. QED BY <2>2, <3>1, <3>2, <4>1, <4>2, <1>1, <1>2 DEF ReadIsSound, IsOpened, IsClosed
    <3>. QED BY <3>3, <3>4 DEF Queries
  <2>. QED BY <2>1, <2>2
<1>4. DOMAIN reads' = AgentIds
  BY <1>1
<1>5. \A i \in 1..Len(panel.rows) : RowIsSound(panel.rows[i], contracts')
  BY DEF PanelInv, Records, RowIsSound, IsOpened, IsClosed
<1>6. /\ ledger' \in Nat
      /\ clock' # NoRecord => clock' \in Nat /\ clock' <= ledger'
      /\ contracts' \in Records
      /\ panel' = panel /\ panel.rows \in Seq(Views)
      /\ panel # NoPanel => AreOrdered(panel, Len(Order))
  BY DEF PanelInv, Records
<1>. QED BY <1>3, <1>4, <1>5, <1>6 DEF PanelInv, Records

LEMMA PanelNextInv ==
    ASSUME SoundPanel, PanelInv, [PanelNext]_panelVars
    PROVE  PanelInv'
<1>1. ASSUME contracts' = contracts
      PROVE  NothingReopens(contracts, contracts')
  BY <1>1 DEF NothingReopens
<1>2. ASSUME UNCHANGED <<contracts, reads, panel, refusals>>,
             ledger' \in Nat, clock' # NoRecord => clock' \in Nat /\ clock' <= ledger'
      PROVE  PanelInv'
  BY <1>1, <1>2, PanelStays DEF PanelInv, Records
<1>3. CASE LedgerCloses
  <2>1. ledger' \in Nat /\ clock' = clock /\ (clock # NoRecord => clock \in Nat /\ clock <= ledger')
    BY <1>3 DEF LedgerCloses, PanelInv, Records
  <2>. QED BY <1>2, <1>3, <2>1 DEF LedgerCloses
<1>4. CASE StartFetch
  <2>1. reads' = [id \in AgentIds |-> [q \in Queries |-> Unread]]
    BY <1>4 DEF StartFetch
  <2>2. Unread \notin Channels
    BY DEF SoundPanel, Channels
  <2>3. ASSUME NEW id \in AgentIds PROVE ReadIsSound(id)'
    <3>1. reads'[id] = [q \in Queries |-> Unread]
      BY <2>1
    <3>2. DOMAIN reads'[id] = Queries /\ reads'[id]["channel"] = Unread /\ reads'[id]["limits"] = Unread
      BY <3>1 DEF Queries
    <3>. QED BY <2>2, <3>2 DEF ReadIsSound
  <2>4. \A i \in 1..Len(panel.rows) : RowIsSound(panel.rows[i], contracts')
    BY <1>4 DEF PanelInv, Records, RowIsSound, IsOpened, IsClosed, StartFetch
  <2>5. DOMAIN reads' = AgentIds
    BY <2>1
  <2>. QED BY <1>4, <2>3, <2>4, <2>5 DEF PanelInv, Records, StartFetch
<1>5. CASE FetchEnds
  <2>1. panel' = FanOut(Order) /\ reads' = <<>> /\ UNCHANGED <<ledger, contracts, clock, refusals>>
    BY <1>5 DEF FetchEnds, Order
  <2>2. AreAccounted(FanOut(Order), Len(Order))
    BY <1>5, RosterIsAccounted DEF FetchEnds
  <2>3. AreOrdered(panel', Len(Order)) /\ panel'.rows \in Seq(Views)
    <3>1. AreOrdered(panel', Len(Order))
      BY <2>1, <2>2 DEF AreAccounted
    <3>. QED BY <3>1 DEF AreOrdered
  <2>4. \A i \in 1..Len(panel'.rows) : RowIsSound(panel'.rows[i], contracts)
    BY <2>1, <2>2 DEF AreAccounted
  <2>5. \A i \in 1..Len(panel'.rows) : RowIsSound(panel'.rows[i], contracts')
    BY <2>1, <2>4
  <2>. QED BY <2>1, <2>3, <2>5 DEF PanelInv, Records
<1>6. CASE PollClock
  BY <1>2, <1>6 DEF PollClock, PanelInv, Records
<1>7. CASE PollPayments
  BY <1>2, <1>7 DEF PollPayments, PanelInv, Records
<1>8. CASE OpenPage
  BY <1>2, <1>8 DEF OpenPage, PanelInv, Records
<1>9. ASSUME NEW id \in AgentIds, NEW query \in Queries, Read(id, query)
      PROVE  PanelInv'
  BY <1>9, ReadKeepsInv DEF Read, PanelInv, Records
<1>10. ASSUME NEW id \in AgentIds, NEW query \in Queries, ReadFails(id, query)
       PROVE  PanelInv'
  <2>1. refusals' \in Nat
    BY <1>10 DEF ReadFails, PanelInv, Records
  <2>. QED BY <1>10, <2>1, ReadKeepsInv DEF ReadFails
<1>11. CASE UNCHANGED panelVars
  BY <1>2, <1>11 DEF panelVars, PanelInv, Records
<1>. QED BY <1>3, <1>4, <1>5, <1>6, <1>7, <1>8, <1>9, <1>10, <1>11, CloseKeepsInv, PayKeepsInv DEF PanelNext

\* A share of at least a hundred, or of less than eighty, per cent.
LEMMA Shares ==
    ASSUME NEW s \in Nat, NEW m \in Nat, m > 0
    PROVE  /\ Percent(s, m) < 80 => 100 * s < 80 * m
           /\ Percent(s, m) >= 100 <=> s >= m
<1>. DEFINE p == (100 * s) \div m
            r == (100 * s) % m
<1>1. p \in Nat /\ r \in Nat /\ r < m /\ 100 * s = m * p + r
  OBVIOUS
<1>2. Percent(s, m) = p
  BY DEF Percent
<1>. HIDE DEF p, r
<1>3. ASSUME p < 80 PROVE 100 * s < 80 * m
  <2>1. m * p <= m * 79
    BY <1>1, <1>3
  <2>2. m * 79 + m = 80 * m
    OBVIOUS
  <2>. QED BY <1>1, <2>1, <2>2
<1>4. ASSUME p >= 100 PROVE s >= m
  <2>1. m * p >= m * 100
    BY <1>1, <1>4
  <2>. QED BY <1>1, <2>1
<1>5. ASSUME s >= m PROVE p >= 100
  <2>. SUFFICES ASSUME p < 100 PROVE FALSE
    BY <1>1
  <2>1. m * p <= m * 99
    BY <1>1
  <2>2. 100 * s >= 100 * m
    BY <1>5
  <2>3. m * 99 + m = 100 * m
    OBVIOUS
  <2>. QED BY <1>1, <2>1, <2>2, <2>3
<1>. QED BY <1>1, <1>2, <1>3, <1>4, <1>5

\* Amounts lose less than a hundredth when they are shown.
LEMMA RoomIsLeft ==
    ASSUME NEW s \in Nat, NEW m \in Nat, m > 0, m % 50 = 0, Percent(Fmt(s), Fmt(m)) < 80
    PROVE  5 * s < 5 * m - m
<1>1. Fmt(m) = m /\ Fmt(s) \in Nat
  BY DEF Fmt
<1>2. 100 * Fmt(s) < 80 * m
  BY <1>1, Shares
<1>. QED BY <1>1, <1>2 DEF Fmt

LEMMA MaxOfNone == \A x \in Int : Max({0, x}) = IF x > 0 THEN x ELSE 0
<1>. TAKE x \in Int
<1>1. ASSUME NEW y \in {0, x}, \A z \in {0, x} : z <= y PROVE y = IF x > 0 THEN x ELSE 0
  BY <1>1
<1>2. \E y \in {0, x} : \A z \in {0, x} : y >= z
  BY DEF Max
<1>3. Max({0, x}) \in {0, x} /\ \A z \in {0, x} : Max({0, x}) >= z
  BY <1>2 DEF Max
<1>. QED BY <1>3

\* The rows of the panel.
LEMMA RowsAreSound ==
    ASSUME PanelInv, NEW row \in Rows
    PROVE  row \in Views /\ RowIsSound(row, contracts)
<1>1. PICK i \in 1..Len(panel.rows) : row = panel.rows[i]
  <2>1. DOMAIN panel.rows = 1..Len(panel.rows)
    BY DEF PanelInv
  <2>. QED BY <2>1 DEF Rows, ToSet
<1>2. RowIsSound(panel.rows[i], contracts)
  BY DEF PanelInv
<1>. QED BY <1>1, <1>2 DEF RowIsSound

LEMMA InvRoomWithoutWarning == SoundPanel /\ PanelInv => RoomWithoutWarning
<1>. SUFFICES ASSUME SoundPanel, PanelInv, NEW row \in Rows
              PROVE  /\ row.status = "active" /\ row.limits # NoRecord /\ row.limits.max % 50 = 0 /\ row.limits.max > 0 =>
                          5 * row.limits.spent < 5 * row.limits.max - row.limits.max
                     /\ row.status = "active" /\ row.limits = NoRecord /\ row.channel # NoRecord /\ Limit % 50 = 0 =>
                          5 * row.channel.spent < 5 * Limit - Limit
                     /\ row.status = "inactive" <=> row.channel # NoRecord /\ ~row.channel.active
                     /\ row.status = "inactive" => ~contracts[row.id].channel.active
  BY DEF RoomWithoutWarning
<1>1. row \in Views /\ RowIsSound(row, contracts)
  BY RowsAreSound
<1>2. row.channel \in {NoRecord} \cup Channels /\ row.limits \in {NoRecord} \cup Limiters
  BY <1>1 DEF Views
<1>. DEFINE of == IF row.limits # NoRecord THEN [limit |-> row.limits.max, spent |-> row.limits.spent]
                  ELSE IF row.channel # NoRecord THEN [limit |-> Limit, spent |-> row.channel.spent]
                  ELSE [limit |-> 0, spent |-> 0]
            open == row.channel = NoRecord \/ row.channel.active
<1>3. row.status = AgentStatus(Fmt(of.spent), Fmt(of.limit), open)
  BY <1>1 DEF RowIsSound, ToAgentView
<1>4. row.status = "inactive" <=> ~open
  <2>. HIDE DEF of, open
  <2>. QED BY <1>3 DEF AgentStatus
<1>5. row.status = "active" => Percent(Fmt(of.spent), Fmt(of.limit)) < 80
  <2>. SUFFICES ASSUME row.status = "active" PROVE Percent(Fmt(of.spent), Fmt(of.limit)) < 80
    OBVIOUS
  <2>1. ~(Percent(Fmt(of.spent), Fmt(of.limit)) >= 80)
    <3>. HIDE DEF of, open
    <3>. QED BY <1>3 DEF AgentStatus
  <2>2. of.spent \in Nat /\ of.limit \in Nat
    BY <1>2 DEF SoundPanel, Channels, Limiters
  <2>3. Percent(Fmt(of.spent), Fmt(of.limit)) \in Int
    <3>1. Fmt(of.spent) \in Nat /\ Fmt(of.limit) \in Nat
      <4>. HIDE DEF of
      <4>. QED BY <2>2 DEF Fmt
    <3>. HIDE DEF of
    <3>. QED BY <3>1 DEF Percent
  <2>. HIDE DEF of
  <2>. QED BY <2>1, <2>3
<1>6. ASSUME row.status = "active", row.limits # NoRecord, row.limits.max % 50 = 0, row.limits.max > 0
      PROVE  5 * row.limits.spent < 5 * row.limits.max - row.limits.max
  <2>1. row.limits.max \in Nat /\ row.limits.spent \in Nat
    BY <1>2, <1>6 DEF Limiters
  <2>2. Percent(Fmt(row.limits.spent), Fmt(row.limits.max)) < 80
    BY <1>5, <1>6
  <2>. QED BY <2>1, <2>2, <1>6, RoomIsLeft
<1>7. ASSUME row.status = "active", row.limits = NoRecord, row.channel # NoRecord, Limit % 50 = 0
      PROVE  5 * row.channel.spent < 5 * Limit - Limit
  <2>1. Limit \in Nat /\ Limit > 0 /\ row.channel.spent \in Nat
    BY <1>2, <1>7 DEF SoundPanel, Channels
  <2>2. Percent(Fmt(row.channel.spent), Fmt(Limit)) < 80
    BY <1>5, <1>7
  <2>. QED BY <2>1, <2>2, <1>7, RoomIsLeft
<1>8. row.status = "inactive" => ~contracts[row.id].channel.active
  <2>. SUFFICES ASSUME ~open PROVE ~contracts[row.id].channel.active
    BY <1>4
  <2>1. row.channel # NoRecord /\ row.channel.active = FALSE
    BY <1>2 DEF Channels
  <2>2. contracts[row.id].channel.active = FALSE
    BY <1>1, <2>1 DEF RowIsSound, IsClosed
  <2>. QED BY <2>2
<1>9. row.status = "inactive" <=> row.channel # NoRecord /\ ~row.channel.active
  BY <1>4
<1>. QED BY <1>6, <1>7, <1>8, <1>9

LEMMA InvWhatIsOverIsOver == SoundPanel /\ PanelInv => WhatIsOverIsOver
<1>. SUFFICES ASSUME SoundPanel, PanelInv, clock # NoRecord
              PROVE  /\ ToJobView(clock) = "expired" => ledger >= Deadline
                     /\ \A row \in Rows :
                           /\ row.channel # NoRecord /\ LedgersUntilPeriodReset(row.channel, clock) = 0
                           /\ contracts[row.id].channel.start = row.channel.start
                           => Rolled(contracts[row.id].channel).spent = 0
  BY DEF WhatIsOverIsOver
<1>1. clock \in Nat /\ ledger \in Nat /\ clock <= ledger /\ Period \in Nat /\ Deadline \in Nat
  BY DEF PanelInv, SoundPanel
<1>2. ToJobView(clock) = "expired" => ledger >= Deadline
  BY <1>1 DEF ToJobView
<1>3. ASSUME NEW row \in Rows, row.channel # NoRecord, LedgersUntilPeriodReset(row.channel, clock) = 0,
             contracts[row.id].channel.start = row.channel.start
      PROVE  Rolled(contracts[row.id].channel).spent = 0
  <2>1. row \in Views /\ RowIsSound(row, contracts)
    BY RowsAreSound
  <2>2. row.channel \in Channels /\ contracts[row.id].channel \in Channels
    BY <2>1, <1>3 DEF Views, RowIsSound, IsOpened
  <2>3. row.channel.start \in Nat
    BY <2>2 DEF Channels
  <2>4. row.channel.start + Period - clock <= 0
    BY <1>1, <1>3, <2>3, MaxOfNone DEF LedgersUntilPeriodReset
  <2>5. ledger >= contracts[row.id].channel.start + Period
    BY <1>1, <1>3, <2>3, <2>4
  <2>. QED BY <2>2, <2>5 DEF Rolled, Channels
<1>. QED BY <1>2, <1>3

LEMMA InvHeadroomIsExact == PanelInv => HeadroomIsExact
<1>. SUFFICES ASSUME PanelInv, NEW row \in Rows, row.limits # NoRecord, row.limits.max # 0
              PROVE  LET shown == AmountRow(row.limits.max, row.limits.spent)
                         Fits(amount) == row.limits.spent + amount <= row.limits.max
                     IN  /\ shown.exhausted <=> ~Fits(1)
                         /\ ~shown.exhausted => Fits(shown.headroom) /\ ~Fits(shown.headroom + 1)
                         /\ shown.exhausted <=> shown.used >= 100
  BY DEF HeadroomIsExact, AmountRow
<1>1. row \in Views
  BY RowsAreSound
<1>. DEFINE m == row.limits.max
            s == row.limits.spent
<1>2. m \in Nat /\ m > 0 /\ s \in Nat
  BY <1>1 DEF Views, Limiters
<1>3. AmountRow(m, s).headroom = IF m - s > 0 THEN m - s ELSE 0
  <2>. HIDE DEF m, s
  <2>1. Max({0, m - s}) = IF m - s > 0 THEN m - s ELSE 0
    BY <1>2, MaxOfNone
  <2>. QED BY <2>1 DEF AmountRow
<1>4. AmountRow(m, s).exhausted <=> s >= m
  <2>. HIDE DEF m, s
  <2>1. (m # 0 /\ m - s <= 0) <=> s >= m
    BY <1>2
  <2>2. AmountRow(m, s).exhausted = (m # 0 /\ m - s <= 0)
    BY DEF AmountRow
  <2>. QED BY <2>1, <2>2
<1>5. AmountRow(m, s).used >= 100 <=> s >= m
  <2>. HIDE DEF m, s
  <2>1. AmountRow(m, s).used = Percent(s, m)
    BY <1>2 DEF AmountRow
  <2>. QED BY <1>2, <2>1, Shares
<1>. HIDE DEF m, s
<1>6. /\ s >= m <=> ~(s + 1 <= m)
      /\ ~(s >= m) => s + (m - s) <= m /\ ~(s + (m - s + 1) <= m)
  BY <1>2
<1>7. ASSUME ~(s >= m) PROVE AmountRow(m, s).headroom = m - s
  BY <1>2, <1>3, <1>7
<1>. QED BY <1>4, <1>5, <1>6, <1>7 DEF m, s

(***************************************************************************)
(* For any roster, limits, payments and closings, while the reads of the   *)
(* panel are answered or refused one by one: no agent is shown without a   *)
(* warning who had used four fifths of the limit when it was read, who is  *)
(* shown inactive stays closed, what is shown as over is over, and the     *)
(* headroom is the largest amount that the limiter's record admits         *)
(* (views.ts, rateLimitView.ts).                                           *)
(***************************************************************************)
THEOREM PanelsTellTheTruth ==
    SoundPanel => (PanelSpec => [](RoomWithoutWarning /\ WhatIsOverIsOver /\ HeadroomIsExact))
<1>. SUFFICES ASSUME SoundPanel
              PROVE  PanelSpec => [](RoomWithoutWarning /\ WhatIsOverIsOver /\ HeadroomIsExact)
  OBVIOUS
<1>1. PanelInit => PanelInv
  BY PanelInitInv
<1>2. PanelInv /\ [PanelNext]_panelVars => PanelInv'
  BY PanelNextInv
<1>3. PanelInv => RoomWithoutWarning /\ WhatIsOverIsOver /\ HeadroomIsExact
  BY InvRoomWithoutWarning, InvWhatIsOverIsOver, InvHeadroomIsExact
<1>. QED BY <1>1, <1>2, <1>3, PTL DEF PanelSpec

-----------------------------------------------------------------------------
(* Every agent is accounted for, if the roster names none of them twice.   *)

Refused == {k \in 1..Len(Watched) : Rejected(Order[k])}

RefusalsCount ==
    /\ reads # <<>> => Cardinality(Refused) <= refusals
    /\ panel # NoPanel => Len(panel.failures) <= refusals

LEMMA RefusedIsFinite == SoundPanel => IsFiniteSet(Refused) /\ Cardinality(Refused) \in Nat
<1>. SUFFICES ASSUME SoundPanel PROVE IsFiniteSet(Refused)
  BY FS_CardinalityType
<1>1. IsFiniteSet(1..Len(Watched))
  BY OrderIsTheRoster, FS_Interval
<1>. QED BY <1>1, FS_Subset DEF Refused

LEMMA NextRefusalsCount ==
    ASSUME SoundPanel, DistinctRoster, PanelInv, RefusalsCount, [PanelNext]_panelVars
    PROVE  RefusalsCount'
<1>0. Cardinality(Refused) \in Nat /\ IsFiniteSet(Refused) /\ refusals \in Nat /\ Len(Watched) \in Nat
  BY RefusedIsFinite, OrderIsTheRoster DEF PanelInv
<1>1. ASSUME UNCHANGED <<reads, panel, refusals>> PROVE RefusalsCount'
  BY <1>1 DEF RefusalsCount, Refused, Rejected
<1>2. CASE StartFetch
  <2>1. reads' = [id \in AgentIds |-> [q \in Queries |-> Unread]] /\ UNCHANGED <<panel, refusals>>
    BY <1>2 DEF StartFetch
  <2>2. \A k \in 1..Len(Watched) : ~Rejected(Order[k])'
    <3>. SUFFICES ASSUME NEW k \in 1..Len(Watched) PROVE ~Rejected(Order[k])'
      OBVIOUS
    <3>1. Order[k] \in AgentIds
      BY OrderIsTheRoster
    <3>2. reads'[Order[k]] = [q \in Queries |-> Unread]
      BY <2>1, <3>1
    <3>3. Unread # Broken
      BY DEF SoundPanel
    <3>. QED BY <3>2, <3>3 DEF Rejected
  <2>3. Refused' = {}
    BY <2>2 DEF Refused
  <2>4. Cardinality(Refused') = 0
    BY <2>3, FS_EmptySet
  <2>. QED BY <2>1, <2>4, <1>0 DEF RefusalsCount
<1>3. CASE FetchEnds
  <2>1. panel' = FanOut(Order) /\ reads' = <<>> /\ refusals' = refusals
    BY <1>3 DEF FetchEnds, Order
  <2>2. AreAccounted(FanOut(Order), Len(Order)) /\ reads # <<>>
    BY <1>3, RosterIsAccounted DEF FetchEnds
  <2>3. Len(panel'.failures) = Cardinality(Refused)
    BY <2>1, <2>2, OrderIsTheRoster DEF AreAccounted, Refused
  <2>. QED BY <2>1, <2>2, <2>3 DEF RefusalsCount
<1>4. ASSUME NEW id \in AgentIds, NEW query \in Queries, NEW answer, reads # <<>>,
             reads' = [reads EXCEPT ![id][query] = answer]
      PROVE  \A who \in AgentIds : who # id \/ answer # Broken => (Rejected(who)' => Rejected(who))
  <2>1. DOMAIN reads = AgentIds /\ DOMAIN reads[id] = Queries
    BY <1>4 DEF PanelInv, ReadIsSound
  <2>2. \A other \in AgentIds : other # id => reads'[other] = reads[other]
    BY <1>4, <2>1
  <2>3. \A q \in Queries : reads'[id][q] = IF q = query THEN answer ELSE reads[id][q]
    BY <1>4, <2>1
  <2>. QED BY <2>2, <2>3 DEF Rejected
<1>5. ASSUME NEW id \in AgentIds, NEW query \in Queries, Read(id, query)
      PROVE  RefusalsCount'
  <2>1. reads # <<>> /\ reads' = [reads EXCEPT ![id][query] = Answer(id, query)] /\ UNCHANGED <<panel, refusals>>
    BY <1>5 DEF Read
  <2>2. Answer(id, query) # Broken
    BY DEF SoundPanel, PanelInv, Records, Channels, Limiters, Answer
  <2>a. PICK got : got = Answer(id, query)
    OBVIOUS
  <2>3. \A who \in AgentIds : Rejected(who)' => Rejected(who)
    <3>1. reads # <<>> /\ reads' = [reads EXCEPT ![id][query] = got] /\ got # Broken
      BY <2>1, <2>2, <2>a
    <3>2. \A who \in AgentIds : Rejected(who)' => Rejected(who)
      <4>1. reads # <<>> /\ reads' = [reads EXCEPT ![id][query] = got]
        BY <3>1
      <4>2. \A who \in AgentIds : who # id \/ got # Broken => (Rejected(who)' => Rejected(who))
        BY <4>1, <1>4
      <4>. QED BY <3>1, <4>2
    <3>. QED BY <3>2
  <2>4. Refused' \subseteq Refused
    BY <2>3, OrderIsTheRoster DEF Refused
  <2>5. Cardinality(Refused') <= Cardinality(Refused) /\ Cardinality(Refused') \in Nat
    BY <2>4, <1>0, FS_Subset, FS_CardinalityType
  <2>. QED BY <2>1, <2>5, <1>0 DEF RefusalsCount
<1>6. ASSUME NEW id \in AgentIds, NEW query \in Queries, ReadFails(id, query)
      PROVE  RefusalsCount'
  <2>1. reads # <<>> /\ reads' = [reads EXCEPT ![id][query] = Broken] /\ panel' = panel /\ refusals' = refusals + 1
    BY <1>6 DEF ReadFails
  <2>2. PICK n \in 1..Len(Watched) : Order[n] = id
    BY OrderIsTheRoster DEF AgentIds, Order
  <2>3. \A k \in 1..Len(Watched) : k # n => Order[k] # id
    BY <2>2, OrderIsTheRoster DEF DistinctRoster
  <2>4. \A other \in AgentIds : other # id => (Rejected(other)' => Rejected(other))
    BY <2>1, <1>4, Zenon
  <2>5. Refused' \subseteq Refused \cup {n}
    BY <2>3, <2>4, OrderIsTheRoster DEF Refused
  <2>6. Cardinality(Refused \cup {n}) <= Cardinality(Refused) + 1 /\ IsFiniteSet(Refused \cup {n})
    <3>. DEFINE more == Refused \cup {n}
    <3>1. CASE n \in Refused
      <4>1. more = Refused
        BY <3>1
      <4>. HIDE DEF more
      <4>2. Cardinality(more) <= Cardinality(Refused) + 1 /\ IsFiniteSet(more)
        BY <4>1, <1>0
      <4>. QED BY <4>2 DEF more
    <3>2. CASE n \notin Refused
      <4>1. IsFiniteSet(more) /\ Cardinality(more) = Cardinality(Refused) + 1
        BY <3>2, <1>0, FS_AddElement
      <4>. HIDE DEF more
      <4>2. Cardinality(more) <= Cardinality(Refused) + 1
        BY <4>1, <1>0
      <4>. QED BY <4>1, <4>2 DEF more
    <3>. QED BY <3>1, <3>2
  <2>7. Cardinality(Refused') <= Cardinality(Refused \cup {n})
    BY <2>5, <2>6, FS_Subset
  <2>8. Cardinality(Refused \cup {n}) \in Nat /\ Cardinality(Refused') \in Nat
    BY <2>5, <2>6, FS_Subset, FS_CardinalityType
  <2>9. Cardinality(Refused') <= refusals'
    BY <2>1, <2>6, <2>7, <2>8, <1>0 DEF RefusalsCount
  <2>10. panel' # NoPanel => Len(panel'.failures) <= refusals'
    <3>1. panel # NoPanel => Len(panel.failures) \in Nat
      BY DEF PanelInv, AreOrdered
    <3>. QED BY <2>1, <3>1, <1>0 DEF RefusalsCount
  <2>. QED BY <2>9, <2>10 DEF RefusalsCount
<1>. QED BY <1>1, <1>2, <1>3, <1>5, <1>6 DEF PanelNext, panelVars, LedgerCloses, PollClock, PollPayments, OpenPage, Close, Pay

LEMMA InvRowsAccountForRoster ==
    SoundPanel /\ DistinctRoster /\ PanelInv /\ RefusalsCount => RowsAccountForRoster
<1>. SUFFICES ASSUME SoundPanel, DistinctRoster, PanelInv, RefusalsCount, panel # NoPanel
              PROVE  LET shown == [i \in DOMAIN panel.rows |-> panel.rows[i].id] IN
                     /\ Len(shown) + Len(panel.failures) = Len(Watched)
                     /\ ToSet(shown) \cup ToSet(panel.failures) = AgentIds
                     /\ Len(panel.failures) <= refusals
                     /\ \E place \in [AgentIds -> DOMAIN Watched] :
                          /\ \A id \in AgentIds : Watched[place[id]].id = id
                          /\ \A i, j \in DOMAIN shown : i < j => place[shown[i]] < place[shown[j]]
  BY DEF RowsAccountForRoster
<1>. DEFINE shown == [i \in DOMAIN panel.rows |-> panel.rows[i].id]
            place == [id \in AgentIds |-> CHOOSE n \in DOMAIN Watched : Watched[n].id = id]
<1>1. AreOrdered(panel, Len(Watched)) /\ Len(panel.failures) <= refusals
  BY OrderIsTheRoster DEF PanelInv, RefusalsCount
<1>2. /\ panel.rows \in Seq(Views) /\ DOMAIN panel.rows = 1..Len(panel.rows) /\ Len(panel.rows) \in Nat
      /\ panel.failures \in Seq(AgentIds) /\ DOMAIN panel.failures = 1..Len(panel.failures)
      /\ Len(panel.rows) + Len(panel.failures) = Len(Watched)
  BY <1>1 DEF AreOrdered
<1>3. DOMAIN shown = 1..Len(panel.rows) /\ Len(shown) = Len(panel.rows)
  BY <1>2
<1>4. \A i \in DOMAIN shown : shown[i] = panel.rows[i].id /\ shown[i] \in AgentIds
  <2>. SUFFICES ASSUME NEW i \in DOMAIN shown PROVE shown[i] = panel.rows[i].id /\ shown[i] \in AgentIds
    OBVIOUS
  <2>1. i \in 1..Len(panel.rows) /\ shown[i] = panel.rows[i].id
    BY <1>3, <1>2
  <2>2. panel.rows[i] \in Views
    BY <2>1, <1>2
  <2>3. panel.rows[i].id \in AgentIds
    BY <2>2 DEF Views
  <2>. QED BY <2>1, <2>3
<1>5. \A n \in 1..Len(Watched) : Watched[n].id \in AgentIds /\ place[Watched[n].id] = n
  <2>. SUFFICES ASSUME NEW n \in 1..Len(Watched) PROVE Watched[n].id \in AgentIds /\ place[Watched[n].id] = n
    OBVIOUS
  <2>1. n \in DOMAIN Watched /\ Watched[n].id \in AgentIds
    BY OrderIsTheRoster DEF AgentIds
  <2>2. \A m \in DOMAIN Watched : Watched[m].id = Watched[n].id => m = n
    BY <2>1 DEF DistinctRoster
  <2>. QED BY <2>1, <2>2
<1>6. \A id \in AgentIds : \E n \in 1..Len(Watched) : Watched[n].id = id
  BY DEF AgentIds, SoundPanel
<1>. HIDE DEF shown
<1>7. place \in [AgentIds -> DOMAIN Watched] /\ \A id \in AgentIds : Watched[place[id]].id = id
  <2>1. \A id \in AgentIds : place[id] \in DOMAIN Watched /\ Watched[place[id]].id = id
    BY <1>6, OrderIsTheRoster
  <2>. QED BY <2>1
<1>. HIDE DEF place
<1>8. ASSUME NEW i \in DOMAIN shown, NEW j \in DOMAIN shown, i < j
      PROVE  place[shown[i]] < place[shown[j]]
  <2>1. PICK k, l \in 1..Len(Watched) : k < l /\ panel.rows[i].id = Order[k] /\ panel.rows[j].id = Order[l]
    <3>1. \A m, n \in 1..Len(panel.rows) : m < n =>
            \E k, l \in 1..Len(Watched) : k < l /\ panel.rows[m].id = Order[k] /\ panel.rows[n].id = Order[l]
      BY <1>1 DEF AreOrdered
    <3>2. i \in 1..Len(panel.rows) /\ j \in 1..Len(panel.rows)
      BY <1>3
    <3>. QED BY <3>1, <3>2, <1>8
  <2>2. shown[i] = Watched[k].id /\ shown[j] = Watched[l].id
    BY <2>1, <1>4, OrderIsTheRoster
  <2>. QED BY <2>1, <2>2, <1>5
<1>9. ToSet(shown) \cup ToSet(panel.failures) = AgentIds
  <2>1. ToSet(shown) \subseteq AgentIds /\ ToSet(panel.failures) \subseteq AgentIds
    BY <1>2, <1>4 DEF ToSet
  <2>2. ASSUME NEW id \in AgentIds PROVE id \in ToSet(shown) \cup ToSet(panel.failures)
    <3>1. PICK n \in 1..Len(Watched) : Order[n] = id
      BY <1>6, OrderIsTheRoster
    <3>2. CASE \E i \in 1..Len(panel.rows) : panel.rows[i].id = Order[n]
      BY <3>1, <3>2, <1>3, <1>4 DEF ToSet
    <3>3. CASE \E i \in 1..Len(panel.failures) : panel.failures[i] = Order[n]
      BY <3>1, <3>3, <1>2 DEF ToSet
    <3>. QED BY <3>2, <3>3, <1>1 DEF AreOrdered
  <2>. QED BY <2>1, <2>2
<1>10. Len(shown) + Len(panel.failures) = Len(Watched)
  BY <1>2, <1>3
<1>. QED BY <1>1, <1>7, <1>8, <1>9, <1>10 DEF shown

(***************************************************************************)
(* For any roster that names no agent twice: each of its agents is a row   *)
(* of the panel or a named failure, in the roster's order, and there are   *)
(* no more failures than reads that failed (panels.ts, fanOut).            *)
(***************************************************************************)
THEOREM EveryAgentIsAccountedFor ==
    SoundPanel /\ DistinctRoster => (PanelSpec => []RowsAccountForRoster)
<1>. SUFFICES ASSUME SoundPanel, DistinctRoster PROVE PanelSpec => []RowsAccountForRoster
  OBVIOUS
<1>1. PanelInit => PanelInv /\ RefusalsCount
  BY PanelInitInv DEF PanelInit, RefusalsCount
<1>2. PanelInv /\ RefusalsCount /\ [PanelNext]_panelVars => PanelInv' /\ RefusalsCount'
  BY PanelNextInv, NextRefusalsCount
<1>3. PanelInv /\ RefusalsCount => RowsAccountForRoster
  BY InvRowsAccountForRoster
<1>. QED BY <1>1, <1>2, <1>3, PTL DEF PanelSpec
=============================================================================
