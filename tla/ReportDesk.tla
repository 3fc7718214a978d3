----------------------------- MODULE ReportDesk -----------------------------
(***************************************************************************)
(* An accountant at the dashboard's reports page (pages/ReportsPage.tsx),  *)
(* its client (lib/reportsApi.ts) and the indexer's query server           *)
(* (indexer/api.ts): statements with and without reconciliation, exports,  *)
(* schedules and the replay of dead letters, while requests overlap, fail  *)
(* and are answered in any order, and the delivery worker moves on.        *)
(***************************************************************************)
EXTENDS Naturals, Sequences, FiniteSets

CONSTANTS
    Subjects,        \* accounts a report may be about
    LedgerFields,    \* what may be typed for a ledger: integers, Blank
    Blank,
    MaxRequests,     \* bound: requests
    MaxEdits,        \* bound: edits of the form
    MaxDrops         \* bound: failed requests

VARIABLES
    firstAgent,      \* the first agent of the agents panel, once it is there
    form,            \* the fields of the page
    edits,
    desk,            \* what else the page keeps
    exchanges,       \* requests in flight, and what was read for them
    asked,           \* requests made so far
    server,          \* [configured, schedules, delivery, retries]: the delivery store
    drops

deskVars == <<firstAgent, form, edits, desk, exchanges, asked, server, drops>>

NoSubject == "nobody"
Nothing == [of |-> 0]
Fields == [subject : Subjects \cup {NoSubject}, from : LedgerFields, through : LedgerFields, attach : BOOLEAN]

DeskInit ==
    /\ firstAgent = NoSubject
    /\ form = [subject |-> NoSubject, from |-> Blank, through |-> Blank, attach |-> FALSE]
    /\ edits = 0 /\ asked = 0 /\ drops = 0
    /\ desk = [busy |-> FALSE, scheduleBusy |-> FALSE, statement |-> Nothing, input |-> Nothing,
               schedules |-> {}, dead |-> FALSE, error |-> FALSE]
    /\ exchanges = {}
    /\ server = [configured |-> TRUE, schedules |-> {}, delivery |-> "dead_letter", retries |-> 0]
                \/ server = [configured |-> FALSE, schedules |-> {}, delivery |-> "delivered", retries |-> 0]

-----------------------------------------------------------------------------
(* The form.                                                               *)

\* The roster lands, and is adopted unless the field has been filled in.
RosterLands(agent) ==
    /\ firstAgent = NoSubject /\ firstAgent' = agent
    /\ form' = [form EXCEPT !.subject = IF @ = NoSubject THEN agent ELSE @]
    /\ UNCHANGED <<edits, desk, exchanges, asked, server, drops>>

Edit(fields) ==
    /\ edits < MaxEdits /\ edits' = edits + 1
    /\ form' = fields
    /\ UNCHANGED <<firstAgent, desk, exchanges, asked, server, drops>>

\* requestFromFields: nothing, when it throws.
RequestFromFields(f) ==
    IF f.subject = NoSubject \/ (Blank \notin {f.from, f.through} /\ f.from > f.through)
    THEN {} ELSE {[subject |-> f.subject, from |-> f.from, through |-> f.through]}

ExportUrl == RequestFromFields(form)

Send(op, input) ==
    /\ asked < MaxRequests /\ asked' = asked + 1
    /\ exchanges' = exchanges \cup
         {[id |-> asked', op |-> op, input |-> input, at |-> "sent", reply |-> Nothing]}

\* buildPreview.  A snapshot that is not JSON, or no closing ledger to
\* reconcile at, is an error like a form that makes no request.
BuildPreview ==
    LET made == RequestFromFields(form) IN
    /\ ~desk.busy
    /\ \/ /\ made = {} \/ form.attach
          /\ desk' = [desk EXCEPT !.error = TRUE, !.statement = Nothing]
          /\ UNCHANGED <<exchanges, asked>>
       \/ \E input \in made :
            /\ form.attach => input.through # Blank
            /\ desk' = [desk EXCEPT !.busy = TRUE, !.error = FALSE, !.input = input]
            /\ Send(IF form.attach THEN "reconciled" ELSE "statement", input)
    /\ UNCHANGED <<firstAgent, form, edits, server, drops>>

\* loadSchedules asks for the schedules and the deliveries at once.
LoadSchedules ==
    /\ desk' = [desk EXCEPT !.scheduleBusy = TRUE, !.error = FALSE]
    /\ Send("list", Nothing)

Refresh ==
    /\ ~desk.scheduleBusy /\ LoadSchedules
    /\ UNCHANGED <<firstAgent, form, edits, server, drops>>

\* createSchedule: the subject of the form, whatever its period.
CreateSchedule ==
    /\ ~desk.scheduleBusy
    /\ IF form.subject = NoSubject
       THEN desk' = [desk EXCEPT !.error = TRUE] /\ UNCHANGED <<exchanges, asked>>
       ELSE desk' = [desk EXCEPT !.scheduleBusy = TRUE] /\ Send("save", [subject |-> form.subject])
    /\ UNCHANGED <<firstAgent, form, edits, server, drops>>

\* The replay button is never disabled.
Replay ==
    /\ desk.dead
    /\ desk' = [desk EXCEPT !.scheduleBusy = TRUE, !.error = FALSE]
    /\ Send("replay", Nothing)
    /\ UNCHANGED <<firstAgent, form, edits, server, drops>>

-----------------------------------------------------------------------------
(* handleRequest.                                                          *)

MutantReconciledPeriod(period, input) ==
    [from |-> period.from, through |-> IF period.through = Blank THEN input.asOf ELSE period.through]

\* The period of a reconciled statement: what the query leaves open is taken
\* from the body.
ReconciledPeriod(period, input) ==
    [from |-> IF period.from = Blank THEN input.from ELSE period.from,
     through |-> IF period.through = Blank THEN input.asOf ELSE period.through]

\* 400 when the two disagree.
Disagree(period, input) ==
    \/ Blank \notin {period.from, input.from} /\ period.from # input.from
    \/ period.through # Blank /\ period.through # input.asOf

Statement(subject, period, reconciled) ==
    [of |-> 1, subject |-> subject, period |-> period, reconciled |-> reconciled]
Refused(status) == [status |-> status]

ServeStatement(input) ==
    Statement(input.subject, [from |-> input.from, through |-> input.through], {})

\* reconcile and statement read the store one after the other, without a
\* pause.  The query string, the body, or both may name the period.
ServeReconciled(input) ==
    {LET body == [from |-> input.from, asOf |-> input.through]
         chosen == ReconciledPeriod(query, body)
         reconciled == [from |-> IF body.from = Blank THEN chosen.from ELSE body.from, through |-> body.asOf]
     IN IF Disagree(query, body) THEN Refused(400)
        ELSE Statement(input.subject, chosen, {reconciled}) :
       query \in [from : {input.from, Blank}, through : {input.through, Blank}]}

ServeList == [schedules |-> server.schedules, dead |-> server.delivery = "dead_letter"]

Served(r, reply) ==
    exchanges' = (exchanges \ {r}) \cup {[r EXCEPT !.at = "served", !.reply = reply]}
Unmoved == UNCHANGED <<firstAgent, form, edits, desk, asked, drops>>

ServeQuery(r) ==
    /\ r.at = "sent" /\ Unmoved /\ UNCHANGED server
    /\ \/ r.op = "statement" /\ Served(r, ServeStatement(r.input))
       \/ r.op = "reconciled" /\ \E reply \in ServeReconciled(r.input) : Served(r, reply)
       \/ r.op = "list" /\ Served(r, IF server.configured THEN ServeList ELSE Refused(503))
       \/ r.op \in {"save", "replay"} /\ ~server.configured /\ Served(r, Refused(503))

\* saveSchedule inserts or updates; it may find the schedule invalid: 400.
ServeSave(r) ==
    /\ r.at = "sent" /\ r.op = "save" /\ server.configured /\ Unmoved
    /\ \/ server' = [server EXCEPT !.schedules = @ \cup {r.input.subject}] /\ Served(r, [status |-> 201])
       \/ UNCHANGED server /\ Served(r, Refused(400))

MutantServeReplay(r) ==
    /\ r.at = "sent" /\ r.op = "replay" /\ server.configured /\ Unmoved
    /\ server' = [server EXCEPT !.delivery = "retry", !.retries = @ + 1]
    /\ Served(r, [status |-> 202])

\* replayDeadLetter throws, and the answer is 500, unless it is dead.
ServeReplay(r) ==
    /\ r.at = "sent" /\ r.op = "replay" /\ server.configured /\ Unmoved
    /\ IF server.delivery = "dead_letter"
       THEN /\ server' = [server EXCEPT !.delivery = "retry", !.retries = @ + 1]
            /\ Served(r, [status |-> 202])
       ELSE UNCHANGED server /\ Served(r, Refused(500))

\* The worker delivers or gives up.
WorkerMoves ==
    /\ server.delivery = "retry" /\ server.retries < 2
    /\ \E status \in {"delivered", "dead_letter"} : server' = [server EXCEPT !.delivery = status]
    /\ UNCHANGED <<firstAgent, form, edits, desk, exchanges, asked, drops>>

-----------------------------------------------------------------------------
(* responseJson: what is not ok is thrown.                                 *)

Ok(reply) == IF "status" \in DOMAIN reply THEN reply.status < 300 ELSE TRUE

MutantFailed(r) ==
    IF r.op \in {"statement", "reconciled"}
    THEN [desk EXCEPT !.error = TRUE, !.statement = Nothing, !.busy = FALSE]
    ELSE [desk EXCEPT !.error = TRUE, !.scheduleBusy = IF r.op = "list" THEN FALSE ELSE @]

\* The handlers' catch and finally.
Failed(r) ==
    IF r.op \in {"statement", "reconciled"}
    THEN [desk EXCEPT !.error = TRUE, !.statement = Nothing, !.busy = FALSE]
    ELSE [desk EXCEPT !.error = TRUE, !.scheduleBusy = FALSE]

\* A schedule that is saved, or a letter that is replayed, is listed again.
Receive(r) ==
    /\ r.at = "served"
    /\ \/ ~Ok(r.reply) /\ exchanges' = exchanges \ {r} /\ desk' = Failed(r) /\ UNCHANGED asked
       \/ /\ Ok(r.reply) /\ r.op \in {"statement", "reconciled"} /\ exchanges' = exchanges \ {r}
          /\ desk' = [desk EXCEPT !.statement = r.reply, !.busy = FALSE] /\ UNCHANGED asked
       \/ /\ Ok(r.reply) /\ r.op = "list" /\ exchanges' = exchanges \ {r}
          /\ desk' = [desk EXCEPT !.schedules = r.reply.schedules, !.dead = r.reply.dead,
                                  !.scheduleBusy = FALSE]
          /\ UNCHANGED asked
       \/ /\ Ok(r.reply) /\ r.op \in {"save", "replay"} /\ asked' = asked
          /\ desk' = [desk EXCEPT !.scheduleBusy = TRUE, !.error = FALSE]
          /\ exchanges' = (exchanges \ {r}) \cup {[r EXCEPT !.op = "list", !.at = "sent", !.reply = Nothing]}
    /\ UNCHANGED <<firstAgent, form, edits, server, drops>>

Drop(r) ==
    /\ drops < MaxDrops /\ drops' = drops + 1
    /\ exchanges' = exchanges \ {r} /\ desk' = Failed(r)
    /\ UNCHANGED <<firstAgent, form, edits, asked, server>>

DeskNext ==
    \/ \E agent \in Subjects : RosterLands(agent)
    \/ \E fields \in Fields : Edit(fields)
    \/ BuildPreview \/ Refresh \/ CreateSchedule \/ Replay \/ WorkerMoves
    \/ \E r \in exchanges : ServeQuery(r) \/ ServeSave(r) \/ ServeReplay(r) \/ Receive(r) \/ Drop(r)

DeskSpec == DeskInit /\ [][DeskNext]_deskVars

\* Requests are served and answered.
DeskStep ==
    \E r \in exchanges : ServeQuery(r) \/ ServeSave(r) \/ ServeReplay(r) \/ Receive(r)

\* The page shows a statement, or asks for one to be built.
StatementShown == desk.statement # Nothing

-----------------------------------------------------------------------------

\* Once answered, the statement on the screen is the one asked for last, of the subject
\* and the period that were then in the form, however the form was edited
\* meanwhile; and a statement that carries a reconciliation covers exactly the
\* ledgers that were reconciled (ReportsPage, buildPreview; api.ts, "statement
\* closing ledger must equal reconciliation asOfLedger").
StatementIsAsAsked ==
    ~desk.busy /\ StatementShown =>
      /\ desk.statement.subject = desk.input.subject
      /\ desk.statement.period = [from |-> desk.input.from, through |-> desk.input.through]
      /\ \A reconciled \in desk.statement.reconciled : reconciled = desk.statement.period

\* A dead letter is retried once for each time it died, although the button
\* can be pressed again while an earlier replay, or an old list, is under way
\* (replayDeadLetter, "is not dead-lettered").
ReplayIsOfTheDead ==
    server'.retries > server.retries =>
        server.delivery = "dead_letter" /\ server'.retries = server.retries + 1

\* Whatever fails, no control of the page stays disabled for ever: busy leads
\* to not busy.
Busy == desk.busy \/ desk.scheduleBusy
============================================================================
