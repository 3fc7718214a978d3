------------------------------- MODULE Alerts -------------------------------
(***************************************************************************)
(* The dashboard's alerts: a history of events is seeded from the rows of  *)
(* the agents panel (lib/useAlertStore.ts), heuristics find what is wrong  *)
(* with it (lib/alertHeuristics.ts), and what is new is posted to a        *)
(* webhook (lib/webhookService.ts).  One agent is watched; a state change  *)
(* and the effects it causes are one step, and time passes in hours.       *)
(***************************************************************************)
EXTENDS Integers, FiniteSets, FiniteSetsExt

CONSTANTS
    History,         \* hours of history in a seed (8 in the code)
    Lookback,        \* hours the trailing average looks back (6)
    FixtureSpend,    \* the fixtures' payments of this hour
    MaxHours,        \* bound: the clock
    MaxRows,         \* bound: changes of the roster
    MaxActs          \* bound: what the operator and the live tail do

VARIABLES
    clock,
    roster,       \* the row of the agent: [average, hour, warning], or none yet
    mounted,      \* the page is on the screen
    demo,         \* the dashboard is in mock mode
    events,       \* the history
    alerts,       \* what the heuristics found
    dismissed,    \* alerts the operator has put away
    known,        \* prevAlertIds
    settings,     \* [multiplier, near, windows] and whether the webhook is on
    posts,        \* [id, round]: what was posted, and in which round
    rounds,       \* runs of the heuristics
    acts, rows

alertVars == <<clock, roster, mounted, demo, events, alerts, dismissed, known,
               settings, posts, rounds, acts, rows>>

Row == [average : 0..1, hour : {0, 3}, warning : BOOLEAN]
Defaults == [multiplier |-> 2, near |-> 2, windows |-> 2, enabled |-> FALSE]

Event(kind, ts, amount, from) == [kind |-> kind, ts |-> ts, amount |-> amount, from |-> from]

\* seedEventsForAgent; near-limit events carry the hour's transactions.
Seed(row, now) ==
    {Event("payment", now - h, row.average, "seed") : h \in 1..History}
    \cup {Event("payment", now, amount, "seed") : amount \in {FixtureSpend} \ {0}}
    \cup (IF row.warning THEN {Event("near_limit", now - h, row.hour, "seed") : h \in 0..History} ELSE {})

SeedAll(rowsNow, now) == UNION {Seed(row, now) : row \in rowsNow}

-----------------------------------------------------------------------------
(* alertHeuristics.ts                                                      *)

Alert(kind, severity, ts) == [kind |-> kind, severity |-> severity, ts |-> ts]
Spend(some) == MapThenSumSet(LAMBDA e : e.amount, some)

\* The last hour against the trailing average.
Velocity(history, limits, now) ==
    LET payments == {e \in history : e.kind = "payment"}
        recent == {e \in payments : e.ts >= now - 1}
        earlier == {e \in payments \ recent : e.ts >= now - Lookback}
        hours == Max({Lookback - 1, 1})
    IN {Alert("velocity", IF 2 * hours * Spend(recent) >= 3 * limits.multiplier * Spend(earlier)
                          THEN "critical" ELSE "warning", now) :
          e \in {e \in earlier : Spend(earlier) > 0
                                 /\ hours * Spend(recent) >= limits.multiplier * Spend(earlier)}}

\* The latest windows, all near the limit.
NearLimit(history, limits, now) ==
    LET windows == {e \in history : e.kind = "near_limit"}
        latest == {e \in windows : Cardinality({w \in windows : w.ts > e.ts}) < limits.windows}
    IN IF Cardinality(windows) >= limits.windows /\ \A e \in latest : e.amount >= limits.near
       THEN {Alert("near", "warning", now)} ELSE {}

RateLimitHits(history) == {Alert("rl", "warning", e.ts) : e \in {e \in history : e.kind = "rate_limit_hit"}}
AgentKilled(history) == {Alert("killed", "critical", e.ts) : e \in {e \in history : e.kind = "agent_killed"}}

RunAllHeuristics(history, limits, now) ==
    Velocity(history, limits, now) \cup NearLimit(history, limits, now)
    \cup RateLimitHits(history) \cup AgentKilled(history)

-----------------------------------------------------------------------------

MutantEvaluate(history, set, before) ==     \* only what is new is remembered
    LET all == RunAllHeuristics(history, set, clock) IN
    /\ alerts' = all /\ known' = all \ before
    /\ rounds' = rounds + 1
    /\ posts' = posts \cup
         (IF set.enabled THEN {[id |-> a, round |-> rounds'] : a \in all \ before} ELSE {})

\* The heuristics' effect.  fireWebhooksForAlerts: what is new is posted when
\* the webhook is on; an answer, or none, changes nothing.
Evaluate(history, set, before) ==
    LET all == RunAllHeuristics(history, set, clock) IN
    /\ alerts' = all /\ known' = all
    /\ rounds' = rounds + 1
    /\ posts' = posts \cup
         (IF set.enabled THEN {[id |-> a, round |-> rounds'] : a \in all \ before} ELSE {})

AlertsInit ==
    /\ clock = 0 /\ roster = {} /\ mounted = FALSE /\ demo \in BOOLEAN
    /\ events = {} /\ alerts = {} /\ dismissed = {} /\ known = {}
    /\ settings \in {[Defaults EXCEPT !.enabled = on] : on \in BOOLEAN}     \* localStorage
    /\ posts = {} /\ rounds = 0 /\ acts = 0 /\ rows = 0

\* The page is opened: its state is new, but for the settings.  (Its effect
\* seeds again at once; the same seeds, as the clock has not moved.)
Open ==
    /\ ~mounted /\ mounted' = TRUE
    /\ events' = SeedAll(roster, clock) /\ dismissed' = {}
    /\ Evaluate(events', settings, {})
    /\ UNCHANGED <<clock, roster, demo, settings, acts, rows>>

Gone == /\ mounted' = FALSE /\ events' = {} /\ alerts' = {} /\ known' = {} /\ dismissed' = {}

\* Another page is shown, or the demo is left for the chain: the tree is
\* unmounted until the chain's agent is there.  The demo takes the place of a
\* chain's agent without that.
Leave ==
    /\ mounted /\ Gone /\ demo' \in {demo, FALSE}
    /\ rows' = rows + 1 /\ rows < MaxRows
    /\ roster' = IF demo' = demo THEN roster ELSE {}
    /\ UNCHANGED <<clock, settings, posts, rounds, acts>>

SwitchToDemo ==
    /\ mounted /\ ~demo /\ demo' = TRUE
    /\ UNCHANGED <<clock, roster, mounted, events, alerts, dismissed, known, settings,
                   posts, rounds, acts, rows>>

\* What a new seed does not cover stays.
Kept(rebuilt) ==
    {e \in events : ~\E s \in rebuilt : s.ts = e.ts /\ s.kind = e.kind}

\* The panel answers with another row (agent:spentThisHour is the key).
RosterChanges(row) ==
    LET rebuilt == SeedAll({row}, clock) IN
    /\ rows < MaxRows /\ rows' = rows + 1
    /\ row \notin roster /\ roster' = {row}
    /\ IF mounted /\ ~\E r \in roster : r.hour = row.hour
       THEN events' = rebuilt \cup Kept(rebuilt) /\ Evaluate(events', settings, known)
       ELSE UNCHANGED <<events, alerts, known, posts, rounds>>
    /\ UNCHANGED <<clock, mounted, demo, dismissed, settings, acts>>

Happens(e) ==
    /\ mounted /\ acts < MaxActs /\ acts' = acts + 1
    /\ events' = events \cup {e}
    /\ Evaluate(events', settings, known)
    /\ UNCHANGED <<clock, roster, mounted, demo, dismissed, settings, rows>>

\* Two clicks are not at the same time.
Inject(kind) ==
    /\ roster # {}
    /\ ~\E p \in posts : p.id.kind \in {"rl", "killed"} /\ p.id.ts = clock
    /\ Happens(Event(kind, clock, 0, "operator"))

\* The interval is armed in the demo, once there is a roster.
TailRuns == demo /\ roster # {}

LiveTail == TailRuns /\ \E amount \in {0, 3} : Happens(Event("payment", clock, amount, "tail"))

\* setThresholds, setWebhookConfig
Configure ==
    /\ mounted /\ acts < MaxActs /\ acts' = acts + 1
    /\ settings' \in {[settings EXCEPT !.enabled = ~@], [settings EXCEPT !.multiplier = 3],
                      [settings EXCEPT !.near = 4, !.windows = 3]} \ {settings}
    /\ Evaluate(events, settings', known)
    /\ UNCHANGED <<clock, roster, mounted, demo, events, dismissed, rows>>

Visible == alerts \ dismissed

Dismiss ==
    /\ acts < MaxActs /\ acts' = acts + 1
    /\ \E a \in Visible : dismissed' = dismissed \cup {a}
    /\ UNCHANGED <<clock, roster, mounted, demo, events, alerts, known, settings, posts, rounds, rows>>

HourPasses ==
    /\ clock < MaxHours /\ clock' = clock + 1
    /\ UNCHANGED <<roster, mounted, demo, events, alerts, dismissed, known, settings, posts, rounds, acts, rows>>

AlertsNext ==
    \/ Open \/ Leave \/ SwitchToDemo \/ LiveTail \/ Configure \/ Dismiss \/ HourPasses
    \/ \E row \in Row : RosterChanges(row)
    \/ \E kind \in {"rate_limit_hit", "agent_killed"} : Inject(kind)

AlertsSpec == AlertsInit /\ [][AlertsNext]_alertVars

-----------------------------------------------------------------------------

\* What happened once is posted once, however often the history is seeded
\* again, the thresholds move or the webhook is switched; and the chain's
\* history has no event of the demo's live tail ("payments that never
\* happened", useAlertStore.ts).
PostedOnce ==
    /\ \A p, q \in posts : p.id = q.id /\ p.id.kind \in {"rl", "killed"} => p.round = q.round
    /\ mounted /\ ~demo => \A e \in events : e.from # "tail"

\* What the operator sees injected stays until the page is closed ("a re-seed
\* does not silently drop events the operator is looking at").
InjectedIsKept ==
    mounted /\ mounted' => {e \in events : e.from = "operator"} \subseteq events'
=============================================================================
