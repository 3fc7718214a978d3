----------------------------- MODULE MCServices -----------------------------
(***************************************************************************)
(* A behaviour exercises one service or application around the SDK, chosen *)
(* at the start: the sponsor, the deployment, the dashboard's panels, its  *)
(* reports page and its alerts, the indexer's stores and health, the tools *)
(* of an agent framework, or a subscription to events.  All but the        *)
(* sponsor keep their variables in slots, which are 0 when unused.         *)
(***************************************************************************)
EXTENDS Sponsorship

CONSTANTS
    Operators, MaxRuns, Identities, Tries, MaxSeeds, Unresolved, Torn, Fallback, Elsewhere,
    MaxSwitches, MaxPays, MaxInFlight, MaxErrors, MaxClicks,
    Top, MaxCalls, Absent,
    Heads, RollbackWindow, FinalityLag, IndexRuns, MaxRestarts, Unknown,
    Subjects, LedgerFields, Blank, MaxRequests, MaxEdits,
    History, Lookback, FixtureSpend, MaxHours, MaxRows, MaxActs,
    ToolCalls, Budget, MaxPrice,
    Limit, Period, HourLimits, Amounts, Deadline, LedgersPerHour, EventPageSize,
    LastLedger, MaxPayments, MaxFailures, Unread, Broken,
    PageSize, MaxEvents, MaxFaults, MaxResumes

VARIABLES mode, s1, s2, s3, s4, s5, s6, s7, s8, s9, s10, s11, s12, s13

Dashboard == INSTANCE Screen WITH
    page <- s1, storedMode <- s2, config <- s3, agent <- s4, creations <- s5,
    poll <- s6, requests <- s7, payments <- s8, spent <- s9, errors <- s10,
    clicks <- s11

Rollout == INSTANCE Deployment WITH
    script <- s1, chain <- s2, published <- s3, harness <- s4, funded <- s5,
    snapshots <- s6, env <- s7, created <- s8

Stores == INSTANCE EventStores WITH
    tables <- s1, maps <- s2, storeCalls <- s3, torn <- s4

Health == INSTANCE IndexerHealth WITH
    checkpoint <- s1, stored <- s2, run <- s3, progress <- s4, seen <- s5,
    restarts <- s6, Replays <- {2}

Desk == INSTANCE ReportDesk WITH
    firstAgent <- s1, form <- s2, edits <- s3, desk <- s4, exchanges <- s5,
    asked <- s6, server <- s7, drops <- s8, MaxDrops <- MaxErrors

Alarm == INSTANCE Alerts WITH
    clock <- s1, roster <- s2, mounted <- s3, demo <- s4, events <- s5,
    alerts <- s6, dismissed <- s7, known <- s8, settings <- s9, posts <- s10,
    rounds <- s11, acts <- s12, rows <- s13

Kit == INSTANCE Tools WITH
    policy <- s1, sessionSpent <- s2, auditLog <- s3, toolCalls <- s4,
    landed <- s5, traces <- s6, overlapped <- s7

\* Two watched agents, one of them with a channel.
SomeWatched == <<[id |-> "a", channel |-> TRUE], [id |-> "b", channel |-> FALSE]>>

Panel == INSTANCE AgentPanel WITH
    ledger <- s1, contracts <- s2, payments <- s3, reads <- s4, panel <- s5,
    clock <- s6, chart <- s7, refusals <- s8, page <- s9,
    Watched <- SomeWatched, Buckets <- 1, NoRecord <- Absent, MaxRefusals <- MaxFailures

Watch == INSTANCE EventWatcher WITH
    log <- s1, watcher <- s2, saved <- s3, calls <- s4, handled <- s5,
    faults <- s6, resumed <- s7

mcVars == <<mode, sponsorVars, s1, s2, s3, s4, s5, s6, s7, s8, s9, s10, s11, s12, s13>>

slotsFrom5 == <<s5, s6, s7, s8, s9, s10, s11, s12, s13>>
slotsFrom7 == <<s7, s8, s9, s10, s11, s12, s13>>
slotsFrom9 == <<s9, s10, s11, s12, s13>>
EmptyFrom9 == s9 = 0 /\ s10 = 0 /\ s11 = 0 /\ s12 = 0 /\ s13 = 0
EmptyFrom7 == s7 = 0 /\ s8 = 0 /\ EmptyFrom9
EmptyFrom5 == s5 = 0 /\ s6 = 0 /\ EmptyFrom7

MCInit ==
    /\ SponsorInit
    /\ \/ mode = "sponsor" /\ s1 = 0 /\ s2 = 0 /\ s3 = 0 /\ s4 = 0 /\ EmptyFrom5
       \/ /\ Len(replies) = 0 /\ account = [a \in Targets |-> "missing"]
          /\ \/ mode = "dashboard" /\ Dashboard!ScreenInit /\ s12 = 0 /\ s13 = 0
             \/ mode = "deployment" /\ Rollout!DeployInit /\ EmptyFrom9
             \/ mode = "stores" /\ Stores!StoresInit /\ EmptyFrom5
             \/ mode = "health" /\ Health!HealthInit /\ EmptyFrom7
             \/ mode = "reports" /\ Desk!DeskInit /\ EmptyFrom9
             \/ mode = "alerts" /\ Alarm!AlertsInit
             \/ mode = "tools" /\ Kit!ToolsInit /\ s8 = 0 /\ EmptyFrom9
             \/ mode = "watch" /\ Watch!WatchInit /\ s8 = 0 /\ EmptyFrom9
             \/ mode = "panel" /\ Panel!PanelInit /\ s10 = 0 /\ s11 = 0 /\ s12 = 0 /\ s13 = 0

MCNext ==
    /\ UNCHANGED mode
    /\ \/ mode = "sponsor" /\ SponsorNext /\ UNCHANGED <<s1, s2, s3, s4, slotsFrom5>>
       \/ /\ UNCHANGED sponsorVars
          /\ \/ mode = "dashboard" /\ Dashboard!ScreenNext /\ UNCHANGED <<s12, s13>>
             \/ mode = "deployment" /\ Rollout!DeployNext /\ UNCHANGED slotsFrom9
             \/ mode = "stores" /\ Stores!StoresNext /\ UNCHANGED slotsFrom5
             \/ mode = "health" /\ Health!HealthNext /\ UNCHANGED slotsFrom7
             \/ mode = "reports" /\ Desk!DeskNext /\ UNCHANGED slotsFrom9
             \/ mode = "alerts" /\ Alarm!AlertsNext
             \/ mode = "tools" /\ Kit!ToolsNext /\ UNCHANGED <<s8, slotsFrom9>>
             \/ mode = "watch" /\ Watch!WatchNext /\ UNCHANGED <<s8, slotsFrom9>>
             \/ mode = "panel" /\ Panel!PanelNext /\ UNCHANGED <<s10, s11, s12, s13>>

\* What is polled, read and paid is answered; requests are served; the sponsor
\* goes on with the lifecycle that runs, and a subscription with its page.  As
\* a behaviour keeps to one mode, a single condition covers a step of each.
OnDashboard(Step) == mode = "dashboard" /\ Step /\ UNCHANGED <<s12, s13>>
GoesOn ==
    /\ UNCHANGED mode
    /\ \/ mode = "sponsor" /\ ServiceStep /\ UNCHANGED <<s1, s2, s3, s4, slotsFrom5>>
       \/ /\ UNCHANGED sponsorVars
          /\ \/ OnDashboard(Dashboard!Tick)
             \/ mode = "reports" /\ Desk!DeskStep /\ UNCHANGED slotsFrom9
             \/ mode = "watch" /\ Watch!WatchStep /\ UNCHANGED <<s8, slotsFrom9>>

MCSpec ==
    /\ MCInit /\ [][MCNext]_mcVars
    /\ WF_mcVars(GoesOn)
    /\ WF_mcVars(UNCHANGED <<mode, sponsorVars>> /\ OnDashboard(Dashboard!ReadsAnswered))
    /\ WF_mcVars(UNCHANGED <<mode, sponsorVars>> /\ OnDashboard(Dashboard!PaymentsSettle))

\* What is published, and what the harness and an agent take up, is a whole
\* deployment, wired in the order deploy.ts asks for.
DeploymentIsSound ==
    mode = "deployment" =>
        Rollout!PublishedIsWired /\ Rollout!BreakerComesFirst /\ Rollout!HarnessIsReady

\* The dashboard shows what belongs to its mode and what was asked for, and
\* posts once what happened once.
ScreenIsHonest ==
    /\ mode = "dashboard" => Dashboard!ScreenIsOfItsMode /\ Dashboard!ConnectingMeansConnecting
    /\ mode = "panel" => Panel!RowsAccountForRoster /\ Panel!RoomWithoutWarning
                         /\ Panel!WhatIsOverIsOver /\ Panel!SeriesAddsUp /\ Panel!HeadroomIsExact
    /\ mode = "reports" => Desk!StatementIsAsAsked
    /\ mode = "alerts" => Alarm!PostedOnce

\* The two stores, the health endpoint and the metrics give one picture of
\* what is indexed, and a subscription hands on what the ledger emitted.
ReadersAreServed ==
    /\ mode = "watch" => Watch!PassedIsDelivered /\ Watch!RepeatsAreExplained
    /\ mode = "stores" => Stores!StoresAgree /\ Stores!PagesAreComplete /\ Stores!LatestIsReported
    /\ mode = "health" => Health!LagIsNotUnderstated /\ Health!HealthAndMetricsAgree

\* The tools' payments keep to the policy, and their traces resolve.
PolicyIsKept ==
    mode = "tools" => Kit!BudgetIsKept /\ Kit!PaymentsArePermitted /\ Kit!TracesResolve

\* Readings never go back, a letter is replayed only when dead, and what the
\* operator injected stays.
StepsAreLawful ==
    [][/\ mode = "dashboard" => Dashboard!ReadingMovesForward
       /\ mode = "reports" => Desk!ReplayIsOfTheDead
       /\ mode = "alerts" => Alarm!InjectedIsKept]_mcVars

\* Lifecycles of the sponsor end, the screen catches up with the ledger, no
\* control of the reports page stays disabled, and a subscription that goes on
\* hands on every event.
Awaited ==
    \/ mode = "sponsor" /\ asked # <<>>
    \/ mode = "reports" /\ Desk!Busy
    \/ mode = "watch" /\ Watch!Undelivered
WhatIsAwaitedComes ==
    /\ Awaited ~> ~Awaited
    /\ <>[](mode = "dashboard" => Dashboard!CaughtUp)
=============================================================================
