------------------------------- MODULE Screen -------------------------------
(***************************************************************************)
(* A browser that watches an agent: the dashboard resolves its mode and    *)
(* configuration and builds the agent for it (dashboard/src/lib/chain),    *)
(* the hooks of packages/react poll what the agent reads, and payments in  *)
(* flight are laid over the polled spending.                               *)
(*                                                                         *)
(* A render and the effects it runs are one step.  What is polled is the   *)
(* spending of the period, for brevity one number for chain and demo.      *)
(***************************************************************************)
EXTENDS Naturals, FiniteSets

CONSTANTS
    MaxSwitches,     \* bound: mode switches
    MaxPays,         \* bound: payments
    MaxInFlight,     \* bound: requests in flight
    MaxErrors,       \* bound: failed requests
    MaxClicks        \* bound: refetches asked for

VARIABLES
    page,        \* what does not change: the URL's mode, storage, settings made
    storedMode,  \* the mode in localStorage
    config,      \* [mode, problems, version]
    agent,       \* the agent in state: whose configuration it was built for
    creations,   \* configurations an agent is being built for
    poll,        \* [data, status, timer]: state of usePolling
    requests,    \* reads in flight
    payments,    \* calls of payForAPI
    spent,       \* what the ledger says was spent
    errors,
    clicks

screenVars ==
    <<page, storedMode, config, agent, creations, poll, requests, payments, spent, errors, clicks>>

Modes == {"mock", "chain"}
Unset == "unset"
None == 0
NeededSettings == {"viewerKey", "contracts"}
Idle == [data |-> <<>>, status |-> "idle", timer |-> FALSE]

-----------------------------------------------------------------------------
(* config.ts                                                               *)

\* The query parameter, then what was stored, then the environment.
ResolveMode(inStorage, environment) ==
    CASE page.query # Unset -> page.query
      [] page.query = Unset /\ page.storage /\ inStorage # Unset -> inStorage
      [] OTHER -> environment

\* readDashboardConfig: the checklist is that of the mode.
Problems(mode) == IF mode = "chain" /\ page.settings # NeededSettings THEN {"checklist"} ELSE {}

ReadDashboardConfig(inStorage, environment, version) ==
    LET mode == ResolveMode(inStorage, environment)
    IN [mode |-> mode, problems |-> Problems(mode), version |-> version]

-----------------------------------------------------------------------------
(* DashboardProvider.tsx                                                   *)

\* The effects of a new configuration: the demo's agent is there at once, an
\* agent of the chain is created, and whatever polled the old one is undone.
\* The panels stay mounted, with their data, when one agent replaces another.
Mount(c) ==
    LET stay == c.mode = "mock" /\ agent # None IN
    /\ config' = c
    /\ agent' = IF c.mode = "mock" THEN c.version ELSE None
    /\ creations' = creations \cup (IF c.mode = "chain" /\ "viewerKey" \in page.settings THEN {c.version} ELSE {})
    /\ requests' = {[r EXCEPT !.current = FALSE, !.ticks = FALSE] : r \in requests}
    /\ poll' = [IF stay THEN poll ELSE Idle EXCEPT !.timer = (c.mode = "mock")]
    /\ payments' = IF stay THEN payments ELSE {[p EXCEPT !.laid = FALSE] : p \in payments}

\* All settings are there, or addresses or all of them are missing.
ScreenInit ==
    /\ page \in [query : {Unset, "mock"}, storage : BOOLEAN,
                settings : {{}, {"viewerKey"}, NeededSettings}]
    /\ storedMode = Unset
    /\ config = ReadDashboardConfig(Unset, "chain", 1)
    /\ agent = IF config.mode = "mock" THEN 1 ELSE None
    /\ creations = IF config.mode = "chain" /\ "viewerKey" \in page.settings THEN {1} ELSE {}
    /\ poll = [Idle EXCEPT !.timer = (config.mode = "mock")]
    /\ requests = {} /\ payments = {} /\ spent = 0 /\ errors = 0 /\ clicks = 0

MutantSetMode(mode) ==
    /\ config.version <= MaxSwitches
    /\ storedMode' = IF page.storage THEN mode ELSE storedMode
    /\ Mount([config EXCEPT !.mode = mode, !.version = @ + 1])
    /\ UNCHANGED <<page, spent, errors, clicks>>

\* The mode is stored, and the whole configuration is read again.
SetMode(mode) ==
    /\ config.version <= MaxSwitches
    /\ storedMode' = IF page.storage THEN mode ELSE storedMode
    /\ Mount(ReadDashboardConfig(storedMode', mode, config.version + 1))
    /\ UNCHANGED <<page, spent, errors, clicks>>

\* StellarAgent.create answers; the effect's clean-up set cancelled when the
\* configuration changed.
Created(v) ==
    /\ v \in creations /\ creations' = creations \ {v}
    /\ IF v = config.version
       THEN agent' = v /\ poll' = [poll EXCEPT !.timer = (config.problems = {})]
       ELSE UNCHANGED <<agent, poll>>
    /\ UNCHANGED <<page, storedMode, config, requests, payments, spent, errors, clicks>>

CreateFails(v) ==
    /\ v \in creations /\ errors < MaxErrors
    /\ creations' = creations \ {v} /\ errors' = errors + 1
    /\ config' = IF v = config.version
                 THEN [config EXCEPT !.problems = {"agentError"}] ELSE config
    /\ UNCHANGED <<page, storedMode, agent, poll, requests, payments, spent, clicks>>

\* DashboardAgentBoundary
Boundary ==
    CASE config.problems # {} -> "explanation"
      [] config.problems = {} /\ agent = None -> "connecting"
      [] OTHER -> "panels"

-----------------------------------------------------------------------------
(* usePolling.  A request that is not the last one issued is not current;  *)
(* the one that ticks re-arms the timer when it is answered.               *)

Panels == Boundary = "panels" /\ agent # None

Issue(ticks) ==
    /\ Panels /\ Cardinality(requests) < MaxInFlight
    /\ requests' = {[r EXCEPT !.current = FALSE] : r \in requests}
                   \cup {[agent |-> agent, value |-> None, read |-> FALSE, current |-> TRUE, ticks |-> ticks]}

Tick ==
    /\ poll.timer /\ Issue(TRUE)
    /\ poll' = [poll EXCEPT !.timer = FALSE, !.status = "loading"]
    /\ UNCHANGED <<page, storedMode, config, agent, creations, payments, spent, errors, clicks>>

Refetch ==
    /\ clicks < MaxClicks /\ clicks' = clicks + 1
    /\ Issue(FALSE)
    /\ poll' = [poll EXCEPT !.status = "loading"]
    /\ UNCHANGED <<page, storedMode, config, agent, creations, payments, spent, errors>>

\* The RPC reads the ledger for a request, some time before its answer.
Read(r) ==
    /\ ~r.read
    /\ requests' = (requests \ {r}) \cup {[r EXCEPT !.read = TRUE, !.value = spent]}
    /\ UNCHANGED <<page, storedMode, config, agent, creations, poll, payments, spent, errors, clicks>>

MutantApplies(r) == TRUE
Applies(r) == r.current

Conclude(r, next) ==
    /\ requests' = requests \ {r}
    /\ poll' = [IF Applies(r) THEN next ELSE poll EXCEPT !.timer = @ \/ r.ticks]
    /\ UNCHANGED <<page, storedMode, config, agent, creations, payments, spent, clicks>>

Respond(r) ==
    /\ r.read
    /\ Conclude(r, [poll EXCEPT !.data = <<r.agent, r.value>>, !.status = "ready"])
    /\ UNCHANGED errors

\* An error keeps the data.
ReadFails(r) ==
    /\ errors < MaxErrors
    /\ Conclude(r, [poll EXCEPT !.status = "error"])
    /\ errors' = errors + 1

-----------------------------------------------------------------------------
(* usePayForAPI: the amount is pending until the call settles, which makes *)
(* every report refetch at once.                                           *)

Pay ==
    /\ Panels /\ Cardinality(payments) < MaxPays
    /\ payments' = payments \cup {[id |-> Cardinality(payments), at |-> "sent", laid |-> TRUE]}
    /\ UNCHANGED <<page, storedMode, config, agent, creations, poll, requests, spent, errors, clicks>>

Land(p) ==
    /\ p.at = "sent" /\ payments' = (payments \ {p}) \cup {[p EXCEPT !.at = "landed"]}
    /\ spent' = spent + 1
    /\ UNCHANGED <<page, storedMode, config, agent, creations, poll, requests, errors, clicks>>

\* A new fetcher: the old loop ends, its request is void, the next one starts.
\* Nothing happens in panels that are gone.
Settle(p) ==
    /\ p.at \in {"sent", "landed"}
    /\ payments' = (payments \ {p}) \cup {[p EXCEPT !.at = "settled"]}
    /\ IF p.laid
       THEN /\ requests' = {[r EXCEPT !.current = FALSE, !.ticks = FALSE] : r \in requests}
            /\ poll' = [poll EXCEPT !.timer = TRUE]
       ELSE UNCHANGED <<requests, poll>>
    /\ UNCHANGED <<page, storedMode, config, agent, creations, spent, errors, clicks>>

Pending == {p \in payments : p.laid /\ p.at # "settled"}

\* useSpendReport, applyPending: each payment of amount 1.
Shown == poll.data[2] + Cardinality(Pending)

ScreenNext ==
    \/ \E mode \in Modes : SetMode(mode)
    \/ \E v \in creations : Created(v) \/ CreateFails(v)
    \/ Tick \/ Refetch \/ Pay
    \/ \E r \in requests : Read(r) \/ Respond(r) \/ ReadFails(r)
    \/ \E p \in payments : Land(p) \/ Settle(p)

ScreenSpec == ScreenInit /\ [][ScreenNext]_screenVars

\* Besides the timer firing, what is fair.
ReadsAnswered == \E r \in requests : Read(r) \/ Respond(r)
PaymentsSettle == \E p \in payments : Settle(p)

-----------------------------------------------------------------------------

\* The agent that is read belongs to the configuration the operator sees, and
\* so do the numbers shown for the chain, however agents that were asked for
\* before a switch arrive (DashboardProvider.tsx, "how a demo ends up quietly polling
\* mainnet").
ScreenIsOfItsMode ==
    /\ agent # None => agent = config.version
    /\ poll.data # <<>> /\ config.mode = "chain" => poll.data[1] = agent

\* "Connecting…" is shown only while something connects: a configuration that
\* cannot be used is explained, in whatever order the modes were switched.
ConnectingMeansConnecting ==
    Boundary = "connecting" => config.version \in creations

\* Between answers that arrive in any order, are overtaken by a refetch or
\* voided by a payment, the spending shown for an agent never falls back to
\* an older reading (usePolling, "no stale-response races").
ReadingMovesForward ==
    poll.data # <<>> /\ poll'.data # <<>> /\ poll.data[1] = poll'.data[1]
        => poll'.data[2] >= poll.data[2]

\* Once payments and refetches stop, the report comes to what the ledger says and counts
\* nothing twice (useSpendReport, "reconciles automatically").
CaughtUp ==
    Panels => poll.data # <<>> /\ poll.data[1] = agent /\ Shown = spent
=============================================================================
