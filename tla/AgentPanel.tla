----------------------------- MODULE AgentPanel -----------------------------
(***************************************************************************)
(* The dashboard's panels (dashboard/src/lib/chain/panels.ts) and the view *)
(* models they show (views.ts, rateLimitView.ts).  A row of the agents     *)
(* panel is put together from reads that are answered one by one, while    *)
(* the chain moves on; some of them fail.  Amounts are in thousandths of   *)
(* an asset, and are shown in hundredths.                                  *)
(***************************************************************************)
EXTENDS Integers, Sequences, FiniteSets, SequencesExt, FiniteSetsExt

CONSTANTS
    Watched,         \* the roster: a sequence of [id, channel]
    Limit, Period,   \* of the channels
    HourLimits,      \* what a rate limiter may allow per hour, or Absent
    Amounts,         \* of payments
    Deadline,        \* of the job that is watched
    LedgersPerHour,
    Buckets,         \* hours in the spend chart
    EventPageSize,   \* events the indexer is asked for
    LastLedger, MaxPayments, MaxRefusals,   \* bounds
    Unread, Broken, NoRecord

VARIABLES
    ledger,
    contracts,       \* contracts[id]: the agent's channel and rate limiter
    payments,        \* payments made, as the indexer stores them
    reads,           \* reads[id][query], while the agents panel is fetched
    panel,           \* [rows, failures] of the agents panel
    clock,           \* useLedgerClock: the ledger as last polled
    chart,           \* the chart's events, and the ledger the page was opened at
    refusals,        \* reads that failed
    page             \* the page that is open: its panels are the ones that poll

panelVars == <<ledger, contracts, payments, reads, panel, clock, chart, refusals, page>>

AgentIds == {Watched[i].id : i \in DOMAIN Watched}

\* The reads a row shows.  Its balance is 0 when it cannot be read, and the
\* close time that is read as well is not shown.
Queries == {"limits", "channel"}
NoPanel == [rows |-> <<>>, failures |-> <<>>]

PanelInit ==
    /\ ledger = 0 /\ clock = NoRecord /\ payments = <<>> /\ reads = <<>> /\ refusals = 0
    /\ page \in {"agents", "payments"}
    /\ panel = NoPanel /\ chart = [events |-> <<>>, opened |-> 0]
    /\ \E hourLimit \in HourLimits :
         contracts = [id \in AgentIds |->
           LET watched == CHOOSE w \in ToSet(Watched) : w.id = id IN
           [channel |-> IF watched.channel THEN [active |-> TRUE, spent |-> 0, start |-> 0] ELSE NoRecord,
            limiter |-> IF watched.channel /\ hourLimit # NoRecord THEN [max |-> hourLimit, spent |-> 0] ELSE NoRecord]]

-----------------------------------------------------------------------------
(* The chain.                                                              *)

LedgerCloses ==
    /\ ledger < LastLedger /\ ledger' = ledger + 1
    /\ UNCHANGED <<contracts, payments, reads, panel, clock, chart, refusals, page>>

Rolled(channel) ==
    IF ledger >= channel.start + Period THEN [channel EXCEPT !.spent = 0, !.start = ledger] ELSE channel

Charged(record, amount) == [record EXCEPT !.spent = @ + amount]

\* A payment out of a channel, which the rate limiter is told of.
Pay(id, amount) ==
    LET paid == Rolled(contracts[id].channel) IN
    /\ Len(payments) < MaxPayments
    /\ contracts[id].channel # NoRecord /\ paid.active /\ paid.spent + amount <= Limit
    /\ contracts' = [contracts EXCEPT ![id] =
         [channel |-> Charged(paid, amount),
          limiter |-> IF @.limiter = NoRecord THEN NoRecord ELSE Charged(@.limiter, amount)]]
    /\ payments' = Append(payments, [agent |-> id, ledger |-> ledger, amount |-> amount])
    /\ UNCHANGED <<ledger, reads, panel, clock, chart, refusals, page>>

Close(id) ==
    /\ contracts[id].channel # NoRecord /\ contracts[id].channel.active
    /\ contracts' = [contracts EXCEPT ![id].channel.active = FALSE]
    /\ UNCHANGED <<ledger, payments, reads, panel, clock, chart, refusals, page>>

-----------------------------------------------------------------------------
(* views.ts                                                                *)

Fmt(amount) == amount - (amount % 10)

Percent(value, total) == IF total = 0 THEN 0 ELSE (100 * value) \div total

AgentStatus(spent, limit, active) ==
    IF ~active THEN "inactive" ELSE IF Percent(spent, limit) >= 80 THEN "warning" ELSE "active"

\* The rate limiter's hour where there is one, else the channel's period.
ToAgentView(id, channel, limits) ==
    LET of == IF limits # NoRecord THEN [limit |-> limits.max, spent |-> limits.spent]
              ELSE IF channel # NoRecord THEN [limit |-> Limit, spent |-> channel.spent]
              ELSE [limit |-> 0, spent |-> 0]
    IN [id |-> id, channel |-> channel, limits |-> limits,
        status |-> AgentStatus(Fmt(of.spent), Fmt(of.limit), channel = NoRecord \/ channel.active)]

ToJobView(at) == IF Deadline - at > 0 THEN "open" ELSE "expired"

LedgersUntilPeriodReset(channel, at) == Max({0, channel.start + Period - at})

HourOf(at) == at \div LedgersPerHour

\* A point per hour; what is later than the chart, or earlier, is left out.
ToSpendSeries(events, now) ==
    [i \in 1..Buckets |->
       LET held == {k \in DOMAIN events : HourOf(now) - HourOf(events[k].ledger) = Buckets - i}
       IN [ops |-> Cardinality(held), spend |-> MapThenSumSet(LAMBDA k : events[k].amount, held)]]

\* rateLimitView.ts: a ceiling of zero is shown as none.
AmountRow(limit, spent) ==
    [unset |-> limit = 0, headroom |-> Max({0, limit - spent}),
     used |-> IF limit = 0 THEN 0 ELSE Percent(spent, limit),
     exhausted |-> limit # 0 /\ limit - spent <= 0]

-----------------------------------------------------------------------------
(* panels.ts                                                               *)

StartFetch ==
    /\ page = "agents" /\ reads = <<>>
    /\ reads' = [id \in AgentIds |-> [q \in Queries |-> Unread]]
    /\ UNCHANGED <<ledger, contracts, payments, panel, clock, chart, refusals, page>>

Answer(id, query) ==
    IF query = "channel" THEN contracts[id].channel ELSE contracts[id].limiter

Read(id, query) ==
    /\ reads # <<>> /\ reads[id][query] = Unread
    /\ reads' = [reads EXCEPT ![id][query] = Answer(id, query)]
    /\ UNCHANGED <<ledger, contracts, payments, panel, clock, chart, refusals, page>>

ReadFails(id, query) ==
    /\ reads # <<>> /\ reads[id][query] = Unread /\ refusals < MaxRefusals
    /\ refusals' = refusals + 1
    /\ reads' = [reads EXCEPT ![id][query] = Broken]
    /\ UNCHANGED <<ledger, contracts, payments, panel, clock, chart, page>>

Rejected(id) == \E q \in Queries : reads[id][q] = Broken
Settled(id) == Rejected(id) \/ \A q \in Queries : reads[id][q] # Unread

MutantOutcome(acc, id, order) ==
    IF Rejected(id)
    THEN [acc EXCEPT !.failures = Append(@, order[Len(acc.failures) + 1])]
    ELSE [acc EXCEPT !.rows = Append(@, ToAgentView(id, reads[id]["channel"], reads[id]["limits"]))]

\* The outcome of one agent joins those before it; the id of one that was
\* rejected is found by its place.
Outcome(acc, id, order) ==
    IF Rejected(id)
    THEN [acc EXCEPT !.failures = Append(@, order[Len(acc.failures) + Len(acc.rows) + 1])]
    ELSE [acc EXCEPT !.rows = Append(@, ToAgentView(id, reads[id]["channel"], reads[id]["limits"]))]

\* fanOut: the outcomes in the order of the roster.
FanOut(order) ==
    LET upTo[n \in 0..Len(order)] ==
          IF n = 0 THEN NoPanel ELSE Outcome(upTo[n - 1], order[n], order)
    IN upTo[Len(order)]

\* Every agent has settled: the panel is replaced as a whole.
FetchEnds ==
    /\ reads # <<>> /\ \A id \in AgentIds : Settled(id)
    /\ panel' = FanOut([i \in DOMAIN Watched |-> Watched[i].id])
    /\ reads' = <<>>
    /\ UNCHANGED <<ledger, contracts, payments, clock, chart, refusals, page>>

PollClock ==
    /\ page = "agents" /\ clock' = ledger
    /\ UNCHANGED <<ledger, contracts, payments, reads, panel, chart, refusals, page>>

\* usePaymentsPanel: the page of events the indexer answers with; the time
\* of the chart is that of the page being opened.
PollPayments ==
    /\ page = "payments"
    /\ chart' = [chart EXCEPT !.events = SubSeq(payments, 1, Min({EventPageSize, Len(payments)}))]
    /\ UNCHANGED <<ledger, contracts, payments, reads, panel, clock, refusals, page>>

OpenPage ==
    /\ page = "payments"
    /\ chart' = [events |-> <<>>, opened |-> ledger]
    /\ UNCHANGED <<ledger, contracts, payments, reads, panel, clock, refusals, page>>

PanelNext ==
    \/ LedgerCloses \/ StartFetch \/ FetchEnds \/ PollClock \/ PollPayments \/ OpenPage
    \/ \E id \in AgentIds :
         \/ Close(id)
         \/ \E amount \in Amounts : Pay(id, amount)
         \/ \E query \in Queries : Read(id, query) \/ ReadFails(id, query)

PanelSpec == PanelInit /\ [][PanelNext]_panelVars

\* The contracts refuse amounts and limits that are not positive; the other
\* constants mark what is no record of a contract.
SoundPanel ==
    /\ Watched \in Seq([id : AgentIds, channel : BOOLEAN])
    /\ {Limit, Period, Deadline, LastLedger, MaxRefusals} \subseteq Nat /\ Limit > 0
    /\ Amounts \subseteq Nat /\ HourLimits \ {NoRecord} \subseteq Nat
    /\ Unread # Broken /\ NoRecord \notin {Unread, Broken}
    /\ \A mark \in {Unread, Broken, NoRecord} :
         mark \notin [active : BOOLEAN, spent : Nat, start : Nat] \cup [max : Nat, spent : Nat]

\* The roster names no agent twice.
DistinctRoster == \A i, j \in DOMAIN Watched : Watched[i].id = Watched[j].id => i = j

-----------------------------------------------------------------------------

Rows == ToSet(panel.rows)
Series == ToSpendSeries(chart.events, chart.opened)

\* One agent that cannot be read does not blank the others: every agent of
\* the roster is a row or a named failure, never both, in the roster's order,
\* and the number of failures is never more than that of the reads that failed
\* (panels.ts, "one unreachable address must not blank a table of fifty").
RowsAccountForRoster ==
    panel # NoPanel =>
      LET shown == [i \in DOMAIN panel.rows |-> panel.rows[i].id] IN
      /\ Len(shown) + Len(panel.failures) = Len(Watched)
      /\ ToSet(shown) \cup ToSet(panel.failures) = AgentIds
      /\ Len(panel.failures) <= refusals
      /\ \E place \in [AgentIds -> DOMAIN Watched] :
           /\ \A id \in AgentIds : Watched[place[id]].id = id
           /\ \A i, j \in DOMAIN shown : i < j => place[shown[i]] < place[shown[j]]

\* Who is shown without a warning had room for another fifth of the limit in
\* the records that were read, whatever else happened while the row was put
\* together and although amounts are cut to hundredths, for limits of whole
\* twentieths; and who is shown inactive stays closed (views.ts, agentStatus).
RoomWithoutWarning ==
    \A row \in Rows :
      /\ row.status = "active" /\ row.limits # NoRecord /\ row.limits.max % 50 = 0 /\ row.limits.max > 0 =>
           5 * row.limits.spent < 5 * row.limits.max - row.limits.max
      /\ row.status = "active" /\ row.limits = NoRecord /\ row.channel # NoRecord /\ Limit % 50 = 0 =>
           5 * row.channel.spent < 5 * Limit - Limit
      /\ row.status = "inactive" <=> row.channel # NoRecord /\ ~row.channel.active
      /\ row.status = "inactive" => ~contracts[row.id].channel.active

\* A window that is shown as over is over on the chain, at whatever age the
\* polled clock has: a job shown as expired can be refunded and no longer
\* accepted, and a period that has no ledgers left is reset by the next payment
\* (views.ts, "the number a payment will be judged against").
WhatIsOverIsOver ==
    clock # NoRecord =>
      /\ ToJobView(clock) = "expired" => ledger >= Deadline
      /\ \A row \in Rows :
           /\ row.channel # NoRecord /\ LedgersUntilPeriodReset(row.channel, clock) = 0
           /\ contracts[row.id].channel.start = row.channel.start
           => Rolled(contracts[row.id].channel).spent = 0

\* The chart accounts once for each payment of its hours, as long as the
\* indexer's page holds them all, and for nothing else (toSpendSeries).
SeriesAddsUp ==
    LET Recent(k) == HourOf(chart.opened) - HourOf(chart.events[k].ledger) \in 0..(Buckets - 1)
        recent == {k \in DOMAIN chart.events : Recent(k)}
        points == 1..Buckets
    IN /\ MapThenSumSet(LAMBDA i : Series[i].ops, points) = Cardinality(recent)
       /\ MapThenSumSet(LAMBDA i : Series[i].spend, points)
            = MapThenSumSet(LAMBDA k : chart.events[k].amount, recent)

\* The headroom shown for a ceiling is the largest amount that stays within
\* it, and a ceiling is shown as exhausted when no amount does, unless it is
\* zero (rateLimitView.ts, "the headroom the contract would compute").
HeadroomIsExact ==
    \A row \in Rows : row.limits # NoRecord =>
      LET shown == AmountRow(row.limits.max, row.limits.spent)
          Fits(amount) == row.limits.spent + amount <= row.limits.max
      IN ~shown.unset =>
           /\ shown.exhausted <=> ~Fits(1)
           /\ ~shown.exhausted => Fits(shown.headroom) /\ ~Fits(shown.headroom + 1)
           /\ shown.exhausted <=> shown.used >= 100
=============================================================================
