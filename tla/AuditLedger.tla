---------------------------- MODULE AuditLedger ----------------------------
(***************************************************************************)
(* What the indexer makes of the contracts' events: the decoder drops the  *)
(* events it does not know (indexer/decoder.ts), the ledger turns the rest *)
(* into balanced postings and reconciles them with balances read from the  *)
(* chain (indexer/ledger.ts), a statement adds them up for one agent or    *)
(* owner (indexer/reporting.ts) and an export writes one statement line    *)
(* per row (indexer/export.ts).                                            *)
(*                                                                         *)
(* One channel and one job, owned by the same agent and owner, move money  *)
(* while the log of their events grows.                                    *)
(***************************************************************************)
EXTENDS Integers, Sequences, FiniteSets, SequencesExt

CONSTANTS
    Amounts,     \* amounts of payments and of the job
    Deposit,     \* the channel's deposit
    Fee,         \* a transaction's recorded network fee
    MaxOps,      \* operations in a behaviour
    MaxFees,     \* fees recorded in a behaviour
    LastLedger   \* ledgers 0..LastLedger

Assets == {"usd", "eur", "native"}
Parties == {"owner", "agent", "seller", "worker", "channel", "escrow", "network", "clearing"}

VARIABLES
    ledger,      \* the open ledger
    balances,    \* balances[party][asset]: change since the start
    closing,     \* closing[l]: balances when ledger l closed
    channel,     \* [active, left]: the channel and its custody
    job,         \* [status, amount]
    log,         \* the contracts' events, in order
    fees         \* fee records: [ledger, tx, amount]

auditVars == <<ledger, balances, closing, channel, job, log, fees>>

NoMoney == [p \in Parties |-> [a \in Assets |-> 0]]
NoJob == [status |-> "none", amount |-> 0]

AuditInit ==
    /\ ledger = 0 /\ balances = NoMoney /\ closing = <<>>
    /\ channel = [active |-> FALSE, opened |-> FALSE, left |-> 0] /\ job = NoJob
    /\ log = <<>> /\ fees = <<>>

-----------------------------------------------------------------------------
(* The contracts.  An operation moves money and emits its event and, in    *)
(* the same transaction, a snapshot of what it changed.                    *)

Plus(b, from, to, asset, amount) ==
    [b EXCEPT ![from][asset] = @ - amount, ![to][asset] = @ + amount]

Event(ns, action, data) ==
    [ns |-> ns, action |-> action, ledger |-> ledger, tx |-> Len(log) \div 2, data |-> data]

\* data: what the event says of parties, amounts and outcome.
Emit(ns, action, data, snapshot) ==
    log' = log \o <<Event(ns, action, data), snapshot>>
Data(amount, received, favor) == [amount |-> amount, received |-> received, favor |-> favor]
ChannelState == Event("state", "channel", Data(channel'.left, 0, FALSE))
JobState == Event("state", "job", Data(job'.amount, 0, FALSE))

\* open_channel names its snapshot channel/state.
OpenChannel ==
    /\ ~channel.opened
    /\ channel' = [active |-> TRUE, opened |-> TRUE, left |-> Deposit]
    /\ balances' = Plus(balances, "owner", "channel", "usd", Deposit)
    /\ Emit("channel", "opened", Data(Deposit, 0, FALSE),
            [ChannelState EXCEPT !.ns = "channel", !.action = "state"])
    /\ UNCHANGED job

TopUp ==
    \E amount \in Amounts :
        /\ channel.active
        /\ channel' = [channel EXCEPT !.left = @ + amount]
        /\ balances' = Plus(balances, "owner", "channel", "usd", amount)
        /\ Emit("channel", "topup", Data(amount, 0, FALSE), ChannelState)
        /\ UNCHANGED job

Pay ==
    \E amount \in Amounts :
        /\ channel.active /\ amount <= channel.left
        /\ channel' = [channel EXCEPT !.left = @ - amount]
        /\ balances' = Plus(balances, "channel", "seller", "usd", amount)
        /\ Emit("channel", "paid", Data(amount, 0, FALSE), ChannelState)
        /\ UNCHANGED job

\* pay_with_conversion and pay_routed: a venue gives euros for the amount.
PayConverted(action) ==
    \E amount \in Amounts : LET received == amount + 1 IN
        /\ channel.active /\ amount <= channel.left
        /\ channel' = [channel EXCEPT !.left = @ - amount]
        /\ balances' = Plus(Plus(balances, "channel", "clearing", "usd", amount),
                            "clearing", "seller", "eur", received)
        /\ Emit("channel", action, Data(amount, received, FALSE), ChannelState)
        /\ UNCHANGED job

CloseChannel ==
    /\ channel.active
    /\ channel' = [channel EXCEPT !.active = FALSE, !.left = 0]
    /\ balances' = Plus(balances, "channel", "owner", "usd", channel.left)
    /\ Emit("channel", "closed", Data(channel.left, 0, FALSE), ChannelState)
    /\ UNCHANGED job

CreateJob ==
    \E amount \in Amounts :
        /\ job.status = "none"
        /\ job' = [status |-> "open", amount |-> amount]
        /\ balances' = Plus(balances, "agent", "escrow", "usd", amount)
        /\ Emit("escrow", "created", Data(amount, 0, FALSE), JobState)
        /\ UNCHANGED channel

Hold(action, from, to) ==
    /\ job.status \in from
    /\ job' = [job EXCEPT !.status = to]
    /\ Emit("escrow", action, Data(0, 0, FALSE), JobState)
    /\ UNCHANGED <<channel, balances>>

PayOut(action, from, to, party, data) ==
    /\ job.status \in from
    /\ job' = [job EXCEPT !.status = to]
    /\ balances' = Plus(balances, "escrow", party, "usd", job.amount)
    /\ Emit("escrow", action, data, JobState)
    /\ UNCHANGED channel

\* The job's result is left out: like accepted it moves no money.
JobOp ==
    \/ CreateJob
    \/ Hold("accepted", {"open"}, "accepted")
    \/ Hold("disputed", {"accepted"}, "disputed")
    \/ PayOut("released", {"accepted"}, "done", "worker", Data(job.amount, 0, FALSE))
    \/ PayOut("refunded", {"open", "accepted"}, "refunded", "agent", Data(job.amount, 0, FALSE))
    \/ PayOut("resolved", {"disputed"}, "done", "worker", Data(0, 0, TRUE))
    \/ PayOut("resolved", {"disputed"}, "refunded", "agent", Data(0, 0, FALSE))

ChannelOp ==
    OpenChannel \/ TopUp \/ Pay \/ PayConverted("convpaid") \/ PayConverted("routepay")
    \/ CloseChannel

Operate ==
    /\ Len(log) < 2 * MaxOps
    /\ ChannelOp \/ JobOp
    /\ UNCHANGED <<ledger, closing, fees>>

\* The agent pays the fee of the last transaction, and it is recorded.
RecordFee ==
    /\ log # <<>> /\ Last(log).ledger = ledger /\ Len(fees) < MaxFees
    /\ \A i \in DOMAIN fees : fees[i].tx # Last(log).tx
    /\ balances' = Plus(balances, "agent", "network", "native", Fee)
    /\ fees' = Append(fees, [ledger |-> ledger, tx |-> Last(log).tx, amount |-> Fee])
    /\ UNCHANGED <<ledger, closing, channel, job, log>>

LedgerCloses ==
    /\ ledger < LastLedger
    /\ ledger' = ledger + 1
    /\ closing' = Append(closing, balances)
    /\ UNCHANGED <<balances, channel, job, log, fees>>

AuditNext == Operate \/ RecordFee \/ LedgerCloses

AuditSpec == AuditInit /\ [][AuditNext]_auditVars

-----------------------------------------------------------------------------
(* decoder.ts: the events of the two contracts it knows.                   *)

MutantKnown ==
    ({"channel"} \X {"opened", "paid", "topup", "closed"})
    \cup ({"escrow"} \X {"created", "released", "refunded", "resolved"})
    \cup ({"state"} \X {"channel", "job"})

Known ==
    ({"channel"} \X {"opened", "paid", "convpaid", "topup", "closed"})
    \cup ({"escrow"} \X {"created", "accepted", "result", "released", "refunded",
                         "disputed", "resolved"})
    \cup ({"state"} \X {"channel", "job"})

Decoded == SelectSeq(log, LAMBDA e : <<e.ns, e.action>> \in Known)

-----------------------------------------------------------------------------
(* ledger.ts                                                               *)

\* stateFor: is there a snapshot of the event's own transaction, or an
\* earlier one?  All snapshots of a channel or job agree on its token,
\* parties and amount.
StateFor(events, i, kind) ==
    \E j \in DOMAIN events :
        /\ events[j].ns = "state" /\ events[j].action = kind
        /\ events[j].tx = events[i].tx \/ j <= i

Posting(account, asset, amount) == [account |-> account, asset |-> asset, amount |-> amount]
Moved(from, to, amount) == <<Posting(from, "usd", -amount), Posting(to, "usd", amount)>>

\* The kind and the postings of an event, <<>> for one that moves nothing.
Postings(e) ==
    LET amount == e.data.amount IN
    CASE e.action = "opened" -> <<"channel_funding", Moved("owner", "channel", amount)>>
      [] e.action = "topup" -> <<"channel_top_up", Moved("owner", "channel", amount)>>
      [] e.action = "paid" -> <<"channel_payment", Moved("channel", "seller", amount)>>
      [] e.action = "convpaid" ->
           <<"channel_conversion",
             Moved("channel", "clearing", amount)
             \o <<Posting("clearing", "eur", -e.data.received),
                  Posting("seller", "eur", e.data.received)>>>>
      [] e.action = "closed" -> <<"channel_refund", Moved("channel", "owner", amount)>>
      [] e.action = "created" -> <<"escrow_lock", Moved("agent", "escrow", amount)>>
      [] e.action = "released" -> <<"escrow_release", Moved("escrow", "worker", amount)>>
      [] e.action = "refunded" -> <<"escrow_refund", Moved("escrow", "agent", amount)>>
      [] e.action = "resolved" /\ e.data.favor ->
           <<"escrow_release", Moved("escrow", "worker", amount)>>
      [] e.action = "resolved" /\ ~e.data.favor ->
           <<"escrow_refund", Moved("escrow", "agent", amount)>>
      [] OTHER -> <<>>

\* A resolution names no amount: it is that of the snapshot.
WithAmount(e) ==
    IF e.action = "resolved" THEN [e EXCEPT !.data.amount = job.amount] ELSE e

Economic(events) == {i \in DOMAIN events : Postings(events[i]) # <<>>}
Kind(e) == IF e.ns = "channel" THEN "channel" ELSE "job"

\* Who an entry is attributed to: the owner of a channel and its agent, the
\* requester of a job for both.
Entry(e) ==
    LET posted == Postings(WithAmount(e)) IN
    [kind |-> posted[1], postings |-> posted[2], ledger |-> e.ledger, tx |-> e.tx,
     agent |-> "agent", owner |-> IF e.ns = "channel" THEN "owner" ELSE "agent",
     asset |-> "usd", amount |-> WithAmount(e).data.amount]

FeeEntry(fee) ==
    [kind |-> "network_fee", ledger |-> fee.ledger, tx |-> fee.tx, agent |-> "agent",
     owner |-> "agent", asset |-> "native", amount |-> fee.amount,
     postings |-> <<Posting("agent", "native", -fee.amount),
                    Posting("network", "native", fee.amount)>>]

\* normalizeLedger
Entries ==
    LET events == Decoded
        posted == SetToSortSeq({i \in Economic(events) : StateFor(events, i, Kind(events[i]))}, <)
    IN SortSeq([k \in DOMAIN posted |-> Entry(events[posted[k]])]
               \o [k \in DOMAIN fees |-> FeeEntry(fees[k])],
               LAMBDA a, b : a.ledger < b.ledger)

\* The events left as an issue: no snapshot says what they moved.
Issues ==
    LET events == Decoded
    IN SelectSeq([i \in DOMAIN events |-> [event |-> events[i], known |-> StateFor(events, i, Kind(events[i]))]],
                 LAMBDA x : ~x.known /\ Postings(x.event) # <<>>)

Total(s) == FoldSeq(LAMBDA x, y : x + y, 0, s)
Each(s, F(_)) == [i \in DOMAIN s |-> F(s[i])]

\* What entries posted to an account from one ledger through another.
Activity(entries, account, asset, from, through) ==
    LET relevant == SelectSeq(entries, LAMBDA e : e.ledger >= from /\ e.ledger <= through)
        postings == FlattenSeq(Each(relevant, LAMBDA e : e.postings))
    IN Total(Each(SelectSeq(postings, LAMBDA p : p.account = account /\ p.asset = asset),
                  LAMBDA p : p.amount))

\* reconcileLedger: the positions whose status is not "matched", of those
\* read from the chain.
Discrepancies(entries, from, through, opening, observed) ==
    {<<p, a>> \in (Parties \ {"clearing"}) \X Assets :
        opening[p][a] + Activity(entries, p, a, from, through) # observed[p][a]}

-----------------------------------------------------------------------------
(* reporting.ts: subject is "agent" or "owner"; a period bounds the ledger *)
(* from below and above and its closing time, too (a ledger closes at a    *)
(* time that is its number).                                               *)

Impact(e) ==
    CASE e.kind \in {"channel_funding", "channel_top_up", "escrow_refund"} -> e.amount
      [] e.kind = "escrow_release" -> 0
      [] OTHER -> -e.amount

Attributed(e, kind, id) == IF kind = "agent" THEN e.agent = id ELSE e.owner = id

InPeriod(e, period) ==
    /\ e.ledger >= period.from /\ e.ledger <= period.through
    /\ e.ledger >= period.fromTime /\ e.ledger <= period.throughTime
MutantBeforePeriod(e, period) == e.ledger < period.from
BeforePeriod(e, period) == e.ledger < period.from \/ e.ledger < period.fromTime

Credit(delta) == IF delta > 0 THEN delta ELSE 0
Running(opening, lines) ==
    [i \in DOMAIN lines |-> opening + Total(Each(SubSeq(lines, 1, i), Impact))]

\* buildStatement, for one asset.
BuildStatement(kind, id, period, asset) ==
    LET mine == SelectSeq(Entries, LAMBDA e : Attributed(e, kind, id) /\ e.asset = asset)
        lines == SelectSeq(mine, LAMBDA e : InPeriod(e, period))
        opening == Total(Each(SelectSeq(mine, LAMBDA e : BeforePeriod(e, period)), Impact))
    IN [lines |-> lines, opening |-> opening, running |-> Running(opening, lines),
        credits |-> Total(Each(lines, LAMBDA e : Credit(Impact(e)))),
        debits |-> Total(Each(lines, LAMBDA e : Credit(-Impact(e)))),
        closing |-> opening + Total(Each(lines, Impact))]

\* export.ts: the rows of a statement.
Rows(statement, format) ==
    LET lines == statement.lines
        Row(type, i, amount) == [type |-> type, tx |-> lines[i].tx, amount |-> amount]
    IN FlattenSeq([i \in DOMAIN lines |->
         IF format \in {"csv", "json"} THEN <<Row("line", i, Impact(lines[i]))>>
         ELSE <<Row("TRNS", i, Impact(lines[i])), Row("SPL", i, -Impact(lines[i])),
                Row("ENDTRNS", i, 0)>>])

-----------------------------------------------------------------------------
(* Properties.                                                             *)

AllDecoded == \A i \in DOMAIN log : log[i].action # "routepay"
Unposted == Each(Issues, LAMBDA x : Entry(x.event))
At(l) == IF l < 0 THEN NoMoney ELSE closing[l + 1]

\* Whatever period is reconciled with the balances before and after it,
\* every position matches, but for what the issues of the period explain:
\* a payment is posted once, on the right side, in the right asset and in
\* the ledger it happened.  Holds while every event that moves money is one
\* the decoder knows (ledger.ts, reconcileLedger over normalizeLedger).
BooksReconcile ==
    AllDecoded =>
        \A through \in 0..(ledger - 1) : \A from \in 0..through :
            Discrepancies(Entries \o Unposted, from, through, At(from - 1), At(through)) = {}

\* What an agent's statement of its whole history comes to is what its
\* channel still holds less what its job has taken: a release settles what
\* the lock charged without charging it again, a refund returns it, and a
\* closed channel leaves nothing (reporting.ts, impact).
StatementIsCustody ==
    AllDecoded =>
        LET all == [from |-> 0, through |-> ledger, fromTime |-> 0, throughTime |-> ledger]
            statement == BuildStatement("agent", "agent", all, "usd")
        IN statement.closing + Total(Each(Unposted, Impact))
             = channel.left - (IF job.status \in {"none", "refunded"} THEN 0 ELSE job.amount)

\* The closing balance of a period is the opening balance of the next, both
\* when periods are cut by ledger and when they are cut by time, the last
\* running balance is the closing balance, and what is exported adds up: to
\* the movement of the statement in a list of lines, to zero in the
\* double-entry format (reporting.ts, buildStatement; export.ts).
StatementsChain ==
    \A subject \in {<<"agent", "agent">>, <<"owner", "owner">>}, cut \in 0..LastLedger, asset \in Assets :
        LET whole == [from |-> 0, through |-> LastLedger, fromTime |-> 0, throughTime |-> LastLedger]
            Of(period) == BuildStatement(subject[1], subject[2], period, asset)
            Adds(s, format) == Total(Each(Rows(s, format), LAMBDA r : r.amount))
            first == Of([whole EXCEPT !.through = cut])
        IN \A next \in {Of([whole EXCEPT !.from = cut + 1]), Of([whole EXCEPT !.fromTime = cut + 1])} :
             /\ next.opening = first.closing
             /\ next.closing = Of(whole).closing
             /\ next.closing = next.opening + next.credits - next.debits
             /\ next.lines # <<>> => Last(next.running) = next.closing
             /\ Adds(next, "csv") = next.credits - next.debits /\ Adds(next, "iif") = 0

\* The README of the indexer says the contracts publish a snapshot after
\* every state mutation and that the latest one is the complete record; the
\* indexer knows no snapshot of a channel that was only opened.
SnapshotIsCurrent ==
    channel.opened =>
        LET states == SelectSeq(Decoded, LAMBDA e : e.ns = "state" /\ e.action = "channel")
        IN states # <<>> /\ Last(states).data.amount = channel.left
=============================================================================
