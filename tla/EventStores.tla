---------------------------- MODULE EventStores ----------------------------
(***************************************************************************)
(* The two stores of the indexer (indexer/store.ts) under the same calls:  *)
(* the tables of EventStore, kept by SQL statements in transactions, and   *)
(* the maps of InMemoryEventStore, which promises "identical interface and *)
(* query semantics".  A call may be refused; what a store rebuilds after a *)
(* call is part of the call.                                               *)
(***************************************************************************)
EXTENDS Integers, Sequences, FiniteSets, SequencesExt, FiniteSetsExt, Functions

CONSTANTS
    Top,          \* ledgers 1..Top
    MaxCalls,     \* bound: calls of either store
    Absent        \* no checkpoint, no entity, no snapshot

VARIABLES
    tables,       \* the SQLite database
    maps,         \* the in-memory store
    storeCalls,   \* calls so far
    torn          \* a refused call has left the maps half written

storeVars == <<tables, maps, storeCalls, torn>>

\* What the chain may say: who did what to which channel, job or agent.
Kinds ==
    [created  |-> [ns |-> "factory", fields |-> {"agentId", "agent"}, amount |-> 0],
     paid     |-> [ns |-> "channel", fields |-> {"channelId", "recipient"}, amount |-> 1],
     convpaid |-> [ns |-> "channel", fields |-> {"channelId", "recipient"}, amount |-> 2],
     channel  |-> [ns |-> "state", fields |-> {"channelId", "state"}, amount |-> 0],
     agent    |-> [ns |-> "state", fields |-> {"agentId", "state"}, amount |-> 0],
     accepted |-> [ns |-> "escrow", fields |-> {"jobId", "worker"}, amount |-> 0],
     released |-> [ns |-> "escrow", fields |-> {"jobId", "worker"}, amount |-> 3]]

\* An event is of one kind; token orders the events of a ledger.
Occurrence(ledger, token, action) ==
    [ledger |-> ledger, token |-> token, action |-> action,
     ns |-> Kinds[action].ns, fields |-> Kinds[action].fields, amount |-> Kinds[action].amount]

entity(event) ==
    CASE "channelId" \in event.fields -> "channel"
      [] "jobId" \in event.fields -> "job"
      [] "agentId" \in event.fields -> "agent"
      [] OTHER -> Absent

\* The party named by a field of the event, or by its snapshot's fields.
participants(event) ==
    {<<role, role>> : role \in event.fields \cap {"agent", "owner", "recipient", "requester", "worker"}}
    \cup (IF "state" \in event.fields THEN {<<"owner", "owner">>} ELSE {})

Before(a, b) == a.ledger < b.ledger \/ (a.ledger = b.ledger /\ a.token < b.token)
Ordered(events) == SetToSortSeq(events, Before)

-----------------------------------------------------------------------------
(* ledger.ts: an entry for what moved money and for every fee.             *)

Entries(events, fees) ==
    Ordered({[ledger |-> e.ledger, token |-> e.token, amount |-> e.amount] :
               e \in {e \in events : e.amount > 0}}
            \cup {[ledger |-> f.ledger, token |-> f.hash, amount |-> f.charged] : f \in fees})

-----------------------------------------------------------------------------
(* EventStore.  Rows go when their ledger is replaced, and the rows that   *)
(* refer to them go with them.                                             *)

Within(x, from, through) == from <= x.ledger /\ x.ledger <= through
Outside(rows, from, through) == {x \in rows : ~Within(x, from, through)}

TablesRebuilt(t) == [t EXCEPT !.entries = Entries(t.events, t.fees)]

TablesReplaced(t, from, through, batch) ==
    LET fresh == {e \in batch : Within(e, from, through)}
        kept == Outside(t.events, from, through) IN
    TablesRebuilt(
      [t EXCEPT !.events = kept \cup fresh,
                !.people = {p \in @ : p.event \in kept}
                           \cup UNION {{[event |-> e, address |-> p[1], role |-> p[2]] :
                                         p \in participants(e)} : e \in fresh},
                !.fees = Outside(@, from, through),
                !.next = through + 1])

\* ON CONFLICT(tx_hash) DO UPDATE, all fees or none.
TablesRecorded(t, fees) ==
    TablesRebuilt(
      [t EXCEPT !.fees = {f \in @ : \A g \in ToSet(fees) : g.hash # f.hash} \cup ToSet(fees)])

\* The agents whose creation names the address, and what was said of them.
TablesEventsForAgent(t, address) ==
    LET creations == {p.event : p \in {p \in t.people :
                        /\ p.address = address /\ p.role = "agent"
                        /\ p.event.ns = "factory" /\ p.event.action = "created"}}
    IN Ordered({e \in t.events :
         \/ \E p \in t.people : p.event = e /\ p.address = address
         \/ entity(e) = "agent" /\ creations # {}})

-----------------------------------------------------------------------------
(* InMemoryEventStore: maps from event to participants and from hash to    *)
(* fee, and the projection it caches.                                      *)

MapsRebuilt(m) ==
    [m EXCEPT !.entries = Entries(DOMAIN m.people, {m.fees[h] : h \in DOMAIN m.fees})]

MapsReplaced(m, from, through, batch) ==
    LET kept == {e \in DOMAIN m.people : ~Within(e, from, through)}
        fresh == {e \in batch : Within(e, from, through)} IN
    MapsRebuilt(
      [m EXCEPT !.people = [e \in kept \cup fresh |-> participants(e)],
                !.fees = Restrict(@, {h \in DOMAIN @ : ~Within(@[h], from, through)}),
                !.next = through + 1])

\* Fees enter one by one.
MapsSet(m, fees) ==
    [m EXCEPT !.fees =
       [h \in DOMAIN @ \cup {f.hash : f \in ToSet(fees)} |->
          IF \E f \in ToSet(fees) : f.hash = h
          THEN CHOOSE f \in ToSet(fees) : f.hash = h ELSE @[h]]]

MapsEventsForAgent(m, address) ==
    LET created == \E e \in DOMAIN m.people :
                     /\ e.ns = "factory" /\ e.action = "created" /\ entity(e) = "agent"
                     /\ <<address, "agent">> \in m.people[e]
    IN Ordered({e \in DOMAIN m.people :
         \/ \E p \in m.people[e] : p[1] = address
         \/ entity(e) = "agent" /\ created})

-----------------------------------------------------------------------------
(* Calls.                                                                  *)

EmptyTables == [events |-> {}, people |-> {}, fees |-> {}, entries |-> <<>>, next |-> Absent]
StoresInit ==
    /\ tables = EmptyTables
    /\ maps = [people |-> <<>>, fees |-> <<>>, entries |-> <<>>, next |-> Absent]
    /\ storeCalls = 0 /\ torn = FALSE

Call == storeCalls < MaxCalls /\ storeCalls' = storeCalls + 1

\* A poll, or a replay, commits what it read of a range; one that reaches
\* no further than its start changes nothing.
ReplaceRange(from, through, batch) ==
    /\ Call /\ UNCHANGED torn
    /\ IF through < from THEN UNCHANGED <<tables, maps>>
       ELSE /\ tables' = TablesReplaced(tables, from, through, batch)
            /\ maps' = MapsReplaced(maps, from, through, batch)

\* A negative fee is refused where it is met: the tables roll back, the maps
\* keep what came before it until something rebuilds them.
RecordTransactionFees(fees) ==
    LET bad == {i \in DOMAIN fees : fees[i].charged < 0}
        good == IF bad = {} THEN fees
                ELSE SubSeq(fees, 1, (CHOOSE i \in bad : \A j \in bad : i <= j) - 1)
    IN /\ Call
       /\ tables' = IF bad = {} THEN TablesRecorded(tables, fees) ELSE tables
       /\ maps' = IF bad = {} THEN MapsRebuilt(MapsSet(maps, fees)) ELSE MapsSet(maps, good)
       /\ torn' = (torn \/ (good # fees /\ good # <<>>))

Batches ==
    LET e(l, t, a) == Occurrence(l, t, a)
    IN {{}, {e(1, 1, "created"), e(1, 2, "paid"), e(2, 1, "agent")},
        {e(1, 1, "paid"), e(2, 1, "convpaid"), e(2, 2, "channel"), e(3, 1, "released")},
        {e(1, 1, "accepted"), e(2, 1, "created"), e(2, 2, "channel"), e(3, 1, "channel")}}
Fee(ledger, hash, charged) == [ledger |-> ledger, hash |-> hash, charged |-> charged]
FeeLists ==
    {<<Fee(1, 8, 1)>>, <<Fee(1, 8, 2), Fee(2, 9, 1)>>, <<Fee(3, 9, 1), Fee(1, 8, -1)>>}

StoresNext ==
    \/ \E from \in 1..Top, through \in 0..Top, batch \in Batches : ReplaceRange(from, through, batch)
    \/ \E fees \in FeeLists : RecordTransactionFees(fees)

StoresSpec == StoresInit /\ [][StoresNext]_storeVars

-----------------------------------------------------------------------------
(* Queries, of the events and the entries a store holds.                   *)

Paid(events) == Ordered({e \in events : entity(e) = "channel" /\ e.action \in {"paid", "convpaid"}})
SpendHistory(events) ==
    [total |-> FoldLeft(LAMBDA sum, e : sum + e.amount, 0, Paid(events)), payments |-> Paid(events)]

StatusAfter(status, event) ==
    CASE event.action = "accepted" -> "InProgress"
      [] event.action = "released" -> "Completed"
      [] OTHER -> status
JobLifecycle(events) ==
    FoldLeft(StatusAfter, "Unknown", Ordered({e \in events : entity(e) = "job" /\ e.ns = "escrow"}))

LatestSnapshot(events, action) ==
    LET found == Ordered({e \in events : e.ns = "state" /\ e.action = action})
    IN IF found = <<>> THEN Absent ELSE Last(found)

\* LIMIT and OFFSET, and Array.slice.
Page(entries, limit, offset) ==
    SubSeq(entries, offset + 1, Min({offset + limit, Len(entries)}))

\* ledgerEntries: the conditions of a query, then its page.
LedgerEntries(entries, from, through, limit, offset) ==
    Page(SelectSeq(entries, LAMBDA e : Within(e, from, through)), limit, offset)

MutantIterate(entries, size) ==
    LET step[offset \in 0..(Len(entries) + size)] ==
          LET batch == LedgerEntries(entries, 0, Top, size, offset)
          IN IF Len(batch) < size THEN <<>> ELSE batch \o step[offset + size]
    IN step[0]

\* iterateLedgerEntries: pages until a short one.
Iterate(entries, size) ==
    LET step[offset \in 0..(Len(entries) + size)] ==
          LET batch == LedgerEntries(entries, 0, Top, size, offset)
          IN IF Len(batch) < size THEN batch ELSE batch \o step[offset + size]
    IN step[0]

-----------------------------------------------------------------------------

\* After any polls, replays, reorganizations and recorded fees the two stores
\* answer every query alike, unless a call was refused half way (store.ts,
\* InMemoryEventStore: "identical interface and query semantics").
StoresAgree ==
    ~torn =>
      /\ tables.events = DOMAIN maps.people /\ tables.next = maps.next
      /\ tables.entries = maps.entries
      /\ \A address \in {"agent", "owner", "recipient", "worker"} :
           TablesEventsForAgent(tables, address) = MapsEventsForAgent(maps, address)

\* No page of any size drops or repeats an entry, and what is added up from
\* all pages is what the events and the fees of the store say
\* (iterateLedgerEntries, "stable pages"; spendHistory; rebuildLedger).
PagesAreComplete ==
    /\ \A size \in 1..3 : Iterate(tables.entries, size) = tables.entries
    /\ tables.entries = Entries(tables.events, tables.fees)
    /\ SpendHistory(tables.events).total
         = MapThenSumSet(LAMBDA e : e.amount,
             {e \in tables.events : e.action \in {"paid", "convpaid"}})

\* A snapshot or a job's status is that of the latest event about it, whatever
\* the order in which ranges were read and replaced (latestSnapshot, jobLifecycle).
LatestIsReported ==
    /\ \A action \in {"channel", "agent"} :
         LET about == {e \in tables.events : e.ns = "state" /\ e.action = action}
             snapshot == LatestSnapshot(tables.events, action)
         IN IF about = {} THEN snapshot = Absent
            ELSE snapshot \in about /\ \A e \in about : e = snapshot \/ Before(e, snapshot)
    /\ JobLifecycle(tables.events) = "Completed" <=>
         \E e \in tables.events :
           e.action = "released"
           /\ \A f \in tables.events : f.action = "accepted" => Before(f, e)
============================================================================
