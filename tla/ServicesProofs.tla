--------------------------- MODULE ServicesProofs ---------------------------
(***************************************************************************)
(* The services around the SDK, for any logs, budgets, heads and bounds.   *)
(* The subscription: what it has passed, its consumer was given.  The      *)
(* tools: payments keep to the policy, and the budget counts those whose   *)
(* answer was lost.  The indexer's health: the lag it reports is never     *)
(* less than what the store is behind, and the gauges agree.               *)
(* The deployment: its runs carry out the plan in order and apart from     *)
(* each other, and what they publish is wired.  The dashboard: what is     *)
(* polled belongs to its mode and never falls back, a report is the one    *)
(* asked for, and an alert is posted once.                                 *)
(***************************************************************************)
EXTENDS EventWatcher, Tools, IndexerHealth, Deployment, Screen, Alerts,
        ReportDesk, EventStores,
        FiniteSetTheorems, SequenceTheorems, WellFoundedInduction, TLAPS

-----------------------------------------------------------------------------
(* The subscription to events.                                             *)

WatcherAt == {"armed", "asking", "handling", "calling", "over"}

\* Cursors stay within the log, and the loop within its page.
WatchType ==
    /\ log \in Seq(EventKinds) /\ Len(log) <= MaxEvents
    /\ watcher \in [at : WatcherAt, cursor : Nat, next : Nat, upto : Nat, stopped : BOOLEAN]
    /\ saved \in [cursor : Nat, late : BOOLEAN]
    /\ resumed \in [times : Nat, late : BOOLEAN]
    /\ calls \in [1..MaxEvents -> Nat] /\ faults \in Nat
    /\ handled \subseteq Nat
WatchRange ==
    /\ watcher.cursor <= Len(log) /\ saved.cursor <= Len(log)
    /\ watcher.at \in {"handling", "calling"} =>
         /\ watcher.cursor <= watcher.next /\ watcher.next <= watcher.upto /\ watcher.upto <= Len(log)
    /\ watcher.at = "calling" => watcher.next < watcher.upto
    /\ watcher.at \in {"armed"} => watcher.stopped = FALSE
    /\ watcher.at = "over" => watcher.stopped = TRUE
    /\ \A i \in handled : i <= Len(log)
    /\ \A i \in 1..MaxEvents : i > Len(log) => calls[i] = 0

\* The place up to which the callback has been called with the events since
\* the watcher was armed, or resumed, at its cursor.
Place ==
    IF watcher.at = "handling" THEN watcher.next
    ELSE IF watcher.at = "calling" THEN watcher.next + 1 ELSE watcher.cursor

HandledUpTo(n) == \A i \in Known : i <= n => i \in handled

\* What a cursor has passed is handled, as long as the loop that moves it has
\* not been left for an unsubscribe; a late cursor stays late when resumed from.
WatchDelivers ==
    /\ resumed.late = TRUE => saved.late = TRUE
    /\ resumed.late = FALSE =>
         /\ watcher.at # "over" => HandledUpTo(watcher.cursor)
         /\ watcher.at \in {"handling", "calling"} => HandledUpTo(watcher.next)
         /\ saved.late = FALSE => HandledUpTo(saved.cursor)
         /\ \A i \in handled, j \in Known : j < i => j \in handled

WatchCounts ==
    Readable => \A i \in Known :
        calls[i] <= faults + resumed.times + (IF i <= Place THEN 1 ELSE 0)

WatchInv == WatchType /\ WatchRange /\ WatchDelivers /\ WatchCounts

LEMMA WatchInitInv == SoundWatch /\ WatchInit => WatchInv
<1>. SUFFICES ASSUME SoundWatch, WatchInit PROVE WatchInv
  OBVIOUS
<1>1. log = <<>> /\ Len(log) = 0 /\ log \in Seq(EventKinds)
  BY DEF WatchInit
<1>2. WatchType
  BY <1>1 DEF WatchInit, WatchType, From, SoundWatch, WatcherAt
<1>3. WatchRange
  BY <1>1 DEF WatchInit, WatchRange, From
<1>4. Known = {}
  BY <1>1 DEF Known
<1>5. WatchDelivers /\ WatchCounts
  BY <1>4 DEF WatchInit, WatchDelivers, HandledUpTo, WatchCounts
<1>. QED BY <1>2, <1>3, <1>5 DEF WatchInv

\* Emit appends to the log and leaves what was there.
LEMMA EmitKeepsInv ==
    ASSUME SoundWatch, WatchInv, NEW kind \in EventKinds, Emit(kind)
    PROVE  WatchInv'
<1>1. /\ log' = Append(log, kind) /\ Len(log) < MaxEvents
      /\ UNCHANGED <<watcher, saved, calls, handled, faults, resumed>>
  BY DEF Emit
<1>2. log \in Seq(EventKinds) /\ MaxEvents \in Nat
  BY DEF WatchInv, WatchType, SoundWatch
<1>3. /\ log' \in Seq(EventKinds) /\ Len(log') = Len(log) + 1 /\ Len(log) \in Nat
      /\ \A i \in 1..Len(log) : log'[i] = log[i]
  BY <1>1, <1>2, AppendProperties
<1>4. WatchType'
  BY <1>1, <1>2, <1>3 DEF WatchInv, WatchType
<1>5. WatchRange'
  BY <1>1, <1>2, <1>3 DEF WatchInv, WatchRange, WatchType
<1>6. Known' \subseteq Known \cup {Len(log) + 1}
  BY <1>2, <1>3 DEF Known
<1>7. ASSUME NEW n, n \in Nat, n <= Len(log), HandledUpTo(n) PROVE HandledUpTo(n)'
  BY <1>1, <1>3, <1>6, <1>7 DEF HandledUpTo
<1>8. WatchDelivers'
  <2>1. resumed.late = TRUE => saved.late = TRUE
    BY DEF WatchInv, WatchDelivers
  <2>2. ASSUME resumed.late = FALSE
        PROVE  /\ watcher.at # "over" => HandledUpTo(watcher.cursor)'
               /\ watcher.at \in {"handling", "calling"} => HandledUpTo(watcher.next)'
               /\ saved.late = FALSE => HandledUpTo(saved.cursor)'
    <3>1. /\ watcher.cursor \in Nat /\ watcher.next \in Nat /\ saved.cursor \in Nat
          /\ watcher.upto \in Nat
      BY DEF WatchInv, WatchType
    <3>2. /\ watcher.cursor <= Len(log) /\ saved.cursor <= Len(log)
          /\ watcher.at \in {"handling", "calling"} => watcher.next <= Len(log)
      BY <1>3, <3>1 DEF WatchInv, WatchRange
    <3>3. /\ watcher.at # "over" => HandledUpTo(watcher.cursor)
          /\ watcher.at \in {"handling", "calling"} => HandledUpTo(watcher.next)
          /\ saved.late = FALSE => HandledUpTo(saved.cursor)
      BY <2>2 DEF WatchInv, WatchDelivers
    <3>4. watcher.at # "over" => HandledUpTo(watcher.cursor)'
      BY <1>1, <1>7, <3>1, <3>2, <3>3
    <3>5. watcher.at \in {"handling", "calling"} => HandledUpTo(watcher.next)'
      BY <1>1, <1>7, <3>1, <3>2, <3>3
    <3>6. saved.late = FALSE => HandledUpTo(saved.cursor)'
      BY <1>1, <1>7, <3>1, <3>2, <3>3
    <3>. QED BY <3>4, <3>5, <3>6
  <2>3. ASSUME resumed.late = FALSE, NEW i \in handled, NEW j \in Known', j < i PROVE j \in handled
    <3>1. i <= Len(log) /\ i \in Nat
      BY DEF WatchInv, WatchRange, WatchType
    <3>2. j \in Known
      BY <1>6, <1>3, <2>3, <3>1
    <3>. QED BY <2>3, <3>2 DEF WatchInv, WatchDelivers
  <2>. QED BY <1>1, <2>1, <2>2, <2>3 DEF WatchDelivers
<1>9. WatchCounts'
  <2>1. ASSUME Readable' PROVE Readable
    BY <1>3, <1>2, <2>1 DEF Readable
  <2>2. Place' = Place /\ Place \in Nat /\ faults \in Nat /\ resumed.times \in Nat
    BY <1>1 DEF Place, WatchInv, WatchType
  <2>3. ASSUME Readable, NEW i \in Known'
        PROVE  calls[i] <= faults + resumed.times + (IF i <= Place THEN 1 ELSE 0)
    <3>1. CASE i \in Known
      BY <2>3, <3>1 DEF WatchInv, WatchCounts
    <3>2. CASE i = Len(log) + 1
      <4>1. calls[i] = 0
        BY <1>1, <1>2, <1>3, <3>2 DEF WatchInv, WatchRange
      <4>. QED BY <4>1, <2>2
    <3>. QED BY <1>6, <3>1, <3>2
  <2>. QED BY <1>1, <2>1, <2>2, <2>3 DEF WatchCounts
<1>. QED BY <1>4, <1>5, <1>8, <1>9 DEF WatchInv

\* The loop of a poll.
LEMMA WatchStepKeepsInv ==
    ASSUME SoundWatch, WatchInv, WatchStep
    PROVE  WatchInv'
<1>0. /\ log \in Seq(EventKinds) /\ Len(log) \in Nat /\ Len(log) <= MaxEvents /\ MaxEvents \in Nat
      /\ PageSize \in Nat
      /\ watcher \in [at : WatcherAt, cursor : Nat, next : Nat, upto : Nat, stopped : BOOLEAN]
      /\ calls \in [1..MaxEvents -> Nat] /\ handled \subseteq Nat
      /\ faults \in Nat /\ resumed.times \in Nat
  BY DEF WatchInv, WatchType, SoundWatch
<1>l. log' = log /\ UNCHANGED <<saved, faults, resumed>>
  BY DEF WatchStep, Ask, Answered, PageDone, HandleNext, Returns
<1>k. Known' = Known /\ (Readable' <=> Readable) /\ Known \subseteq 1..Len(log)
  BY <1>l, <1>0 DEF Known, Readable
<1>1. CASE Ask
  <2>1. watcher.at = "armed" /\ watcher' = [watcher EXCEPT !.at = "asking"] /\ UNCHANGED <<calls, handled>>
    BY <1>1 DEF Ask
  <2>2. WatchType'
    BY <1>0, <1>l, <2>1 DEF WatchInv, WatchType, WatcherAt
  <2>3. WatchRange'
    BY <1>0, <1>l, <2>1 DEF WatchInv, WatchRange
  <2>4. WatchDelivers'
    BY <1>0, <1>l, <1>k, <2>1 DEF WatchInv, WatchDelivers, HandledUpTo
  <2>5. Place' = Place
    BY <1>0, <2>1 DEF Place
  <2>6. WatchCounts'
    BY <1>l, <1>k, <2>1, <2>5 DEF WatchInv, WatchCounts
  <2>. QED BY <2>2, <2>3, <2>4, <2>6 DEF WatchInv
<1>2. CASE Answered
  <2>1. /\ watcher.at = "asking" /\ UNCHANGED <<calls, handled>>
        /\ watcher' = [watcher EXCEPT !.at = "handling", !.next = watcher.cursor, !.upto = PageEnd]
    BY <1>2 DEF Answered
  <2>0. watcher.cursor <= PageEnd /\ PageEnd <= Len(log) /\ PageEnd \in Nat
    BY <1>0 DEF PageEnd, WatchInv, WatchRange
  <2>2. WatchType'
    BY <1>0, <1>l, <2>0, <2>1 DEF WatchInv, WatchType, WatcherAt
  <2>3. WatchRange'
    BY <1>0, <1>l, <2>0, <2>1 DEF WatchInv, WatchRange
  <2>4. WatchDelivers'
    BY <1>0, <1>l, <1>k, <2>1 DEF WatchInv, WatchDelivers, HandledUpTo
  <2>5. Place' = Place
    BY <1>0, <2>1 DEF Place
  <2>6. WatchCounts'
    BY <1>l, <1>k, <2>1, <2>5 DEF WatchInv, WatchCounts
  <2>. QED BY <2>2, <2>3, <2>4, <2>6 DEF WatchInv
<1>3. CASE PageDone
  <2>1. /\ watcher.at = "handling" /\ (watcher.stopped \/ watcher.next = watcher.upto)
        /\ watcher' = [watcher EXCEPT !.cursor = watcher.upto,
                                      !.at = IF watcher.stopped THEN "over" ELSE "armed"]
        /\ UNCHANGED <<calls, handled>>
    BY <1>3, <1>0 DEF PageDone, Rearmed
  <2>r. watcher.cursor <= watcher.next /\ watcher.next <= watcher.upto /\ watcher.upto <= Len(log)
    BY <2>1 DEF WatchInv, WatchRange
  <2>2. WatchType'
    BY <1>0, <1>l, <2>1 DEF WatchInv, WatchType, WatcherAt
  <2>3. WatchRange'
    BY <1>0, <1>l, <2>r, <2>1 DEF WatchInv, WatchRange
  <2>4. WatchDelivers'
    <3>1. watcher'.at # "over" => watcher'.cursor = watcher.next
      BY <1>0, <2>1
    <3>2. watcher'.at \notin {"handling", "calling"}
      BY <1>0, <2>1
    <3>. QED BY <1>l, <1>k, <2>1, <3>1, <3>2 DEF WatchInv, WatchDelivers, HandledUpTo
  <2>5. Place <= Place' /\ Place \in Nat /\ Place' \in Nat
    BY <1>0, <2>1, <2>r DEF Place
  <2>6. WatchCounts'
    <3>. SUFFICES ASSUME Readable, NEW i \in Known
         PROVE  calls[i] <= faults + resumed.times + (IF i <= Place' THEN 1 ELSE 0)
      BY <1>l, <1>k, <2>1 DEF WatchCounts
    <3>1. calls[i] <= faults + resumed.times + (IF i <= Place THEN 1 ELSE 0) /\ i \in 1..MaxEvents
      BY <1>0, <1>k DEF WatchInv, WatchCounts
    <3>. QED BY <1>0, <2>5, <3>1
  <2>. QED BY <2>2, <2>3, <2>4, <2>6 DEF WatchInv
<1>4. CASE HandleNext
  <2>0. watcher.at = "handling" /\ ~watcher.stopped /\ watcher.next < watcher.upto /\ handled' = handled
    BY <1>4 DEF HandleNext
  <2>r. watcher.cursor <= watcher.next /\ watcher.next <= watcher.upto /\ watcher.upto <= Len(log)
    BY <2>0 DEF WatchInv, WatchRange
  <2>i. watcher.next + 1 \in 1..MaxEvents /\ watcher.next + 1 \in DOMAIN log /\ watcher.next + 1 <= watcher.upto
    BY <1>0, <2>0, <2>r
  <2>1. CASE /\ log[watcher.next + 1] = "stray" /\ UNCHANGED calls
             /\ watcher' = [watcher EXCEPT !.next = watcher.next + 1]
    <3>2. WatchType'
      <4>1. watcher.next + 1 \in Nat
        BY <1>0
      <4>2. watcher' \in [at : WatcherAt, cursor : Nat, next : Nat, upto : Nat, stopped : BOOLEAN]
        BY <1>0, <2>1, <4>1
      <4>. QED BY <1>0, <1>l, <2>0, <2>1, <4>2 DEF WatchInv, WatchType
    <3>3. WatchRange'
      BY <1>0, <1>l, <2>0, <2>r, <2>i, <2>1 DEF WatchInv, WatchRange
    <3>4. WatchDelivers'
      <4>1. watcher.next + 1 \notin Known
        BY <2>1 DEF Known
      <4>2. HandledUpTo(watcher.next) => HandledUpTo(watcher.next + 1)
        BY <1>0, <1>k, <4>1 DEF HandledUpTo
      <4>3. watcher'.next = watcher.next + 1 /\ watcher'.cursor = watcher.cursor /\ watcher'.at = watcher.at
        BY <1>0, <2>1
      <4>. QED BY <1>l, <1>k, <2>0, <4>2, <4>3 DEF WatchInv, WatchDelivers, HandledUpTo
    <3>5. Place <= Place' /\ Place \in Nat /\ Place' \in Nat
      BY <1>0, <2>1, <2>0 DEF Place
    <3>6. WatchCounts'
      <4>. SUFFICES ASSUME Readable, NEW i \in Known
           PROVE  calls[i] <= faults + resumed.times + (IF i <= Place' THEN 1 ELSE 0)
        BY <1>l, <1>k, <2>1 DEF WatchCounts
      <4>1. calls[i] <= faults + resumed.times + (IF i <= Place THEN 1 ELSE 0) /\ i \in 1..MaxEvents
        BY <1>0, <1>k DEF WatchInv, WatchCounts
      <4>. QED BY <1>0, <3>5, <4>1
    <3>. QED BY <3>2, <3>3, <3>4, <3>6 DEF WatchInv
  <2>2. CASE log[watcher.next + 1] = "foreign" /\ watcher' = Rearmed(watcher) /\ UNCHANGED calls
    <3>1. watcher' = [watcher EXCEPT !.at = "armed"]
      BY <2>0, <2>2 DEF Rearmed
    <3>2. WatchType'
      BY <1>0, <1>l, <2>0, <2>2, <3>1 DEF WatchInv, WatchType, WatcherAt
    <3>3. WatchRange'
      BY <1>0, <1>l, <2>0, <2>r, <2>2, <3>1 DEF WatchInv, WatchRange
    <3>4. WatchDelivers'
      BY <1>0, <1>l, <1>k, <2>0, <3>1 DEF WatchInv, WatchDelivers, HandledUpTo
    <3>5. ~Readable
      BY <2>2, <2>i DEF Readable
    <3>. QED BY <1>k, <3>2, <3>3, <3>4, <3>5 DEF WatchInv, WatchCounts
  <2>3. CASE /\ log[watcher.next + 1] = "known" /\ watcher' = [watcher EXCEPT !.at = "calling"]
             /\ calls' = [calls EXCEPT ![watcher.next + 1] = IF @ < Enough THEN @ + 1 ELSE @]
    <3>1. /\ calls' \in [1..MaxEvents -> Nat]
          /\ \A i \in 1..MaxEvents : i # watcher.next + 1 => calls'[i] = calls[i]
          /\ calls'[watcher.next + 1] <= calls[watcher.next + 1] + 1
      BY <1>0, <2>i, <2>3
    <3>2. WatchType'
      BY <1>0, <1>l, <2>0, <2>3, <3>1 DEF WatchInv, WatchType, WatcherAt
    <3>3. WatchRange'
      BY <1>0, <1>l, <2>0, <2>r, <2>i, <2>3, <3>1 DEF WatchInv, WatchRange
    <3>4. WatchDelivers'
      BY <1>0, <1>l, <1>k, <2>0, <2>3 DEF WatchInv, WatchDelivers, HandledUpTo
    <3>5. Place = watcher.next /\ Place' = watcher.next + 1
      BY <1>0, <2>3, <2>0 DEF Place
    <3>6. WatchCounts'
      <4>. SUFFICES ASSUME Readable, NEW i \in Known
           PROVE  calls'[i] <= faults + resumed.times + (IF i <= Place' THEN 1 ELSE 0)
        BY <1>l, <1>k DEF WatchCounts
      <4>1. calls[i] <= faults + resumed.times + (IF i <= Place THEN 1 ELSE 0) /\ i \in 1..MaxEvents
        BY <1>0, <1>k DEF WatchInv, WatchCounts
      <4>2. CASE i = watcher.next + 1
        <5>1. calls[i] <= faults + resumed.times
          BY <1>0, <3>5, <4>1, <4>2
        <5>2. Place' = i /\ calls'[i] <= calls[i] + 1 /\ calls[i] \in Nat /\ calls'[i] \in Nat
          BY <1>0, <3>1, <3>5, <4>1, <4>2
        <5>3. (IF i <= Place' THEN 1 ELSE 0) = 1
          BY <1>0, <2>i, <4>2, <5>2
        <5>4. calls'[i] <= faults + resumed.times + 1
          BY <1>0, <5>1, <5>2
        <5>. QED BY <5>3, <5>4
      <4>3. CASE i # watcher.next + 1
        <5>1. (i <= Place) = (i <= Place')
          BY <1>0, <3>5, <4>1, <4>3
        <5>2. calls'[i] = calls[i]
          BY <3>1, <4>1, <4>3
        <5>. QED BY <4>1, <5>1, <5>2
      <4>. QED BY <4>2, <4>3
    <3>. QED BY <3>2, <3>3, <3>4, <3>6 DEF WatchInv
  <2>. QED BY <1>4, <2>1, <2>2, <2>3 DEF HandleNext
<1>5. CASE Returns
  <2>1. /\ watcher.at = "calling" /\ handled' = handled \cup {watcher.next + 1} /\ UNCHANGED calls
        /\ watcher' = [watcher EXCEPT !.at = "handling", !.next = watcher.next + 1]
    BY <1>5, <1>0 DEF Returns
  <2>r. /\ watcher.cursor <= watcher.next /\ watcher.next < watcher.upto /\ watcher.upto <= Len(log)
    BY <2>1 DEF WatchInv, WatchRange
  <2>2. WatchType'
    <3>1. watcher.next + 1 \in Nat /\ "handling" \in WatcherAt
      BY <1>0 DEF WatcherAt
    <3>2. watcher' \in [at : WatcherAt, cursor : Nat, next : Nat, upto : Nat, stopped : BOOLEAN]
      BY <1>0, <2>1, <3>1
    <3>. QED BY <1>0, <1>l, <2>1, <3>1, <3>2 DEF WatchInv, WatchType
  <2>3. WatchRange'
    BY <1>0, <1>l, <2>r, <2>1 DEF WatchInv, WatchRange
  <2>4. WatchDelivers'
    <3>1. watcher'.next = watcher.next + 1 /\ watcher'.cursor = watcher.cursor /\ watcher'.at = "handling"
      BY <1>0, <2>1
    <3>2. ASSUME resumed.late = FALSE
          PROVE  /\ HandledUpTo(watcher.cursor) /\ HandledUpTo(watcher.next)
                 /\ saved.late = FALSE => HandledUpTo(saved.cursor)
                 /\ \A i \in handled, j \in Known : j < i => j \in handled
      BY <2>1, <3>2 DEF WatchInv, WatchDelivers
    <3>3. watcher.next \in Nat /\ Len(log) \in Nat /\ \A i \in Known : i \in Nat
      BY <1>0, <1>k
    <3>3a. ASSUME resumed.late = FALSE, NEW i \in Known, i <= watcher.next + 1 PROVE i \in handled'
      <4>1. CASE i = watcher.next + 1
        BY <2>1, <4>1
      <4>2. CASE i <= watcher.next
        BY <2>1, <3>2, <3>3a, <4>2 DEF HandledUpTo
      <4>. QED BY <3>3, <3>3a, <4>1, <4>2
    <3>4. ASSUME resumed.late = FALSE, NEW i \in handled', NEW j \in Known, j < i PROVE j \in handled'
      <4>1. CASE i = watcher.next + 1
        <5>1. j <= watcher.next
          BY <3>3, <3>4, <4>1
        <5>. QED BY <2>1, <3>2, <3>4, <5>1 DEF HandledUpTo
      <4>2. CASE i \in handled
        BY <2>1, <3>2, <3>4, <4>2
      <4>. QED BY <2>1, <4>1, <4>2
    <3>5. resumed.late = TRUE => saved.late = TRUE
      BY DEF WatchInv, WatchDelivers
    <3>. QED BY <1>l, <1>k, <2>1, <3>1, <3>2, <3>3a, <3>4, <3>5 DEF WatchDelivers, HandledUpTo
  <2>5. Place' = Place
    BY <1>0, <2>1 DEF Place
  <2>6. WatchCounts'
    BY <1>l, <1>k, <2>1, <2>5 DEF WatchInv, WatchCounts
  <2>. QED BY <2>2, <2>3, <2>4, <2>6 DEF WatchInv
<1>. QED BY <1>1, <1>2, <1>3, <1>4, <1>5 DEF WatchStep

\* Failures, and what the application does.
LEMMA WatchRestKeepsInv ==
    ASSUME SoundWatch, WatchInv, PollFails \/ Unsubscribe \/ Save \/ Resume
    PROVE  WatchInv'
<1>0. /\ log \in Seq(EventKinds) /\ Len(log) \in Nat /\ Len(log) <= MaxEvents /\ MaxEvents \in Nat
      /\ watcher \in [at : WatcherAt, cursor : Nat, next : Nat, upto : Nat, stopped : BOOLEAN]
      /\ saved \in [cursor : Nat, late : BOOLEAN] /\ resumed \in [times : Nat, late : BOOLEAN]
      /\ calls \in [1..MaxEvents -> Nat] /\ handled \subseteq Nat /\ faults \in Nat
  BY DEF WatchInv, WatchType, SoundWatch
<1>l. log' = log /\ UNCHANGED <<calls, handled>>
  BY DEF PollFails, Unsubscribe, Save, Resume
<1>k. Known' = Known /\ (Readable' <=> Readable) /\ Known \subseteq 1..Len(log)
  BY <1>l, <1>0 DEF Known, Readable
<1>c. ASSUME Readable, NEW i \in Known
      PROVE  /\ calls[i] <= faults + resumed.times + (IF i <= Place THEN 1 ELSE 0)
             /\ i \in 1..MaxEvents /\ calls[i] \in Nat
  BY <1>0, <1>k, <1>c DEF WatchInv, WatchCounts
<1>1. CASE PollFails
  <2>1. /\ watcher.at \in {"asking", "calling"} /\ faults' = faults + 1
        /\ watcher' = [watcher EXCEPT !.at = IF watcher.stopped THEN "over" ELSE "armed"]
        /\ UNCHANGED <<saved, resumed>>
    BY <1>1 DEF PollFails, Rearmed
  <2>2. WatchType'
    BY <1>0, <1>l, <2>1 DEF WatchInv, WatchType, WatcherAt
  <2>3. WatchRange'
    BY <1>0, <1>l, <2>1 DEF WatchInv, WatchRange
  <2>4. WatchDelivers'
    BY <1>0, <1>l, <1>k, <2>1 DEF WatchInv, WatchDelivers, HandledUpTo
  <2>6. WatchCounts'
    <3>. SUFFICES ASSUME Readable, NEW i \in Known
         PROVE  calls[i] <= faults + 1 + resumed.times + (IF i <= Place' THEN 1 ELSE 0)
      BY <1>l, <1>k, <2>1 DEF WatchCounts
    <3>1. (IF i <= Place' THEN 1 ELSE 0) \in {0, 1} /\ (IF i <= Place THEN 1 ELSE 0) \in {0, 1}
      OBVIOUS
    <3>2. calls[i] <= faults + resumed.times + 1
      BY <1>0, <1>c, <3>1
    <3>3. resumed.times \in Nat /\ faults \in Nat /\ calls[i] \in Nat
      BY <1>0, <1>c
    <3>. QED BY <3>1, <3>2, <3>3
  <2>. QED BY <2>2, <2>3, <2>4, <2>6 DEF WatchInv
<1>2. CASE Unsubscribe
  <2>1. /\ watcher' = [watcher EXCEPT !.stopped = TRUE,
                                      !.at = IF watcher.at = "armed" THEN "over" ELSE watcher.at]
        /\ UNCHANGED <<saved, resumed, faults>> /\ watcher.stopped = FALSE
    BY <1>2, <1>0 DEF Unsubscribe
  <2>2. WatchType'
    BY <1>0, <1>l, <2>1 DEF WatchInv, WatchType, WatcherAt
  <2>3. WatchRange'
    BY <1>0, <1>l, <2>1 DEF WatchInv, WatchRange
  <2>4. WatchDelivers'
    BY <1>0, <1>l, <1>k, <2>1 DEF WatchInv, WatchDelivers, HandledUpTo
  <2>5. Place' = Place
    BY <1>0, <2>1 DEF Place
  <2>6. WatchCounts'
    BY <1>l, <1>k, <2>1, <2>5 DEF WatchInv, WatchCounts
  <2>. QED BY <2>2, <2>3, <2>4, <2>6 DEF WatchInv
<1>3. CASE Save
  <2>1. /\ saved' = [cursor |-> watcher.cursor, late |-> resumed.late \/ watcher.stopped]
        /\ UNCHANGED <<watcher, resumed, faults>>
    BY <1>3 DEF Save
  <2>s. saved'.cursor = watcher.cursor /\ (saved'.late = (resumed.late \/ watcher.stopped))
    BY <2>1
  <2>2. WatchType'
    BY <1>0, <1>l, <2>1 DEF WatchInv, WatchType
  <2>3. WatchRange'
    BY <1>0, <1>l, <2>1, <2>s DEF WatchInv, WatchRange
  <2>4. WatchDelivers'
    <3>1. saved'.late = FALSE => resumed.late = FALSE /\ watcher.at # "over"
      BY <1>0, <2>s DEF WatchInv, WatchRange
    <3>2. resumed.late = TRUE => saved'.late = TRUE
      BY <1>0, <2>s
    <3>. QED BY <1>l, <1>k, <2>1, <2>s, <3>1, <3>2 DEF WatchInv, WatchDelivers, HandledUpTo
  <2>5. Place' = Place
    BY <1>0, <2>1 DEF Place
  <2>6. WatchCounts'
    BY <1>l, <1>k, <2>1, <2>5 DEF WatchInv, WatchCounts
  <2>. QED BY <2>2, <2>3, <2>4, <2>6 DEF WatchInv
<1>4. CASE Resume
  <2>1. /\ watcher' = From(saved.cursor) /\ UNCHANGED <<saved, faults>>
        /\ resumed' = [times |-> resumed.times + 1, late |-> saved.late]
    BY <1>4 DEF Resume
  <2>w. /\ watcher'.at = "armed" /\ watcher'.cursor = saved.cursor /\ watcher'.stopped = FALSE
        /\ resumed'.times = resumed.times + 1 /\ resumed'.late = saved.late
    BY <2>1 DEF From
  <2>2. WatchType'
    BY <1>0, <1>l, <2>1 DEF WatchInv, WatchType, WatcherAt, From
  <2>3. WatchRange'
    BY <1>0, <1>l, <2>1, <2>w DEF WatchInv, WatchRange
  <2>4. WatchDelivers'
    <3>1. saved.late = FALSE => resumed.late = FALSE
      BY <1>0 DEF WatchInv, WatchDelivers
    <3>. QED BY <1>l, <1>k, <2>1, <2>w, <3>1 DEF WatchInv, WatchDelivers, HandledUpTo
  <2>6. WatchCounts'
    <3>. SUFFICES ASSUME Readable, NEW i \in Known
         PROVE  calls[i] <= faults + (resumed.times + 1) + (IF i <= Place' THEN 1 ELSE 0)
      BY <1>l, <1>k, <2>1, <2>w DEF WatchCounts
    <3>1. (IF i <= Place' THEN 1 ELSE 0) \in {0, 1} /\ (IF i <= Place THEN 1 ELSE 0) \in {0, 1}
      OBVIOUS
    <3>2. calls[i] <= faults + resumed.times + 1
      BY <1>0, <1>c, <3>1
    <3>3. resumed.times \in Nat /\ faults \in Nat /\ calls[i] \in Nat
      BY <1>0, <1>c
    <3>. QED BY <3>1, <3>2, <3>3
  <2>. QED BY <2>2, <2>3, <2>4, <2>6 DEF WatchInv
<1>. QED BY <1>1, <1>2, <1>3, <1>4

LEMMA WatchNextInv == SoundWatch /\ WatchInv /\ [WatchNext]_watchVars => WatchInv'
<1>. SUFFICES ASSUME SoundWatch, WatchInv, [WatchNext]_watchVars PROVE WatchInv'
  OBVIOUS
<1>1. CASE WatchNext
  BY <1>1, EmitKeepsInv, WatchStepKeepsInv, WatchRestKeepsInv DEF WatchNext
<1>2. CASE UNCHANGED watchVars
  BY <1>2 DEF watchVars, WatchInv, WatchType, WatchRange, WatchDelivers, WatchCounts,
              HandledUpTo, Known, Readable, Place
<1>. QED BY <1>1, <1>2

\* For any page size, numbers of events, faults and resumptions: a cursor read
\* while subscribed passes no event the callback has not returned from, and
\* the events handled are the first of the log, across failed polls, throwing
\* callbacks and resumptions from such a cursor.
THEOREM PassedEventsAreDelivered == SoundWatch => (WatchSpec => []PassedIsDelivered)
<1>. SUFFICES ASSUME SoundWatch PROVE WatchSpec => []PassedIsDelivered
  OBVIOUS
<1>1. WatchInv => PassedIsDelivered
  <2>. SUFFICES ASSUME WatchInv, ~resumed.late PROVE
          /\ ~watcher.stopped => HandledUpTo(watcher.cursor)
          /\ ~saved.late => HandledUpTo(saved.cursor)
          /\ \A i \in handled, j \in Known : j < i => j \in handled
    BY DEF PassedIsDelivered, HandledUpTo
  <2>1. /\ resumed.late = FALSE /\ (~saved.late => saved.late = FALSE)
        /\ ~watcher.stopped => watcher.at # "over"
    BY DEF WatchInv, WatchType, WatchRange
  <2>. QED BY <2>1 DEF WatchInv, WatchDelivers
<1>. QED BY <1>1, WatchInitInv, WatchNextInv, PTL DEF WatchSpec

\* For any instance the callback is called again with an event at most once for
\* each fault and each resumption, while every event can be decoded.
THEOREM CallbacksRepeatForAReason == SoundWatch => (WatchSpec => []RepeatsAreExplained)
<1>. SUFFICES ASSUME SoundWatch PROVE WatchSpec => []RepeatsAreExplained
  OBVIOUS
<1>1. WatchInv => RepeatsAreExplained
  <2>. SUFFICES ASSUME WatchInv, Readable, NEW i \in Known PROVE calls[i] <= 1 + faults + resumed.times
    BY DEF RepeatsAreExplained
  <2>1. /\ calls[i] <= faults + resumed.times + (IF i <= Place THEN 1 ELSE 0)
        /\ faults \in Nat /\ resumed.times \in Nat
    BY DEF WatchInv, WatchType, WatchCounts
  <2>2. calls[i] \in Nat
    <3>1. DOMAIN log = 1..Len(log) /\ Len(log) <= MaxEvents /\ Len(log) \in Nat /\ MaxEvents \in Nat
      BY DEF WatchInv, WatchType, SoundWatch
    <3>2. i \in 1..MaxEvents
      BY <3>1 DEF Known
    <3>. QED BY <3>2 DEF WatchInv, WatchType
  <2>. QED BY <2>1, <2>2
<1>. QED BY <1>1, WatchInitInv, WatchNextInv, PTL DEF WatchSpec

-----------------------------------------------------------------------------
(* The tools of an agent's framework.                                      *)

Pays(c) == toolCalls[c].tool = "stellaragent_pay"
Ids == {NoHash} \cup ({"tool", "sdk"} \X ToolCalls)
Answers == {"none", "ok", "blocked", "UNKNOWN_TOOL", "PAYMENT_REFUSED", "SDK_ERROR"}

ToolsType ==
    /\ policy \in [cap : {0, 1}, allowed : {{}, {"known"}}, dry : BOOLEAN]
    /\ sessionSpent \in Nat /\ overlapped \in BOOLEAN /\ landed \subseteq ToolCalls
    /\ toolCalls \in [ToolCalls -> [tool : ToolNames \cup {"none"}, at : {"new", "sdk", "answered"},
                                    request : Requests, answer : Answers, id : Ids]]

\* A payment is at the SDK, or was, only if the policy let it through; what is
\* in the ledger was at the SDK.
CallIsJudged(c) ==
    /\ toolCalls[c].at = "new" => toolCalls[c].tool = "none" /\ c \notin landed
    /\ toolCalls[c].at # "answered" => toolCalls[c].answer = "none"
    /\ toolCalls[c].at = "sdk" \/ c \in landed => toolCalls[c].tool # "none"
    /\ Pays(c) => /\ policy.dry = FALSE
                  /\ policy.cap > 0 => toolCalls[c].request.amount <= policy.cap
                  /\ policy.allowed # {} => toolCalls[c].request.recipient \in policy.allowed
    /\ Pays(c) /\ c \in landed /\ toolCalls[c].answer = "ok" =>
         \E e \in auditLog : e.call = c /\ e.action = "pay"
CallsAreJudged == \A c \in ToolCalls : CallIsJudged(c)

\* While payments come one at a time, the one at the SDK is within the budget.
BudgetIsReserved ==
    /\ policy.dry = FALSE => sessionSpent = Total(PaidAndAnswered)
    /\ overlapped = FALSE =>
         /\ sessionSpent <= Budget
         /\ \A c \in ToolCalls : Pays(c) /\ toolCalls[c].at = "sdk" =>
              /\ sessionSpent + toolCalls[c].request.amount <= Budget
              /\ \A d \in ToolCalls : Pays(d) /\ toolCalls[d].at = "sdk" => d = c

\* What is in the ledger is traced under the SDK's id, and only under that.
Carries(some, c) == {t \in some : t.hash = <<"hash", c>>}
IsTraced(c) ==
    /\ c \in landed => /\ Carries(traces.records, c) = {Trace(<<"sdk", c>>, <<"hash", c>>)}
                       /\ Carries(traces.index, c) = {Trace(<<"sdk", c>>, <<"hash", c>>)}
    /\ c \notin landed => Carries(traces.records, c) = {} /\ Carries(traces.index, c) = {}
    /\ Pays(c) /\ c \in landed /\ toolCalls[c].answer = "ok" => toolCalls[c].id = <<"sdk", c>>
TracesAreLinked == DOMAIN traces = {"records", "index"} /\ \A c \in ToolCalls : IsTraced(c)

ToolsInv == ToolsType /\ CallsAreJudged /\ BudgetIsReserved /\ TracesAreLinked

LEMMA ToolsInitInv == SoundTools /\ ToolsInit => ToolsInv
<1>. SUFFICES ASSUME SoundTools, ToolsInit PROVE ToolsInv
  OBVIOUS
<1>1. NoRequest \in Requests
  BY DEF NoRequest, Requests, Recipients, SoundTools
<1>2. Uncalled \in [tool : ToolNames \cup {"none"}, at : {"new", "sdk", "answered"},
                    request : Requests, answer : Answers, id : Ids]
  BY <1>1 DEF Uncalled, Answers, Ids, NoHash
<1>3. ToolsType
  BY <1>2 DEF ToolsInit, ToolsType
<1>4. \A c \in ToolCalls : toolCalls[c] = Uncalled
  BY DEF ToolsInit
<1>5. CallsAreJudged
  BY <1>4 DEF ToolsInit, CallsAreJudged, CallIsJudged, Pays, Uncalled
<1>6. PaidAndAnswered \in [ToolCalls -> Nat] /\ \A c \in ToolCalls : PaidAndAnswered[c] = 0
  BY DEF ToolsInit, PaidAndAnswered, Payments
<1>7. Total(PaidAndAnswered) = 0
  BY <1>6, TotalZero
<1>8. BudgetIsReserved
  BY <1>4, <1>7 DEF ToolsInit, BudgetIsReserved, Pays, Uncalled, SoundTools
<1>9. TracesAreLinked
  BY DEF ToolsInit, TracesAreLinked, IsTraced, Carries
<1>. QED BY <1>3, <1>5, <1>8, <1>9 DEF ToolsInv

\* What a call adds to the payments the policy should remember.
LEMMA PaidWhenAnswered ==
    ASSUME SoundTools, ToolsType
    PROVE  /\ PaidAndAnswered \in [ToolCalls -> Nat]
           /\ \A c \in ToolCalls : PaidAndAnswered[c] =
                IF Pays(c) /\ c \in landed /\ toolCalls[c].answer = "ok"
                THEN toolCalls[c].request.amount ELSE 0
<1>1. \A c \in ToolCalls : toolCalls[c].request.amount \in Nat
  BY DEF ToolsType, Requests, SoundTools
<1>. QED BY <1>1 DEF PaidAndAnswered, Payments, Unanswered, Pays

\* A step of one call that does not answer a payment leaves them alone.
LEMMA PaidUnlessAnswered ==
    ASSUME SoundTools, ToolsType, ToolsType', NEW c \in ToolCalls,
           \A d \in ToolCalls \ {c} : toolCalls'[d] = toolCalls[d] /\ (d \in landed' <=> d \in landed),
           ~(Pays(c) /\ c \in landed /\ toolCalls[c].answer = "ok"),
           ~(Pays(c) /\ c \in landed /\ toolCalls[c].answer = "ok")'
    PROVE  PaidAndAnswered' = PaidAndAnswered
<1>1. \A d \in ToolCalls : PaidAndAnswered[d] =
        IF Pays(d) /\ d \in landed /\ toolCalls[d].answer = "ok" THEN toolCalls[d].request.amount ELSE 0
  BY DEF PaidAndAnswered, Payments, Unanswered, Pays
<1>2. \A d \in ToolCalls : PaidAndAnswered'[d] =
        IF (Pays(d) /\ d \in landed /\ toolCalls[d].answer = "ok")'
        THEN toolCalls'[d].request.amount ELSE 0
  BY DEF PaidAndAnswered, Payments, Unanswered, Pays
<1>3. \A d \in ToolCalls : PaidAndAnswered'[d] = PaidAndAnswered[d]
  <2>. TAKE d \in ToolCalls
  <2>1. CASE d = c
    BY <1>1, <1>2, <2>1
  <2>2. CASE d # c
    BY <1>1, <1>2, <2>2 DEF Pays
  <2>. QED BY <2>1, <2>2
<1>4. /\ PaidAndAnswered = [d \in ToolCalls |-> PaidAndAnswered[d]]
      /\ PaidAndAnswered' = [d \in ToolCalls |-> PaidAndAnswered'[d]]
  BY DEF PaidAndAnswered
<1>. QED BY <1>3, <1>4

\* What is left of a call when it is answered, and when it begins.
LEMMA AnswerFields ==
    ASSUME ToolsType, NEW c \in ToolCalls, NEW answer \in Answers, NEW id \in Ids,
           toolCalls' = Answer(c, answer, id)
    PROVE  /\ toolCalls' \in [ToolCalls -> [tool : ToolNames \cup {"none"}, at : {"new", "sdk", "answered"},
                                            request : Requests, answer : Answers, id : Ids]]
           /\ toolCalls'[c].at = "answered" /\ toolCalls'[c].answer = answer /\ toolCalls'[c].id = id
           /\ toolCalls'[c].tool = toolCalls[c].tool /\ toolCalls'[c].request = toolCalls[c].request
           /\ \A d \in ToolCalls \ {c} : toolCalls'[d] = toolCalls[d]
<1>1. toolCalls' = [toolCalls EXCEPT ![c] = [toolCalls[c] EXCEPT !.at = "answered", !.answer = answer, !.id = id]]
  BY DEF Answer, ToolsType
<1>2. toolCalls[c] \in [tool : ToolNames \cup {"none"}, at : {"new", "sdk", "answered"},
                        request : Requests, answer : Answers, id : Ids]
  BY DEF ToolsType
<1>3. "answered" \in {"new", "sdk", "answered"}
  OBVIOUS
<1>. DEFINE Calls == [tool : ToolNames \cup {"none"}, at : {"new", "sdk", "answered"},
                      request : Requests, answer : Answers, id : Ids]
<1>4. [toolCalls[c] EXCEPT !.at = "answered", !.answer = answer, !.id = id] \in Calls
  BY <1>2
<1>5. toolCalls \in [ToolCalls -> Calls]
  BY DEF ToolsType
<1>. HIDE DEF Calls
<1>6. /\ toolCalls' \in [ToolCalls -> Calls]
      /\ toolCalls'[c] = [toolCalls[c] EXCEPT !.at = "answered", !.answer = answer, !.id = id]
      /\ \A d \in ToolCalls \ {c} : toolCalls'[d] = toolCalls[d]
  BY <1>1, <1>4, <1>5
<1>7. /\ toolCalls'[c].at = "answered" /\ toolCalls'[c].answer = answer /\ toolCalls'[c].id = id
      /\ toolCalls'[c].tool = toolCalls[c].tool /\ toolCalls'[c].request = toolCalls[c].request
  BY <1>2, <1>6
<1>. QED BY <1>6, <1>7 DEF Calls

LEMMA BeginFields ==
    ASSUME ToolsType, NEW c \in ToolCalls, NEW tool \in ToolNames, NEW request \in Requests,
           toolCalls' = [toolCalls EXCEPT ![c] = [Begin(c, tool, request) EXCEPT !.at = "sdk"]]
    PROVE  /\ toolCalls' \in [ToolCalls -> [tool : ToolNames \cup {"none"}, at : {"new", "sdk", "answered"},
                                            request : Requests, answer : Answers, id : Ids]]
           /\ toolCalls'[c].at = "sdk" /\ toolCalls'[c].answer = toolCalls[c].answer
           /\ toolCalls'[c].tool = tool /\ toolCalls'[c].request = request
           /\ \A d \in ToolCalls \ {c} : toolCalls'[d] = toolCalls[d]
<1>1. toolCalls[c] \in [tool : ToolNames \cup {"none"}, at : {"new", "sdk", "answered"},
                        request : Requests, answer : Answers, id : Ids]
  BY DEF ToolsType
<1>. QED BY <1>1 DEF ToolsType, Begin

\* A step of one call leaves the others' facts true.
LEMMA OthersAreJudged ==
    ASSUME ToolsType, CallsAreJudged, NEW c \in ToolCalls, CallIsJudged(c)', policy' = policy,
           \A d \in ToolCalls \ {c} : toolCalls'[d] = toolCalls[d] /\ (d \in landed' <=> d \in landed),
           auditLog \subseteq auditLog'
    PROVE  CallsAreJudged'
<1>1. ASSUME NEW d \in ToolCalls \ {c} PROVE CallIsJudged(d)'
  <2>1. CallIsJudged(d) /\ toolCalls'[d] = toolCalls[d] /\ (d \in landed' <=> d \in landed)
    BY DEF CallsAreJudged
  <2>. QED BY <2>1 DEF CallIsJudged, Pays
<1>. QED BY <1>1 DEF CallsAreJudged

LEMMA BudgetUnmoved ==
    ASSUME ToolsType, BudgetIsReserved, NEW c \in ToolCalls,
           PaidAndAnswered' = PaidAndAnswered,
           sessionSpent' = sessionSpent, overlapped' = overlapped, policy' = policy,
           \A d \in ToolCalls \ {c} : toolCalls'[d] = toolCalls[d],
           ~(Pays(c) /\ toolCalls[c].at = "sdk")' \/ toolCalls'[c] = toolCalls[c]
    PROVE  BudgetIsReserved'
<1>1. \A d \in ToolCalls : (Pays(d) /\ toolCalls[d].at = "sdk")' =>
        Pays(d) /\ toolCalls[d].at = "sdk" /\ toolCalls'[d] = toolCalls[d]
  BY DEF Pays
<1>. QED BY <1>1 DEF BudgetIsReserved

\* Traces under the tool's id carry no hash, so they link nothing.
LEMMA TracesUnmoved ==
    ASSUME TracesAreLinked, NEW c \in ToolCalls, landed' = landed,
           traces' = traces \/ traces' = RegisterPaymentTrace(<<"tool", c>>),
           \A d \in ToolCalls \ {c} : toolCalls'[d] = toolCalls[d],
           ~(Pays(c) /\ c \in landed /\ toolCalls[c].answer = "ok")' \/ toolCalls'[c] = toolCalls[c]
    PROVE  TracesAreLinked'
<1>1. /\ DOMAIN traces' = {"records", "index"} /\ traces'.index = traces.index
      /\ traces'.records \in {traces.records, traces.records \cup {Trace(<<"tool", c>>, NoHash)}}
  BY DEF TracesAreLinked, RegisterPaymentTrace
<1>2. \A d \in ToolCalls : Trace(<<"tool", c>>, NoHash).hash # <<"hash", d>>
  BY DEF Trace, NoHash
<1>3. \A d \in ToolCalls : /\ Carries(traces'.records, d) = Carries(traces.records, d)
                           /\ Carries(traces'.index, d) = Carries(traces.index, d)
  BY <1>1, <1>2 DEF Carries
<1>4. \A d \in ToolCalls : (Pays(d) /\ d \in landed /\ toolCalls[d].answer = "ok")' =>
        Pays(d) /\ d \in landed /\ toolCalls[d].answer = "ok" /\ toolCalls'[d] = toolCalls[d]
  BY DEF Pays
<1>5. ASSUME NEW d \in ToolCalls PROVE IsTraced(d)'
  <2>1. IsTraced(d)
    BY DEF TracesAreLinked
  <2>. QED BY <1>3, <1>4, <2>1 DEF IsTraced
<1>. QED BY <1>1, <1>5 DEF TracesAreLinked

LEMMA AttemptsAreKept ==
    ASSUME NEW c, NEW action, NEW request, RecordAttempt(c, action, request)
    PROVE  /\ auditLog \subseteq auditLog'
           /\ \E e \in auditLog' : e.call = c /\ e.action = action
<1>. DEFINE entry == [call |-> c, action |-> action, amount |-> request.amount,
                      recipient |-> request.recipient, spent |-> sessionSpent']
<1>1. auditLog' = auditLog \cup {entry}
  BY DEF RecordAttempt
<1>2. entry.call = c /\ entry.action = action
  OBVIOUS
<1>. HIDE DEF entry
<1>. QED BY <1>1, <1>2

\* Steps that move no money: an unknown tool, a quote, a refusal, a dry run and
\* a lost answer are answered,
LEMMA ToolsIdleAnswer ==
    ASSUME SoundTools, ToolsInv, NEW c \in ToolCalls, NEW answer \in Answers, NEW id \in Ids,
           policy' = policy, landed' = landed, sessionSpent' = sessionSpent, overlapped' = overlapped,
           auditLog \subseteq auditLog',
           traces' = traces \/ traces' = RegisterPaymentTrace(<<"tool", c>>),
           toolCalls[c].at # "answered", toolCalls' = Answer(c, answer, id),
           answer = "ok" => toolCalls[c].tool # "stellaragent_pay" \/ c \notin landed
    PROVE  ToolsInv'
<1>0. /\ ToolsType /\ CallsAreJudged /\ BudgetIsReserved /\ TracesAreLinked /\ CallIsJudged(c)
  BY DEF ToolsInv, CallsAreJudged
<1>1. /\ toolCalls' \in [ToolCalls -> [tool : ToolNames \cup {"none"}, at : {"new", "sdk", "answered"},
                                       request : Requests, answer : Answers, id : Ids]]
      /\ toolCalls'[c].at = "answered" /\ toolCalls'[c].answer = answer
      /\ toolCalls'[c].tool = toolCalls[c].tool /\ toolCalls'[c].request = toolCalls[c].request
      /\ \A d \in ToolCalls \ {c} : toolCalls'[d] = toolCalls[d]
  BY <1>0, AnswerFields
<1>2. ToolsType'
  BY <1>0, <1>1 DEF ToolsType
<1>3. ~(Pays(c) /\ c \in landed /\ toolCalls[c].answer = "ok")'
  BY <1>1 DEF Pays
<1>4. ~(Pays(c) /\ c \in landed /\ toolCalls[c].answer = "ok")
  BY <1>0 DEF CallIsJudged
<1>5. CallIsJudged(c)'
  BY <1>0, <1>1, <1>3 DEF CallIsJudged, Pays
<1>6. CallsAreJudged'
  BY <1>0, <1>1, <1>5, OthersAreJudged
<1>7. PaidAndAnswered' = PaidAndAnswered
  BY <1>0, <1>1, <1>2, <1>3, <1>4, PaidUnlessAnswered
<1>8. BudgetIsReserved'
  BY <1>0, <1>1, <1>7, BudgetUnmoved
<1>9. TracesAreLinked'
  BY <1>0, <1>1, <1>3, TracesUnmoved
<1>. QED BY <1>2, <1>6, <1>8, <1>9 DEF ToolsInv

\* and the tools no policy judges begin.
LEMMA ToolsIdleBegin ==
    ASSUME SoundTools, ToolsInv, NEW c \in ToolCalls, NEW tool \in Reading \cup Writing, Forward(c, tool)
    PROVE  ToolsInv'
<1>0. /\ ToolsType /\ CallsAreJudged /\ BudgetIsReserved /\ TracesAreLinked /\ CallIsJudged(c)
      /\ toolCalls[c].at = "new" /\ UNCHANGED <<policy, sessionSpent, auditLog, landed, traces, overlapped>>
      /\ tool \in ToolNames /\ tool # "stellaragent_pay" /\ tool # "none" /\ NoRequest \in Requests
  BY DEF ToolsInv, CallsAreJudged, Forward, ToolNames, Reading, Writing, NoRequest, Requests,
         Recipients, SoundTools
<1>1. /\ toolCalls' \in [ToolCalls -> [tool : ToolNames \cup {"none"}, at : {"new", "sdk", "answered"},
                                       request : Requests, answer : Answers, id : Ids]]
      /\ toolCalls'[c].at = "sdk" /\ toolCalls'[c].answer = toolCalls[c].answer
      /\ toolCalls'[c].tool = tool
      /\ \A d \in ToolCalls \ {c} : toolCalls'[d] = toolCalls[d]
  BY <1>0, BeginFields DEF Forward
<1>2. ToolsType'
  BY <1>0, <1>1 DEF ToolsType
<1>3. ~Pays(c)' /\ ~(Pays(c) /\ c \in landed /\ toolCalls[c].answer = "ok")'
  BY <1>0, <1>1 DEF Pays
<1>4. ~(Pays(c) /\ c \in landed /\ toolCalls[c].answer = "ok")
  BY <1>0 DEF CallIsJudged
<1>5. CallIsJudged(c)'
  BY <1>0, <1>1, <1>3 DEF CallIsJudged
<1>6. CallsAreJudged'
  BY <1>0, <1>1, <1>5, OthersAreJudged
<1>7. PaidAndAnswered' = PaidAndAnswered
  BY <1>0, <1>1, <1>2, <1>3, <1>4, PaidUnlessAnswered
<1>8. BudgetIsReserved'
  BY <1>0, <1>1, <1>3, <1>7, BudgetUnmoved
<1>9. TracesAreLinked'
  BY <1>0, <1>1, <1>3, TracesUnmoved
<1>. QED BY <1>2, <1>6, <1>8, <1>9 DEF ToolsInv

\* A payment that the policy let through.
LEMMA PaymentBegins ==
    ASSUME SoundTools, ToolsInv, NEW c \in ToolCalls, NEW request \in Requests,
           toolCalls[c].at = "new", Reasons(request) = {}, ~policy.dry,
           traces' = RegisterPaymentTrace(<<"tool", c>>),
           toolCalls' = [toolCalls EXCEPT ![c] = [Begin(c, "stellaragent_pay", request) EXCEPT !.at = "sdk"]],
           overlapped' = (overlapped \/ \E d \in AtSdk : toolCalls[d].tool = "stellaragent_pay"),
           UNCHANGED <<policy, landed, sessionSpent, auditLog>>
    PROVE  ToolsInv'
<1>0. /\ ToolsType /\ CallsAreJudged /\ BudgetIsReserved /\ TracesAreLinked /\ CallIsJudged(c)
      /\ "stellaragent_pay" \in ToolNames /\ policy.dry = FALSE
  BY DEF ToolsInv, CallsAreJudged, ToolNames, Judged, ToolsType
<1>1. /\ toolCalls' \in [ToolCalls -> [tool : ToolNames \cup {"none"}, at : {"new", "sdk", "answered"},
                                       request : Requests, answer : Answers, id : Ids]]
      /\ toolCalls'[c].at = "sdk" /\ toolCalls'[c].answer = toolCalls[c].answer
      /\ toolCalls'[c].tool = "stellaragent_pay" /\ toolCalls'[c].request = request
      /\ \A d \in ToolCalls \ {c} : toolCalls'[d] = toolCalls[d]
  BY <1>0, BeginFields
<1>2. ToolsType'
  BY <1>0, <1>1 DEF ToolsType
<1>3. /\ sessionSpent + request.amount <= Budget
      /\ policy.cap > 0 => request.amount <= policy.cap
      /\ policy.allowed # {} => request.recipient \in policy.allowed
  <2>1. /\ sessionSpent \in Nat /\ request.amount \in Nat /\ Budget \in Nat /\ policy.cap \in Nat
    BY <1>0 DEF ToolsType, Requests, SoundTools
  <2>2. /\ {r \in {"rate_limit_hourly"} : sessionSpent + request.amount > Budget} = {}
        /\ {r \in {"rate_limit_per_tx"} : policy.cap > 0 /\ request.amount > policy.cap} = {}
        /\ {r \in {"recipient_not_allowed"} : policy.allowed # {} /\ request.recipient \notin policy.allowed} = {}
    BY DEF Reasons
  <2>3. ~(sessionSpent + request.amount > Budget)
    BY <2>2
  <2>4. ~(policy.cap > 0 /\ request.amount > policy.cap)
    BY <2>2
  <2>5. ~(policy.allowed # {} /\ request.recipient \notin policy.allowed)
    BY <2>2
  <2>. QED BY <2>1, <2>3, <2>4, <2>5
<1>4. /\ ~(Pays(c) /\ c \in landed /\ toolCalls[c].answer = "ok")
      /\ ~(Pays(c) /\ c \in landed /\ toolCalls[c].answer = "ok")'
  BY <1>0, <1>1 DEF CallIsJudged, Pays
<1>5. CallIsJudged(c)'
  BY <1>0, <1>1, <1>3, <1>4 DEF CallIsJudged, Pays
<1>6. CallsAreJudged'
  BY <1>0, <1>1, <1>5, OthersAreJudged
<1>7. PaidAndAnswered' = PaidAndAnswered
  BY <1>0, <1>1, <1>2, <1>4, PaidUnlessAnswered
<1>8. BudgetIsReserved'
  <2>1. ASSUME overlapped' = FALSE
        PROVE  /\ overlapped = FALSE
               /\ \A d \in ToolCalls : ~(Pays(d) /\ toolCalls[d].at = "sdk")
    BY <1>0, <2>1 DEF AtSdk, Pays, ToolsType
  <2>2. ASSUME overlapped' = FALSE, NEW d \in ToolCalls, (Pays(d) /\ toolCalls[d].at = "sdk")'
        PROVE  d = c
    BY <1>1, <2>1, <2>2 DEF Pays
  <2>3. overlapped' = FALSE => sessionSpent <= Budget
    BY <1>0, <2>1 DEF BudgetIsReserved
  <2>. QED BY <1>0, <1>1, <1>3, <1>7, <2>2, <2>3 DEF BudgetIsReserved
<1>9. TracesAreLinked'
  BY <1>0, <1>1, <1>4, TracesUnmoved
<1>. QED BY <1>2, <1>6, <1>8, <1>9 DEF ToolsInv

LEMMA PayForApiKeepsInv ==
    ASSUME SoundTools, ToolsInv, NEW c \in ToolCalls, NEW request \in Requests, PayForApi(c, request)
    PROVE  ToolsInv'
<1>0. /\ ToolsType /\ CallIsJudged(c) /\ toolCalls[c].at = "new" /\ UNCHANGED <<policy, landed>>
      /\ c \notin landed /\ NoHash \in Ids /\ <<"tool", c>> \in Ids
      /\ {"ok", "PAYMENT_REFUSED"} \subseteq Answers
  BY DEF ToolsInv, CallsAreJudged, CallIsJudged, PayForApi, Ids, Answers
<1>1. CASE /\ RecordAttempt(c, "refused", request) /\ UNCHANGED <<traces, overlapped>>
           /\ toolCalls' = Answer(c, "PAYMENT_REFUSED", NoHash)
  <2>1. sessionSpent' = sessionSpent
    BY <1>1 DEF RecordAttempt
  <2>. QED BY <1>0, <1>1, <2>1, AttemptsAreKept, ToolsIdleAnswer
<1>2. CASE /\ traces' = RegisterPaymentTrace(<<"tool", c>>) /\ policy.dry
           /\ RecordAttempt(c, "pay", request) /\ UNCHANGED overlapped
           /\ toolCalls' = Answer(c, "ok", <<"tool", c>>)
  <2>1. sessionSpent' = sessionSpent
    BY <1>2 DEF RecordAttempt
  <2>2. auditLog \subseteq auditLog'
    BY <1>2, AttemptsAreKept
  <2>. QED BY <1>0, <1>2, <2>1, <2>2, ToolsIdleAnswer
<1>3. CASE /\ Reasons(request) = {} /\ traces' = RegisterPaymentTrace(<<"tool", c>>) /\ ~policy.dry
           /\ toolCalls' = [toolCalls EXCEPT ![c] = [Begin(c, "stellaragent_pay", request) EXCEPT !.at = "sdk"]]
           /\ overlapped' = (overlapped \/ \E d \in AtSdk : toolCalls[d].tool = "stellaragent_pay")
           /\ UNCHANGED <<sessionSpent, auditLog>>
  BY <1>0, <1>3, PaymentBegins
<1>. QED BY <1>1, <1>2, <1>3 DEF PayForApi

LEMMA ToolsAnsweredAtOnce ==
    ASSUME SoundTools, ToolsInv, NEW c \in ToolCalls,
           \/ UnknownTool(c) \/ SdkThrows(c)
           \/ \E request \in Requests : QuotePayment(c, request)
    PROVE  ToolsInv'
<1>0. /\ ToolsType /\ CallIsJudged(c) /\ NoHash \in Ids
      /\ {"ok", "blocked", "UNKNOWN_TOOL", "SDK_ERROR"} \subseteq Answers
  BY DEF ToolsInv, CallsAreJudged, Ids, Answers
<1>1. CASE UnknownTool(c)
  BY <1>0, <1>1, ToolsIdleAnswer DEF UnknownTool
<1>2. CASE SdkThrows(c)
  BY <1>0, <1>2, ToolsIdleAnswer DEF SdkThrows
<1>3. CASE \E request \in Requests : QuotePayment(c, request)
  <2>1. PICK request \in Requests : QuotePayment(c, request)
    BY <1>3
  <2>. DEFINE action == IF Reasons(request) = {} THEN "quote" ELSE "refused"
              answer == IF Reasons(request) = {} THEN "ok" ELSE "blocked"
  <2>2. /\ toolCalls[c].at = "new" /\ c \notin landed /\ RecordAttempt(c, action, request)
        /\ toolCalls' = Answer(c, answer, NoHash) /\ UNCHANGED <<policy, landed, traces, overlapped>>
        /\ action # "pay" /\ answer \in Answers
    BY <1>0, <2>1 DEF QuotePayment, CallIsJudged
  <2>. HIDE DEF action, answer
  <2>3. sessionSpent' = sessionSpent
    BY <2>2 DEF RecordAttempt
  <2>4. auditLog \subseteq auditLog'
    BY <2>2, AttemptsAreKept
  <2>. QED BY <1>0, <2>2, <2>3, <2>4, ToolsIdleAnswer
<1>. QED BY <1>1, <1>2, <1>3

\* Attaching a call's hash to the SDK's id links the call, and no other.
LEMMA HashIsAttached ==
    ASSUME TracesAreLinked, NEW c \in ToolCalls, landed' = landed \cup {c}, landed \subseteq ToolCalls,
           NEW listed, listed.index = traces.index,
           listed.records \in {traces.records, traces.records \cup {Trace(<<"sdk", c>>, NoHash)}},
           \E t \in listed.records : t.id = <<"sdk", c>>,
           traces' = AttachTransactionHash(listed, <<"sdk", c>>, <<"hash", c>>)
    PROVE  /\ DOMAIN traces' = {"records", "index"}
           /\ \A d \in ToolCalls :
                /\ d \in landed' => /\ Carries(traces'.records, d) = {Trace(<<"sdk", d>>, <<"hash", d>>)}
                                    /\ Carries(traces'.index, d) = {Trace(<<"sdk", d>>, <<"hash", d>>)}
                /\ d \notin landed' => Carries(traces'.records, d) = {} /\ Carries(traces'.index, d) = {}
<1>. DEFINE T(d) == Trace(<<"sdk", d>>, <<"hash", d>>)
            U == Trace(<<"sdk", c>>, NoHash)
<1>1. traces' = [records |-> {t \in listed.records : t.id # <<"sdk", c>>} \cup {T(c)},
                 index |-> {t \in listed.index : t.hash # <<"hash", c>>} \cup {T(c)}]
  BY DEF AttachTransactionHash
<1>2. /\ DOMAIN traces' = {"records", "index"}
      /\ traces'.records = {t \in listed.records : t.id # <<"sdk", c>>} \cup {T(c)}
      /\ traces'.index = {t \in traces.index : t.hash # <<"hash", c>>} \cup {T(c)}
  BY <1>1
<1>3. \A d \in ToolCalls : /\ T(d).hash = <<"hash", d>> /\ T(d).id = <<"sdk", d>>
                           /\ U.hash # <<"hash", d>>
                           /\ d # c => <<"sdk", d>> # <<"sdk", c>> /\ <<"hash", d>> # <<"hash", c>>
  BY DEF Trace, NoHash
<1>4. \A d \in ToolCalls : /\ d \in landed => /\ Carries(traces.records, d) = {T(d)}
                                              /\ Carries(traces.index, d) = {T(d)}
                           /\ d \notin landed => Carries(traces.records, d) = {} /\ Carries(traces.index, d) = {}
  BY DEF TracesAreLinked, IsTraced
<1>. HIDE DEF T, U
<1>5. listed.records \in {traces.records, traces.records \cup {U}}
  BY DEF U
<1>6. ASSUME NEW d \in ToolCalls PROVE Carries(listed.records, d) = Carries(traces.records, d)
  BY <1>3, <1>5 DEF Carries
<1>7. Carries(traces'.records, c) = {T(c)}
  <2>1. ASSUME NEW t \in listed.records, t.id # <<"sdk", c>>, t.hash = <<"hash", c>> PROVE FALSE
    <3>1. t \in Carries(listed.records, c)
      BY <2>1 DEF Carries
    <3>. QED BY <1>3, <1>4, <1>6, <2>1, <3>1
  <2>. QED BY <1>2, <1>3, <2>1 DEF Carries
<1>8. Carries(traces'.index, c) = {T(c)}
  BY <1>2, <1>3 DEF Carries
<1>9. ASSUME NEW d \in ToolCalls, d # c
      PROVE  /\ Carries(traces'.records, d) = Carries(traces.records, d)
             /\ Carries(traces'.index, d) = Carries(traces.index, d)
  <2>1. \A t \in Carries(listed.records, d) : t.id # <<"sdk", c>>
    BY <1>3, <1>4, <1>6, <1>9
  <2>2. Carries(traces'.records, d) = Carries(listed.records, d)
    BY <1>2, <1>3, <1>9, <2>1 DEF Carries
  <2>3. Carries(traces'.index, d) = Carries(traces.index, d)
    BY <1>2, <1>3, <1>9 DEF Carries
  <2>. QED BY <1>6, <2>2, <2>3
<1>10. ASSUME NEW d \in ToolCalls
       PROVE  /\ d \in landed' => Carries(traces'.records, d) = {T(d)} /\ Carries(traces'.index, d) = {T(d)}
              /\ d \notin landed' => Carries(traces'.records, d) = {} /\ Carries(traces'.index, d) = {}
  BY <1>4, <1>7, <1>8, <1>9
<1>. QED BY <1>2, <1>10 DEF T

\* The SDK's own trace of a call takes the hash when the call is sent.
LEMMA SubmitKeepsInv ==
    ASSUME SoundTools, ToolsInv, NEW c \in ToolCalls, Submit(c)
    PROVE  ToolsInv'
<1>0. /\ ToolsType /\ CallsAreJudged /\ BudgetIsReserved /\ TracesAreLinked /\ CallIsJudged(c)
  BY DEF ToolsInv, CallsAreJudged
<1>1. /\ toolCalls[c].at = "sdk" /\ c \notin landed /\ landed' = landed \cup {c}
      /\ UNCHANGED <<policy, sessionSpent, auditLog, toolCalls, overlapped>>
      /\ traces' = AttachTransactionHash(RegisterPaymentTrace(<<"sdk", c>>), <<"sdk", c>>, <<"hash", c>>)
  BY DEF Submit
<1>2. ToolsType'
  BY <1>0, <1>1 DEF ToolsType
<1>3. toolCalls[c].answer = "none"
  BY <1>0, <1>1 DEF CallIsJudged
<1>4. CallIsJudged(c)'
  <2>1. toolCalls[c].tool # "none"
    BY <1>0, <1>1 DEF CallIsJudged
  <2>. QED BY <1>0, <1>1, <1>3, <2>1 DEF CallIsJudged, Pays
<1>5. CallsAreJudged'
  BY <1>0, <1>1, <1>4, OthersAreJudged
<1>6. PaidAndAnswered' = PaidAndAnswered
  <2>1. /\ ~(Pays(c) /\ c \in landed /\ toolCalls[c].answer = "ok")
        /\ ~(Pays(c) /\ c \in landed /\ toolCalls[c].answer = "ok")'
    BY <1>1, <1>3
  <2>2. \A d \in ToolCalls \ {c} : toolCalls'[d] = toolCalls[d] /\ (d \in landed' <=> d \in landed)
    BY <1>1
  <2>. QED BY <1>0, <1>2, <2>1, <2>2, PaidUnlessAnswered
<1>7. BudgetIsReserved'
  BY <1>0, <1>1, <1>6, BudgetUnmoved
<1>8. TracesAreLinked'
  <2>. DEFINE listed == RegisterPaymentTrace(<<"sdk", c>>)
  <2>1. DOMAIN traces = {"records", "index"}
    BY <1>0 DEF TracesAreLinked
  <2>2. /\ listed.index = traces.index
        /\ listed.records = traces.records \cup {Trace(<<"sdk", c>>, NoHash)}
    BY <2>1 DEF RegisterPaymentTrace
  <2>3. \E t \in listed.records : t.id = <<"sdk", c>>
    <3>1. Trace(<<"sdk", c>>, NoHash).id = <<"sdk", c>>
      BY DEF Trace
    <3>. QED BY <2>2, <3>1
  <2>4. landed \subseteq ToolCalls
    BY <1>0 DEF ToolsType
  <2>. HIDE DEF listed
  <2>5. traces' = AttachTransactionHash(listed, <<"sdk", c>>, <<"hash", c>>)
    BY <1>1 DEF listed
  <2>6. /\ DOMAIN traces' = {"records", "index"}
        /\ \A d \in ToolCalls :
             /\ d \in landed' => /\ Carries(traces'.records, d) = {Trace(<<"sdk", d>>, <<"hash", d>>)}
                                 /\ Carries(traces'.index, d) = {Trace(<<"sdk", d>>, <<"hash", d>>)}
             /\ d \notin landed' => Carries(traces'.records, d) = {} /\ Carries(traces'.index, d) = {}
    BY <1>0, <1>1, <2>2, <2>3, <2>4, <2>5, HashIsAttached
  <2>7. ASSUME NEW d \in ToolCalls, (Pays(d) /\ d \in landed /\ toolCalls[d].answer = "ok")'
        PROVE  toolCalls'[d].id = <<"sdk", d>>
    <3>1. d # c
      BY <1>1, <1>3, <2>7
    <3>2. Pays(d) /\ d \in landed /\ toolCalls[d].answer = "ok" /\ toolCalls'[d] = toolCalls[d]
      BY <1>1, <2>7, <3>1 DEF Pays
    <3>. QED BY <1>0, <3>2 DEF TracesAreLinked, IsTraced
  <2>. QED BY <2>6, <2>7 DEF TracesAreLinked, IsTraced
<1>. QED BY <1>2, <1>5, <1>7, <1>8 DEF ToolsInv

\* An answered payment: the policy remembers it, the audit log has it, and it
\* answers with the SDK's id.
LEMMA SdkAnswersKeepsInv ==
    ASSUME SoundTools, ToolsInv, NEW c \in ToolCalls, SdkAnswers(c)
    PROVE  ToolsInv'
<1>0. /\ ToolsType /\ CallsAreJudged /\ BudgetIsReserved /\ TracesAreLinked /\ CallIsJudged(c) /\ IsTraced(c)
      /\ "ok" \in Answers /\ NoHash \in Ids /\ <<"sdk", c>> \in Ids
  BY DEF ToolsInv, CallsAreJudged, TracesAreLinked, Answers, Ids
<1>1. /\ toolCalls[c].at = "sdk" /\ (toolCalls[c].tool \in Reading \/ c \in landed)
      /\ UNCHANGED <<policy, landed, overlapped>>
  BY DEF SdkAnswers
<1>2. CASE toolCalls[c].tool # "stellaragent_pay"
  <2>1. toolCalls' = Answer(c, "ok", NoHash) /\ UNCHANGED <<sessionSpent, auditLog, traces>>
    BY <1>2 DEF SdkAnswers
  <2>. QED BY <1>0, <1>1, <1>2, <2>1, ToolsIdleAnswer
<1>3. CASE toolCalls[c].tool = "stellaragent_pay"
  <2>. DEFINE request == toolCalls[c].request
              T == Trace(<<"sdk", c>>, <<"hash", c>>)
  <2>1. c \in landed /\ policy.dry = FALSE
    BY <1>0, <1>1, <1>3 DEF Reading, CallIsJudged, Pays
  <2>2. LookupPaymentIdByTxHash(<<"hash", c>>, <<"tool", c>>) = <<"sdk", c>>
    <3>1. {t \in traces.index : t.hash = <<"hash", c>>} = {T}
      BY <1>0, <2>1 DEF IsTraced, Carries
    <3>2. T.id = <<"sdk", c>>
      BY DEF Trace
    <3>3. (CHOOSE t \in {T} : TRUE) = T
      OBVIOUS
    <3>. HIDE DEF T
    <3>4. {T} # {}
      OBVIOUS
    <3>. QED BY <3>1, <3>2, <3>3, <3>4 DEF LookupPaymentIdByTxHash
  <2>3. /\ RecordAttempt(c, "pay", request)
        /\ traces' = AttachTransactionHash(traces, <<"sdk", c>>, <<"hash", c>>)
        /\ toolCalls' = Answer(c, "ok", <<"sdk", c>>)
    BY <1>3, <2>2 DEF SdkAnswers
  <2>4. /\ toolCalls' \in [ToolCalls -> [tool : ToolNames \cup {"none"}, at : {"new", "sdk", "answered"},
                                         request : Requests, answer : Answers, id : Ids]]
        /\ toolCalls'[c].at = "answered" /\ toolCalls'[c].answer = "ok" /\ toolCalls'[c].id = <<"sdk", c>>
        /\ toolCalls'[c].tool = toolCalls[c].tool /\ toolCalls'[c].request = request
        /\ \A d \in ToolCalls \ {c} : toolCalls'[d] = toolCalls[d]
    BY <1>0, <2>3, AnswerFields
  <2>5. request.amount \in Nat /\ sessionSpent \in Nat /\ sessionSpent' = sessionSpent + request.amount
    BY <1>0, <2>1, <2>3 DEF RecordAttempt, ToolsType, Requests, SoundTools
  <2>6. /\ auditLog \subseteq auditLog'
        /\ \E e \in auditLog' : e.call = c /\ e.action = "pay"
    BY <2>3, AttemptsAreKept
  <2>7. ToolsType'
    BY <1>0, <1>1, <2>4, <2>5 DEF ToolsType
  <2>8. CallIsJudged(c)'
    BY <1>0, <1>1, <2>4, <2>6 DEF CallIsJudged, Pays
  <2>9. CallsAreJudged'
    BY <1>0, <1>1, <2>4, <2>6, <2>8, OthersAreJudged
  <2>10. Total(PaidAndAnswered') = Total(PaidAndAnswered) + request.amount
    <3>1. /\ PaidAndAnswered \in [ToolCalls -> Nat]
          /\ \A d \in ToolCalls : PaidAndAnswered[d] =
               IF Pays(d) /\ d \in landed /\ toolCalls[d].answer = "ok" THEN toolCalls[d].request.amount ELSE 0
      BY <1>0, PaidWhenAnswered
    <3>2. \A d \in ToolCalls : PaidAndAnswered'[d] =
               IF (Pays(d) /\ d \in landed /\ toolCalls[d].answer = "ok")' THEN toolCalls'[d].request.amount ELSE 0
      BY DEF PaidAndAnswered, Payments, Unanswered, Pays
    <3>3. PaidAndAnswered[c] = 0 /\ PaidAndAnswered'[c] = request.amount
      BY <1>0, <1>1, <1>3, <2>1, <2>4, <3>1, <3>2 DEF CallIsJudged, Pays
    <3>4. \A d \in ToolCalls \ {c} : PaidAndAnswered'[d] = PaidAndAnswered[d]
      BY <1>1, <2>4, <3>1, <3>2 DEF Pays
    <3>5. PaidAndAnswered' \in [ToolCalls -> Nat]
      <4>1. PaidAndAnswered' = [d \in ToolCalls |-> PaidAndAnswered'[d]]
        BY DEF PaidAndAnswered
      <4>2. \A d \in ToolCalls : PaidAndAnswered'[d] \in Nat
        BY <2>5, <3>1, <3>3, <3>4
      <4>. QED BY <4>1, <4>2
    <3>6. IsFiniteSet(ToolCalls)
      BY DEF SoundTools
    <3>7. Total(PaidAndAnswered') = Total(PaidAndAnswered) - 0 + request.amount
      BY <3>1, <3>3, <3>4, <3>5, <3>6, TotalUpdate
    <3>8. Total(PaidAndAnswered) \in Nat
      BY <3>1, <3>6, TotalType
    <3>. QED BY <2>5, <3>7, <3>8
  <2>11. BudgetIsReserved'
    <3>1. sessionSpent' = Total(PaidAndAnswered')
      BY <1>0, <2>1, <2>5, <2>10 DEF BudgetIsReserved
    <3>2. ASSUME overlapped = FALSE
          PROVE  /\ sessionSpent + request.amount <= Budget
                 /\ \A d \in ToolCalls : Pays(d) /\ toolCalls[d].at = "sdk" => d = c
      BY <1>0, <1>1, <1>3, <3>2 DEF BudgetIsReserved, Pays
    <3>3. ASSUME overlapped = FALSE, NEW d \in ToolCalls PROVE ~(Pays(d) /\ toolCalls[d].at = "sdk")'
      BY <2>4, <3>2, <3>3 DEF Pays
    <3>4. overlapped = FALSE => sessionSpent' <= Budget
      BY <2>5, <3>2
    <3>. QED BY <1>1, <3>1, <3>3, <3>4 DEF BudgetIsReserved
  <2>12. TracesAreLinked'
    <3>1. /\ traces.index = traces.index /\ landed' = landed \cup {c} /\ landed \subseteq ToolCalls
          /\ traces.records \in {traces.records, traces.records \cup {Trace(<<"sdk", c>>, NoHash)}}
      BY <1>0, <1>1, <2>1 DEF ToolsType
    <3>2. \E t \in traces.records : t.id = <<"sdk", c>>
      <4>1. T \in Carries(traces.records, c)
        BY <1>0, <2>1 DEF IsTraced
      <4>2. T.id = <<"sdk", c>>
        BY DEF Trace
      <4>. QED BY <4>1, <4>2 DEF Carries
    <3>3. /\ DOMAIN traces' = {"records", "index"}
          /\ \A d \in ToolCalls :
               /\ d \in landed' => /\ Carries(traces'.records, d) = {Trace(<<"sdk", d>>, <<"hash", d>>)}
                                   /\ Carries(traces'.index, d) = {Trace(<<"sdk", d>>, <<"hash", d>>)}
               /\ d \notin landed' => Carries(traces'.records, d) = {} /\ Carries(traces'.index, d) = {}
      BY <1>0, <2>3, <3>1, <3>2, HashIsAttached
    <3>4. ASSUME NEW d \in ToolCalls, (Pays(d) /\ d \in landed /\ toolCalls[d].answer = "ok")'
          PROVE  toolCalls'[d].id = <<"sdk", d>>
      <4>1. CASE d = c
        BY <2>4, <4>1
      <4>2. CASE d # c
        <5>1. Pays(d) /\ d \in landed /\ toolCalls[d].answer = "ok" /\ toolCalls'[d] = toolCalls[d]
          BY <1>1, <2>4, <3>4, <4>2 DEF Pays
        <5>. QED BY <1>0, <5>1 DEF TracesAreLinked, IsTraced
      <4>. QED BY <4>1, <4>2
    <3>. QED BY <3>3, <3>4 DEF TracesAreLinked, IsTraced
  <2>. QED BY <2>7, <2>9, <2>11, <2>12 DEF ToolsInv
<1>. QED BY <1>2, <1>3

LEMMA ToolsNextInv == SoundTools /\ ToolsInv /\ [ToolsNext]_toolVars => ToolsInv'
<1>. SUFFICES ASSUME SoundTools, ToolsInv, [ToolsNext]_toolVars PROVE ToolsInv'
  OBVIOUS
<1>1. CASE ToolsNext
  <2>1. PICK c \in ToolCalls :
          \/ UnknownTool(c) \/ Submit(c) \/ SdkAnswers(c) \/ SdkThrows(c)
          \/ \E request \in Requests : QuotePayment(c, request) \/ PayForApi(c, request)
          \/ \E tool \in Reading \cup Writing : Forward(c, tool)
    BY <1>1 DEF ToolsNext
  <2>2. CASE UnknownTool(c) \/ SdkThrows(c) \/ \E request \in Requests : QuotePayment(c, request)
    BY <2>2, ToolsAnsweredAtOnce
  <2>3. CASE Submit(c)
    BY <2>3, SubmitKeepsInv
  <2>4. CASE SdkAnswers(c)
    BY <2>4, SdkAnswersKeepsInv
  <2>5. CASE \E request \in Requests : PayForApi(c, request)
    BY <2>5, PayForApiKeepsInv
  <2>6. CASE \E tool \in Reading \cup Writing : Forward(c, tool)
    BY <2>6, ToolsIdleBegin
  <2>. QED BY <2>1, <2>2, <2>3, <2>4, <2>5, <2>6
<1>2. CASE UNCHANGED toolVars
  <2>1. /\ ToolsType /\ CallsAreJudged /\ BudgetIsReserved /\ TracesAreLinked
        /\ policy' = policy /\ sessionSpent' = sessionSpent /\ auditLog' = auditLog
        /\ toolCalls' = toolCalls /\ landed' = landed /\ traces' = traces /\ overlapped' = overlapped
    BY <1>2 DEF toolVars, ToolsInv
  <2>2. ToolsType'
    BY <2>1 DEF ToolsType
  <2>3. CallsAreJudged'
    BY <2>1 DEF CallsAreJudged, CallIsJudged, Pays
  <2>4. BudgetIsReserved'
    BY <2>1 DEF BudgetIsReserved, Pays, PaidAndAnswered, Payments, Unanswered
  <2>5. TracesAreLinked'
    BY <2>1 DEF TracesAreLinked, IsTraced, Carries, Pays
  <2>. QED BY <2>2, <2>3, <2>4, <2>5 DEF ToolsInv
<1>. QED BY <1>1, <1>2

\* For any tool calls at once, budgets and prices: what the policy remembers is
\* what was paid and answered, and while payments are asked for one at a time
\* it stays within the budget.
THEOREM BudgetsAreKept == SoundTools => (ToolsSpec => []BudgetIsKept)
<1>. SUFFICES ASSUME SoundTools PROVE ToolsSpec => []BudgetIsKept
  OBVIOUS
<1>1. ToolsInv => BudgetIsKept
  BY DEF ToolsInv, ToolsType, BudgetIsReserved, BudgetIsKept
<1>. QED BY <1>1, ToolsInitInv, ToolsNextInv, PTL DEF ToolsSpec

\* For any instance every payment in the ledger met the policy and none was
\* made in a dry run; each one that was answered is in the audit log, and is
\* answered with the id, and the only trace, its transaction resolves to.
THEOREM PaymentsMeetThePolicy == SoundTools => (ToolsSpec => [](PaymentsArePermitted /\ TracesResolve))
<1>. SUFFICES ASSUME SoundTools PROVE ToolsSpec => [](PaymentsArePermitted /\ TracesResolve)
  OBVIOUS
<1>1. ToolsInv => PaymentsArePermitted
  BY DEF ToolsInv, ToolsType, CallsAreJudged, CallIsJudged, PaymentsArePermitted, Payments, Unanswered, Pays
<1>2. ToolsInv => TracesResolve
  <2>. SUFFICES ASSUME ToolsInv, NEW c \in ToolCalls, toolCalls[c].answer = "ok", c \in landed, Pays(c)
       PROVE  /\ Carries(traces.records, c) = Carries(traces.index, c)
              /\ Carries(traces.index, c) = {Trace(toolCalls[c].id, <<"hash", c>>)}
    BY DEF TracesResolve, Carries, Payments, Pays
  <2>. QED BY DEF ToolsInv, TracesAreLinked, IsTraced
<1>. QED BY <1>1, <1>2, ToolsInitInv, ToolsNextInv, PTL DEF ToolsSpec

-----------------------------------------------------------------------------
(* The health of the indexer.                                              *)

Ledgers == Int \cup {Unknown}

RunStates == [at : {"waiting", "fetching", "decoding"}, from : Int, head : Nat]
ProgressStates ==
    [latest : Ledgers, indexed : Ledgers, runs : Nat, successes : Nat, failures : Nat,
     events : Nat, undecoded : Nat, error : BOOLEAN]

HealthType ==
    /\ checkpoint \in Ledgers /\ IsFiniteSet(stored) /\ seen \in Nat /\ restarts \in Nat
    /\ run \in RunStates
    /\ progress \in ProgressStates

\* What is stored begins after the start, and a run begins within it.
StoreIsSound ==
    /\ checkpoint # Unknown => checkpoint > StartLedger
    /\ run.at # "waiting" => run.from >= StartLedger
    /\ run.at # "waiting" /\ checkpoint # Unknown => run.from <= checkpoint
    /\ run.at = "decoding" => run.head = seen

\* What is reported of the head is what was seen of it; what is reported as
\* indexed is stored, and was indexed by a run that succeeded.
ProgressIsSound ==
    /\ progress.latest # Unknown => progress.latest = seen
    /\ progress.indexed # Unknown =>
         progress.successes > 0 /\ (checkpoint # Unknown => progress.indexed < checkpoint)
    /\ progress.failures = 0 <=> progress.error = FALSE
    /\ restarts = 0 => Cardinality(stored) <= progress.events

HealthInv == HealthType /\ StoreIsSound /\ ProgressIsSound

LEMMA LargerOfTwo ==
    ASSUME NEW m \in Int, NEW n \in Int
    PROVE  Max({m, n}) \in {m, n} /\ Max({m, n}) >= m /\ Max({m, n}) >= n
<1>. DEFINE IsMax(x) == x \in {m, n} /\ \A y \in {m, n} : x >= y
<1>1. \E x \in {m, n} : \A y \in {m, n} : x >= y
  <2>1. CASE m >= n
    BY <2>1
  <2>2. CASE n >= m
    BY <2>2
  <2>. QED BY <2>1, <2>2
<1>. QED BY <1>1 DEF Max

LEMMA HealthInitInv == SoundHealth /\ HealthInit => HealthInv
<1>. SUFFICES ASSUME SoundHealth, HealthInit PROVE HealthInv
  OBVIOUS
<1>1. IsFiniteSet({}) /\ Cardinality({}) = 0
  BY FS_EmptySet
<1>2. HealthType
  BY <1>1 DEF HealthInit, HealthType, RunStates, ProgressStates, Ledgers, NoProgress, Waiting
<1>3. StoreIsSound
  BY DEF HealthInit, StoreIsSound, Waiting
<1>4. ProgressIsSound
  BY <1>1 DEF HealthInit, ProgressIsSound, NoProgress
<1>. QED BY <1>2, <1>3, <1>4 DEF HealthInv

LEMMA StartRunKeepsInv ==
    ASSUME SoundHealth, HealthInv, NEW override, StartRun(override),
           override = Unknown \/ (override \in Replays /\ Replayable(override))
    PROVE  HealthInv'
<1>1. /\ run' = [at |-> "fetching", from |-> FromLedger(override), head |-> 0]
      /\ UNCHANGED <<checkpoint, stored, progress, seen, restarts>>
  BY DEF StartRun
<1>2. /\ checkpoint \in Ledgers
      /\ checkpoint # Unknown => checkpoint > 1
      /\ RollbackWindow \in Nat /\ Unknown \notin Int
      /\ override # Unknown => override \in Int
  BY DEF HealthInv, HealthType, RunStates, ProgressStates, StoreIsSound, StartLedger, SoundHealth
<1>3. /\ FromLedger(override) \in Int /\ FromLedger(override) >= 1
      /\ checkpoint # Unknown => FromLedger(override) <= checkpoint
  <2>1. CASE override # Unknown
    <3>1. FromLedger(override) = Max({1, override})
      BY <2>1 DEF FromLedger, StartLedger
    <3>2. checkpoint # Unknown => override <= checkpoint
      BY <2>1 DEF Replayable
    <3>3. Max({1, override}) \in {1, override} /\ Max({1, override}) >= 1
      BY <1>2, <2>1, LargerOfTwo
    <3>4. checkpoint # Unknown => checkpoint \in Int
      BY <1>2 DEF Ledgers
    <3>. QED BY <1>2, <2>1, <3>1, <3>2, <3>3, <3>4
  <2>2. CASE override = Unknown /\ checkpoint = Unknown
    BY <1>2, <2>2 DEF FromLedger, StartLedger
  <2>3. CASE override = Unknown /\ checkpoint # Unknown
    <3>1. FromLedger(override) = Max({1, checkpoint - RollbackWindow})
      BY <2>3 DEF FromLedger, StartLedger
    <3>2. checkpoint \in Int
      BY <1>2, <2>3 DEF Ledgers
    <3>3. checkpoint - RollbackWindow \in Int /\ checkpoint - RollbackWindow <= checkpoint
      BY <1>2, <3>2
    <3>4. /\ Max({1, checkpoint - RollbackWindow}) \in {1, checkpoint - RollbackWindow}
          /\ Max({1, checkpoint - RollbackWindow}) >= 1
      BY <3>3, LargerOfTwo
    <3>. QED BY <1>2, <2>3, <3>1, <3>2, <3>3, <3>4
  <2>. QED BY <2>1, <2>2, <2>3
<1>4. HealthType'
  BY <1>1, <1>3 DEF HealthInv, HealthType, RunStates, ProgressStates
<1>5. StoreIsSound'
  BY <1>1, <1>3 DEF HealthInv, StoreIsSound, StartLedger
<1>6. ProgressIsSound'
  BY <1>1 DEF HealthInv, ProgressIsSound
<1>. QED BY <1>4, <1>5, <1>6 DEF HealthInv

LEMMA FetchKeepsInv ==
    ASSUME SoundHealth, HealthInv, NEW head \in Heads, Fetch(head)
    PROVE  HealthInv'
<1>1. /\ run.at = "fetching" /\ run' = [run EXCEPT !.at = "decoding", !.head = head] /\ seen' = head
      /\ progress' = [progress EXCEPT !.latest = head] /\ UNCHANGED <<checkpoint, stored, restarts>>
  BY DEF Fetch
<1>2. head \in Nat /\ head \in Ledgers
  BY DEF SoundHealth, Ledgers
<1>3. /\ run'.at = "decoding" /\ run'.from = run.from /\ run'.head = head
      /\ progress'.latest = head /\ progress'.indexed = progress.indexed
      /\ progress'.successes = progress.successes /\ progress'.failures = progress.failures
      /\ progress'.error = progress.error /\ progress'.events = progress.events
  BY <1>1 DEF HealthInv, HealthType, RunStates, ProgressStates
<1>4. HealthType'
  BY <1>1, <1>2 DEF HealthInv, HealthType, RunStates, ProgressStates
<1>5. StoreIsSound'
  BY <1>1, <1>3 DEF HealthInv, StoreIsSound
<1>6. ProgressIsSound'
  BY <1>1, <1>3 DEF HealthInv, ProgressIsSound
<1>. QED BY <1>4, <1>5, <1>6 DEF HealthInv

LEMMA RecordRunKeepsInv ==
    ASSUME SoundHealth, HealthInv, RecordRun
    PROVE  HealthInv'
<1>. DEFINE range == run.from..Through
<1>1. PICK undecoded \in SUBSET range :
        /\ IF Through < run.from THEN UNCHANGED <<checkpoint, stored>>
           ELSE checkpoint' = Through + 1 /\ stored' = (stored \ range) \cup (range \ undecoded)
        /\ progress' = [progress EXCEPT
              !.runs = @ + 1, !.successes = @ + 1, !.failures = 0,
              !.events = @ + Cardinality(range \ undecoded), !.undecoded = @ + Cardinality(undecoded),
              !.latest = run.head, !.indexed = Through, !.error = FALSE]
  BY DEF RecordRun
<1>2. run.at = "decoding" /\ run' = Waiting /\ UNCHANGED <<seen, restarts>>
  BY DEF RecordRun
<1>3. /\ run.from \in Int /\ run.from >= 1 /\ run.head = seen /\ run.head \in Nat
      /\ checkpoint \in Ledgers
      /\ checkpoint # Unknown => run.from <= checkpoint /\ checkpoint > 1
      /\ FinalityLag \in Nat /\ Unknown \notin Int /\ IsFiniteSet(stored)
  BY <1>2 DEF HealthInv, HealthType, RunStates, ProgressStates, StoreIsSound, StartLedger, SoundHealth
<1>4. Through \in Int /\ Through >= run.from - 1
  <2>1. run.from - 1 \in Int /\ run.head - FinalityLag \in Int
    BY <1>3
  <2>2. /\ Max({run.from - 1, run.head - FinalityLag}) \in {run.from - 1, run.head - FinalityLag}
        /\ Max({run.from - 1, run.head - FinalityLag}) >= run.from - 1
    BY <2>1, LargerOfTwo
  <2>. QED BY <2>1, <2>2 DEF Through
<1>5. IsFiniteSet(range)
  BY <1>3, <1>4, FS_Interval
<1>. HIDE DEF range
<1>6. /\ IsFiniteSet(undecoded) /\ IsFiniteSet(range \ undecoded)
      /\ Cardinality(undecoded) \in Nat /\ Cardinality(range \ undecoded) \in Nat
  <2>1. IsFiniteSet(undecoded) /\ IsFiniteSet(range \ undecoded)
    BY <1>5, FS_Subset
  <2>. QED BY <2>1, FS_CardinalityType
<1>7. IsFiniteSet(stored') /\ Cardinality(stored) \in Nat
      /\ Cardinality(stored') <= Cardinality(stored) + Cardinality(range \ undecoded)
  <2>0. Cardinality(stored) \in Nat
    BY <1>3, FS_CardinalityType
  <2>1. CASE Through < run.from
    <3>1. stored' = stored
      BY <1>1, <2>1
    <3>. QED BY <1>3, <1>6, <2>0, <3>1
  <2>2. CASE ~(Through < run.from)
    <3>1. stored' = (stored \ range) \cup (range \ undecoded)
      BY <1>1, <2>2
    <3>2. /\ IsFiniteSet(stored \ range) /\ Cardinality(stored \ range) \in Nat
          /\ Cardinality(stored \ range) <= Cardinality(stored)
      <4>1. IsFiniteSet(stored \ range) /\ Cardinality(stored \ range) <= Cardinality(stored)
        BY <1>3, FS_Subset
      <4>. QED BY <4>1, FS_CardinalityType
    <3>. DEFINE decoded == range \ undecoded
                rest == stored \ range
    <3>3. IsFiniteSet(rest) /\ IsFiniteSet(decoded) /\ Cardinality(rest) \in Nat
          /\ Cardinality(decoded) \in Nat /\ Cardinality(rest) <= Cardinality(stored)
          /\ stored' = rest \cup decoded
      BY <1>6, <3>1, <3>2
    <3>. HIDE DEF decoded, rest
    <3>4. /\ IsFiniteSet(rest \cup decoded)
          /\ Cardinality(rest \cup decoded) = Cardinality(rest) + Cardinality(decoded) - Cardinality(rest \cap decoded)
      BY <3>3, FS_Union
    <3>5. IsFiniteSet(rest \cap decoded)
      BY <3>3, FS_Intersection
    <3>6. Cardinality(rest \cap decoded) \in Nat
      BY <3>5, FS_CardinalityType
    <3>7. IsFiniteSet(stored') /\ Cardinality(stored') <= Cardinality(stored) + Cardinality(decoded)
      BY <2>0, <3>3, <3>4, <3>6
    <3>. QED BY <2>0, <3>7 DEF decoded
  <2>. QED BY <2>1, <2>2
<1>8. /\ checkpoint' \in Ledgers
      /\ checkpoint' # Unknown => checkpoint' > 1 /\ Through < checkpoint'
  <2>1. CASE Through < run.from
    <3>1. checkpoint' = checkpoint
      BY <1>1, <2>1
    <3>2. checkpoint # Unknown => checkpoint \in Int
      BY <1>3 DEF Ledgers
    <3>. QED BY <1>3, <1>4, <2>1, <3>1, <3>2
  <2>2. CASE ~(Through < run.from)
    <3>1. checkpoint' = Through + 1
      BY <1>1, <2>2
    <3>. QED BY <1>3, <1>4, <2>2, <3>1 DEF Ledgers
  <2>. QED BY <2>1, <2>2
<1>9. /\ progress'.latest = seen /\ progress'.indexed = Through /\ progress'.failures = 0
      /\ progress'.error = FALSE /\ progress'.successes = progress.successes + 1
      /\ progress'.events = progress.events + Cardinality(range \ undecoded)
      /\ progress' \in ProgressStates
  <2>. DEFINE new == Cardinality(range \ undecoded)
              lost == Cardinality(undecoded)
  <2>1. progress \in ProgressStates
    BY DEF HealthInv, HealthType, RunStates, ProgressStates
  <2>2. new \in Nat /\ lost \in Nat /\ run.head \in Ledgers /\ Through \in Ledgers
    BY <1>3, <1>4, <1>6 DEF Ledgers
  <2>3. progress' = [progress EXCEPT
              !.runs = progress.runs + 1, !.successes = progress.successes + 1, !.failures = 0,
              !.events = progress.events + new, !.undecoded = progress.undecoded + lost,
              !.latest = run.head, !.indexed = Through, !.error = FALSE]
    BY <1>1, <2>1
  <2>. HIDE DEF new, lost
  <2>4. /\ progress.runs + 1 \in Nat /\ progress.successes + 1 \in Nat
        /\ progress.events + new \in Nat /\ progress.undecoded + lost \in Nat
    BY <2>1, <2>2 DEF ProgressStates
  <2>5. progress' \in ProgressStates
    BY <2>1, <2>2, <2>3, <2>4 DEF ProgressStates
  <2>6. /\ progress'.latest = run.head /\ progress'.indexed = Through /\ progress'.failures = 0
        /\ progress'.error = FALSE /\ progress'.successes = progress.successes + 1
        /\ progress'.events = progress.events + new
    BY <2>1, <2>3 DEF ProgressStates
  <2>. QED BY <1>3, <2>5, <2>6 DEF new
<1>10. HealthType'
  BY <1>2, <1>7, <1>8, <1>9 DEF HealthInv, HealthType, RunStates, ProgressStates, Waiting
<1>11. StoreIsSound'
  BY <1>2, <1>8 DEF StoreIsSound, Waiting, StartLedger
<1>12. ProgressIsSound'
  <2>1. progress'.successes > 0
    BY <1>9 DEF HealthInv, HealthType, RunStates, ProgressStates
  <2>2. restarts = 0 => Cardinality(stored) <= progress.events
    BY DEF HealthInv, ProgressIsSound
  <2>3. restarts' = 0 => Cardinality(stored') <= progress'.events
    <3>1. progress.events \in Nat /\ Cardinality(stored') \in Nat
      BY <1>7, FS_CardinalityType DEF HealthInv, HealthType, RunStates, ProgressStates
    <3>. QED BY <1>2, <1>6, <1>7, <1>9, <2>2, <3>1
  <2>. QED BY <1>2, <1>8, <1>9, <2>1, <2>3 DEF ProgressIsSound
<1>. QED BY <1>10, <1>11, <1>12 DEF HealthInv

LEMMA FailureAndRestartKeepInv ==
    ASSUME SoundHealth, HealthInv, RecordFailure \/ Restart
    PROVE  HealthInv'
<1>1. CASE RecordFailure
  <2>1. /\ run' = Waiting /\ UNCHANGED <<checkpoint, stored, seen, restarts>>
        /\ progress' = [progress EXCEPT !.runs = progress.runs + 1, !.failures = progress.failures + 1,
                                        !.error = TRUE]
    BY <1>1 DEF RecordFailure, HealthInv, HealthType, RunStates, ProgressStates
  <2>2. /\ progress.runs + 1 \in Nat /\ progress.failures + 1 \in Nat /\ progress.failures + 1 # 0
    BY DEF HealthInv, HealthType, RunStates, ProgressStates
  <2>3. /\ progress'.latest = progress.latest /\ progress'.indexed = progress.indexed
        /\ progress'.successes = progress.successes /\ progress'.failures = progress.failures + 1
        /\ progress'.error = TRUE /\ progress'.events = progress.events
    BY <2>1 DEF HealthInv, HealthType, RunStates, ProgressStates
  <2>4. progress' \in ProgressStates
    <3>1. progress \in ProgressStates
      BY DEF HealthInv, HealthType
    <3>. QED BY <2>1, <2>2, <3>1 DEF ProgressStates
  <2>5. Waiting \in RunStates
    BY DEF Waiting, RunStates
  <2>6. HealthType'
    BY <2>1, <2>4, <2>5 DEF HealthInv, HealthType
  <2>7. StoreIsSound'
    BY <2>1 DEF HealthInv, StoreIsSound, Waiting
  <2>8. ProgressIsSound'
    BY <2>1, <2>2, <2>3 DEF HealthInv, ProgressIsSound
  <2>. QED BY <2>6, <2>7, <2>8 DEF HealthInv
<1>2. CASE Restart
  <2>1. /\ run' = Waiting /\ progress' = NoProgress /\ seen' = 0 /\ UNCHANGED <<checkpoint, stored>>
        /\ restarts' = restarts + 1
    BY <1>2 DEF Restart
  <2>2. restarts' \in Nat /\ restarts' # 0
    BY <2>1 DEF HealthInv, HealthType, RunStates, ProgressStates
  <2>3. HealthType'
    BY <2>1, <2>2 DEF HealthInv, HealthType, RunStates, ProgressStates, Waiting, NoProgress, Ledgers
  <2>4. StoreIsSound'
    BY <2>1 DEF HealthInv, StoreIsSound, Waiting
  <2>5. ProgressIsSound'
    BY <2>1, <2>2 DEF ProgressIsSound, NoProgress
  <2>. QED BY <2>3, <2>4, <2>5 DEF HealthInv
<1>. QED BY <1>1, <1>2

LEMMA HealthNextInv == SoundHealth /\ HealthInv /\ [HealthNext]_healthVars => HealthInv'
<1>. SUFFICES ASSUME SoundHealth, HealthInv, [HealthNext]_healthVars PROVE HealthInv'
  OBVIOUS
<1>1. CASE StartRun(Unknown)
  BY <1>1, StartRunKeepsInv
<1>2. CASE \E ledger \in Replays : Replayable(ledger) /\ StartRun(ledger)
  BY <1>2, StartRunKeepsInv
<1>3. CASE \E head \in Heads : Fetch(head)
  BY <1>3, FetchKeepsInv
<1>4. CASE RecordRun
  BY <1>4, RecordRunKeepsInv
<1>5. CASE RecordFailure \/ Restart
  BY <1>5, FailureAndRestartKeepInv
<1>6. CASE UNCHANGED healthVars
  BY <1>6 DEF healthVars, HealthInv, HealthType, RunStates, ProgressStates, StoreIsSound, ProgressIsSound
<1>. QED BY <1>1, <1>2, <1>3, <1>4, <1>5, <1>6 DEF HealthNext

\* For any heads, windows, lags, replays, failures and restarts: the lag that is
\* reported is at least what the store is behind the head seen last, and none
\* is reported before a run has succeeded.
THEOREM LagsAreNotUnderstated == SoundHealth => (HealthSpec => []LagIsNotUnderstated)
<1>. SUFFICES ASSUME SoundHealth PROVE HealthSpec => []LagIsNotUnderstated
  OBVIOUS
<1>1. HealthInv => LagIsNotUnderstated
  <2>. SUFFICES ASSUME HealthInv PROVE LagIsNotUnderstated
    OBVIOUS
  <2>. DEFINE p == progress
  <2>0. /\ p.latest \in Ledgers /\ p.indexed \in Ledgers /\ Unknown \notin Int /\ p.successes \in Nat
        /\ checkpoint \in Ledgers /\ seen \in Nat
    BY DEF HealthInv, HealthType, RunStates, ProgressStates, SoundHealth
  <2>1. Snapshot.lag = Lag(p) /\ Snapshot.started = (p.successes > 0)
    BY DEF Snapshot
  <2>2. ASSUME Lag(p) # Unknown
        PROVE  p.successes > 0 /\ (checkpoint # Unknown => Lag(p) >= seen - (checkpoint - 1))
    <3>1. p.latest # Unknown /\ p.indexed # Unknown /\ Lag(p) = Max({0, p.latest - p.indexed})
      BY <2>2 DEF Lag
    <3>2. p.latest = seen /\ p.successes > 0 /\ (checkpoint # Unknown => p.indexed < checkpoint)
      BY <3>1 DEF HealthInv, ProgressIsSound
    <3>3. p.indexed \in Int /\ p.latest - p.indexed \in Int
      BY <2>0, <3>1, <3>2 DEF Ledgers
    <3>. DEFINE behind == p.latest - p.indexed
    <3>4. Lag(p) \in Int /\ Lag(p) >= behind
      <4>1. behind \in Int /\ 0 \in Int /\ Lag(p) = Max({0, behind})
        BY <3>1, <3>3
      <4>. HIDE DEF behind
      <4>2. Max({0, behind}) \in {0, behind} /\ Max({0, behind}) >= behind
        BY <4>1, LargerOfTwo
      <4>. QED BY <4>1, <4>2
    <3>5. checkpoint # Unknown => checkpoint \in Int
      BY <2>0 DEF Ledgers
    <3>. QED BY <2>0, <3>2, <3>3, <3>4, <3>5
  <2>3. ASSUME ~(p.successes > 0) PROVE Lag(p) = Unknown
    BY <2>3 DEF HealthInv, ProgressIsSound, Lag
  <2>4. UnknownProgress.lag = Unknown /\ \A q : Health(q).lag = q.lag
    BY DEF UnknownProgress, Health
  <2>5. \A q : Metrics(q).lag = IF q.lag = Unknown THEN {} ELSE {q.lag}
    BY DEF Metrics
  <2>. HIDE DEF p
  <2>6. /\ Snapshot.lag # Unknown =>
             Snapshot.started /\ (checkpoint # Unknown => Snapshot.lag >= seen - (checkpoint - 1))
        /\ ~Snapshot.started => Snapshot.lag = Unknown
    BY <2>1, <2>2, <2>3
  <2>. QED BY <2>4, <2>5, <2>6 DEF LagIsNotUnderstated
<1>. QED BY <1>1, HealthInitInv, HealthNextInv, PTL DEF HealthSpec

\* For any instance health, the up gauge and the error gauge agree, and a
\* process that has not been restarted processed what is in the store.
THEOREM HealthAgreesWithMetrics == SoundHealth => (HealthSpec => []HealthAndMetricsAgree)
<1>. SUFFICES ASSUME SoundHealth PROVE HealthSpec => []HealthAndMetricsAgree
  OBVIOUS
<1>1. HealthInv => HealthAndMetricsAgree
  <2>. SUFFICES ASSUME HealthInv PROVE HealthAndMetricsAgree
    OBVIOUS
  <2>1. /\ progress.failures = 0 <=> progress.error = FALSE
        /\ restarts = 0 => Cardinality(stored) <= progress.events
        /\ progress.error \in BOOLEAN /\ progress.events \in Nat /\ Cardinality(stored) \in Nat
    BY FS_CardinalityType DEF HealthInv, HealthType, RunStates, ProgressStates, ProgressIsSound
  <2>2. Snapshot.healthy = (progress.failures = 0)
    BY DEF Snapshot
  <2>3. \A q : /\ Health(q).status = (IF q.healthy THEN "ok" ELSE "degraded")
               /\ Health(q).eventsStored = Cardinality(stored)
               /\ Metrics(q).up = q.healthy /\ Metrics(q).lastError = progress.error
               /\ Metrics(q).processed = progress.events
    BY DEF Health, Metrics
  <2>. QED BY <2>1, <2>2, <2>3 DEF HealthAndMetricsAgree
<1>. QED BY <1>1, HealthInitInv, HealthNextInv, PTL DEF HealthSpec

-----------------------------------------------------------------------------
(* The deployment.                                                         *)

CrateNames == {Crates[i] : i \in DOMAIN Crates}
Commands == [fn : {"build", "deploy", "initialize", "set", "write"},
             on : CrateNames \cup {Nobody}, ref : CrateNames \cup {Nobody}]
Contracts == [crate : CrateNames, admin : Operators \cup {Nobody, Other}, refs : [CrateNames -> Nat]]

\* All commands of a run; a run that builds nothing begins with the second.
Orders == Plan(<<Command("build", Nobody, Nobody)>>)
LastOrder == 17
PlaceOf(plan) == LastOrder + 1 - Len(plan)

\* What a command leaves on the ledger for the run that deployed these contracts.
IsDone(ids, c, ledger) ==
    /\ c.fn = "deploy" => ids[c.on] \in 1..Len(ledger) /\ ledger[ids[c.on]].crate = c.on
    /\ c.fn = "initialize" => ledger[ids[c.on]].admin # Nobody
    /\ c.fn = "set" => ledger[ids[c.on]].refs[c.ref] = ids[c.ref]

DeployType ==
    /\ script \in [Operators -> [at : {"idle", "running", "exited", "done"},
                                 admin : Operators \cup {Nobody, Other}, dry : BOOLEAN,
                                 plan : Seq(Commands), ids : [CrateNames -> Nat]]]
    /\ chain \in Seq(Contracts)
    /\ \A o \in Operators, x \in CrateNames : script[o].ids[x] <= Len(chain)
    /\ harness.seeds \in Nat /\ DOMAIN harness = {"at", "tries", "contracts", "scenario", "seeds"}
    /\ DOMAIN env = {"own", "any"}

\* What is left of a run's plan is an end of the orders; the others are done.
RunsAreInOrder ==
    \A o \in Operators : Running(o) =>
        /\ script[o].admin # Nobody
        /\ Len(script[o].plan) \in 1..LastOrder
        /\ \A i \in 1..Len(script[o].plan) :
             script[o].plan[i] = Orders[PlaceOf(script[o].plan) - 1 + i]
        /\ \A i \in 1..LastOrder : i < PlaceOf(script[o].plan) => IsDone(script[o].ids, Orders[i], chain)

\* No two operators' runs share a contract.
RunsAreApart ==
    \A o, p \in Operators : \A x, y \in CrateNames :
        o # p /\ script[o].ids[x] # Nowhere => script[o].ids[x] # script[p].ids[y]

BreakersAreReady ==
    \A i \in 1..Len(chain) :
        LET breaker == chain[i].refs["breaker"]
        IN breaker # Nowhere => breaker \in 1..Len(chain) /\ chain[breaker].admin # Nobody

\* A contract that is there, and initialized if it has to be.
IsReady(id, crate, ledger) ==
    /\ id \in 1..Len(ledger) /\ ledger[id].crate = crate
    /\ \A i \in 1..4 : InitializeAll[i].on = crate => ledger[id].admin # Nobody
IsConnected(ids, ledger) ==
    /\ \A k \in SdkKeys : IsReady(ids[k], k, ledger)
    /\ \A i \in 1..4 :
         LET c == WireAll[i]
             target == ledger[ids[c.on]].refs[c.ref]
         IN IsReady(target, c.ref, ledger) /\ (c.ref \in SdkKeys => target = ids[c.ref])

\* A deployment that is wired and that no run can still change.
IsSettled(ids, ledger, runs) ==
    /\ IsConnected(ids, ledger)
    /\ \A o \in Operators : runs[o].at = "running" =>
         \A k \in SdkKeys, x \in CrateNames : runs[o].ids[x] # ids[k]
Settled(ids) == IsSettled(ids, chain, script)

WhatIsTakenUpIsSettled ==
    /\ published \notin {Unresolved, Torn} => Settled(published)
    /\ harness.contracts \notin {Unresolved, Fallback} => Settled(harness.contracts)
    /\ env.own \notin {Unresolved, Fallback} => Settled(env.own)
    /\ created # Unresolved /\ created.told => Settled(created.contracts)
    /\ \A o \in Operators :
         script[o].at = "done" /\ script[o].dry = FALSE => Settled(BuildDeployment(script[o].ids))

HarnessIsSound ==
    /\ harness.at \in {"seeding", "ready"} => Identities \subseteq funded
    /\ \A s \in Scenarios : snapshots[s] # Unresolved => snapshots[s].name = s
    /\ DOMAIN snapshots = Scenarios
    /\ At("ready") => harness.scenario.name \in Scenarios /\ snapshots[harness.scenario.name] # Unresolved

DeployInv ==
    /\ DeployType /\ RunsAreInOrder /\ RunsAreApart /\ BreakersAreReady
    /\ WhatIsTakenUpIsSettled /\ HarnessIsSound

-----------------------------------------------------------------------------

LEMMA CratesAre ==
    /\ DOMAIN Crates = 1..7
    /\ CrateNames = {"factory", "channel", "escrow", "limiter", "breaker", "oracle", "amm"}
    /\ Missing = [c \in CrateNames |-> Nowhere]
    /\ SdkKeys \subseteq CrateNames
<1>1. DOMAIN Crates = 1..7
  BY DEF Crates
<1>2. /\ Crates[1] = "factory" /\ Crates[2] = "channel" /\ Crates[3] = "escrow"
      /\ Crates[4] = "limiter" /\ Crates[5] = "breaker" /\ Crates[6] = "oracle" /\ Crates[7] = "amm"
  BY DEF Crates
<1>3. CrateNames = {"factory", "channel", "escrow", "limiter", "breaker", "oracle", "amm"}
  <2>1. \A i \in 1..7 : i = 1 \/ i = 2 \/ i = 3 \/ i = 4 \/ i = 5 \/ i = 6 \/ i = 7
    OBVIOUS
  <2>. QED BY <1>1, <1>2, <2>1 DEF CrateNames
<1>. QED BY <1>1, <1>3 DEF Missing, CrateNames, SdkKeys

LEMMA Joined ==
    ASSUME NEW s \in Seq(Commands), NEW t \in Seq(Commands)
    PROVE  /\ s \o t \in Seq(Commands) /\ Len(s \o t) = Len(s) + Len(t)
           /\ \A i \in 1..Len(s) : (s \o t)[i] = s[i]
           /\ \A i \in 1..Len(t) : (s \o t)[Len(s) + i] = t[i]
OBVIOUS

\* The orders, in their order.
LEMMA PartsOfPlans ==
    /\ DeployAll \in Seq(Commands) /\ Len(DeployAll) = 7
    /\ InitializeAll \in Seq(Commands) /\ Len(InitializeAll) = 4
    /\ WireAll \in Seq(Commands) /\ Len(WireAll) = 4
    /\ <<Command("write", Nobody, Nobody)>> \in Seq(Commands)
    /\ Len(<<Command("write", Nobody, Nobody)>>) = 1
    /\ \A i \in 1..7 : DeployAll[i] = Command("deploy", Crates[i], Nobody)
<1>1. \A i \in 1..7 : Command("deploy", Crates[i], Nobody) \in Commands
  BY CratesAre DEF Command, Commands, CrateNames
<1>2. /\ DOMAIN DeployAll = 1..7
      /\ \A i \in 1..7 : DeployAll[i] = Command("deploy", Crates[i], Nobody)
      /\ DeployAll = [i \in 1..7 |-> Command("deploy", Crates[i], Nobody)]
  BY CratesAre DEF DeployAll
<1>3. DeployAll \in [1..7 -> Commands]
  BY <1>1, <1>2
<1>4. DeployAll \in Seq(Commands) /\ Len(DeployAll) = 7
  BY <1>2, <1>3, LenProperties, SeqDef
<1>5. /\ Command("initialize", "factory", Nobody) \in Commands
      /\ Command("initialize", "breaker", Nobody) \in Commands
      /\ Command("initialize", "oracle", Nobody) \in Commands
      /\ Command("initialize", "amm", Nobody) \in Commands
      /\ Command("set", "channel", "breaker") \in Commands
      /\ Command("set", "channel", "oracle") \in Commands
      /\ Command("set", "channel", "amm") \in Commands
      /\ Command("set", "escrow", "breaker") \in Commands
      /\ Command("write", Nobody, Nobody) \in Commands
  BY CratesAre DEF Command, Commands
<1>6. InitializeAll \in Seq(Commands) /\ Len(InitializeAll) = 4
  BY <1>5 DEF InitializeAll
<1>7. WireAll \in Seq(Commands) /\ Len(WireAll) = 4
  BY <1>5 DEF WireAll
<1>. QED BY <1>2, <1>4, <1>5, <1>6, <1>7

LEMMA PlansAre ==
    ASSUME NEW build \in Seq(Commands)
    PROVE  LET e == Len(build) IN
           /\ Plan(build) \in Seq(Commands) /\ Len(Plan(build)) = e + 16
           /\ \A i \in 1..e : Plan(build)[i] = build[i]
           /\ \A i \in 1..7 : Plan(build)[e + i] = DeployAll[i]
           /\ \A i \in 1..4 : Plan(build)[e + 7 + i] = InitializeAll[i]
           /\ \A i \in 1..4 : Plan(build)[e + 11 + i] = WireAll[i]
           /\ Plan(build)[e + 16] = Command("write", Nobody, Nobody)
<1>. DEFINE e == Len(build)
            last == <<Command("write", Nobody, Nobody)>>
            a == build \o DeployAll
<1>0. /\ Plan(build) = ((a \o InitializeAll) \o WireAll) \o last
      /\ e \in Nat /\ build \in Seq(Commands) /\ Len(build) = e
  BY DEF Plan
<1>. HIDE DEF e, last
<1>1. /\ a \in Seq(Commands) /\ Len(a) = e + 7
      /\ \A i \in 1..e : a[i] = build[i]
      /\ \A i \in 1..7 : a[e + i] = DeployAll[i]
  <2>1. build \in Seq(Commands) /\ Len(build) = e /\ DeployAll \in Seq(Commands) /\ Len(DeployAll) = 7
    BY <1>0, PartsOfPlans
  <2>2. /\ a \in Seq(Commands) /\ Len(a) = Len(build) + Len(DeployAll)
        /\ \A i \in 1..Len(build) : a[i] = build[i]
        /\ \A i \in 1..Len(DeployAll) : a[Len(build) + i] = DeployAll[i]
    BY <2>1, Joined
  <2>. HIDE DEF a
  <2>3. Len(a) = e + 7
    BY <1>0, <2>1, <2>2
  <2>. QED BY <2>1, <2>2, <2>3
<1>. HIDE DEF a
<1>. DEFINE b == a \o InitializeAll
<1>2. /\ b \in Seq(Commands) /\ Len(b) = e + 11
      /\ \A i \in 1..(e + 7) : b[i] = a[i]
      /\ \A i \in 1..4 : b[e + 7 + i] = InitializeAll[i]
  <2>1. a \in Seq(Commands) /\ Len(a) = e + 7 /\ InitializeAll \in Seq(Commands) /\ Len(InitializeAll) = 4
    BY <1>1, PartsOfPlans
  <2>2. /\ b \in Seq(Commands) /\ Len(b) = Len(a) + Len(InitializeAll)
        /\ \A i \in 1..Len(a) : b[i] = a[i]
        /\ \A i \in 1..Len(InitializeAll) : b[Len(a) + i] = InitializeAll[i]
    BY <2>1, Joined
  <2>. HIDE DEF b
  <2>3. Len(b) = e + 11
    BY <1>0, <2>1, <2>2
  <2>. QED BY <2>1, <2>2, <2>3
<1>. HIDE DEF b
<1>. DEFINE c == b \o WireAll
<1>3. /\ c \in Seq(Commands) /\ Len(c) = e + 15
      /\ \A i \in 1..(e + 11) : c[i] = b[i]
      /\ \A i \in 1..4 : c[e + 11 + i] = WireAll[i]
  <2>1. b \in Seq(Commands) /\ Len(b) = e + 11 /\ WireAll \in Seq(Commands) /\ Len(WireAll) = 4
    BY <1>2, PartsOfPlans
  <2>2. /\ c \in Seq(Commands) /\ Len(c) = Len(b) + Len(WireAll)
        /\ \A i \in 1..Len(b) : c[i] = b[i]
        /\ \A i \in 1..Len(WireAll) : c[Len(b) + i] = WireAll[i]
    BY <2>1, Joined
  <2>. HIDE DEF c
  <2>3. Len(c) = e + 15
    BY <1>0, <2>1, <2>2
  <2>. QED BY <2>1, <2>2, <2>3
<1>. HIDE DEF c
<1>. DEFINE d == c \o last
<1>4. /\ d \in Seq(Commands) /\ Len(d) = e + 16
      /\ \A i \in 1..(e + 15) : d[i] = c[i]
      /\ \A i \in 1..1 : d[e + 15 + i] = last[i]
  <2>1. c \in Seq(Commands) /\ Len(c) = e + 15 /\ last \in Seq(Commands) /\ Len(last) = 1
    BY <1>3, PartsOfPlans DEF last
  <2>2. /\ d \in Seq(Commands) /\ Len(d) = Len(c) + Len(last)
        /\ \A i \in 1..Len(c) : d[i] = c[i]
        /\ \A i \in 1..Len(last) : d[Len(c) + i] = last[i]
    BY <2>1, Joined
  <2>. HIDE DEF d
  <2>3. Len(d) = e + 16
    BY <1>0, <2>1, <2>2
  <2>. QED BY <2>1, <2>2, <2>3
<1>5. d[e + 16] = Command("write", Nobody, Nobody)
  <2>1. d[e + 15 + 1] = last[1] /\ e + 15 + 1 = e + 16
    BY <1>0, <1>4
  <2>. QED BY <2>1 DEF last
<1>d. Plan(build) = d
  BY <1>0 DEF b, c, d
<1>. HIDE DEF d
<1>6. \A i \in 1..e : d[i] = build[i]
  <2>. TAKE i \in 1..e
  <2>1. i \in 1..(e + 7) /\ i \in 1..(e + 11) /\ i \in 1..(e + 15)
    BY <1>0
  <2>2. d[i] = c[i] /\ c[i] = b[i] /\ b[i] = a[i]
    BY <1>2, <1>3, <1>4, <2>1
  <2>. QED BY <1>1, <2>2
<1>7. \A i \in 1..7 : d[e + i] = DeployAll[i]
  <2>. TAKE i \in 1..7
  <2>1. e + i \in 1..(e + 7) /\ e + i \in 1..(e + 11) /\ e + i \in 1..(e + 15)
    BY <1>0
  <2>2. d[e + i] = c[e + i] /\ c[e + i] = b[e + i] /\ b[e + i] = a[e + i]
    BY <1>2, <1>3, <1>4, <2>1
  <2>. QED BY <1>1, <2>2
<1>8. \A i \in 1..4 : d[e + 7 + i] = InitializeAll[i]
  <2>. TAKE i \in 1..4
  <2>1. e + 7 + i \in 1..(e + 11) /\ e + 7 + i \in 1..(e + 15)
    BY <1>0
  <2>2. d[e + 7 + i] = c[e + 7 + i] /\ c[e + 7 + i] = b[e + 7 + i]
    BY <1>3, <1>4, <2>1
  <2>. QED BY <1>2, <2>2
<1>9. \A i \in 1..4 : d[e + 11 + i] = WireAll[i]
  <2>. TAKE i \in 1..4
  <2>1. e + 11 + i \in 1..(e + 15)
    BY <1>0
  <2>. QED BY <1>0, <1>3, <1>4, <2>1
<1>. QED BY <1>d, <1>4, <1>5, <1>6, <1>7, <1>8, <1>9 DEF e

LEMMA OrdersAre ==
    /\ Orders \in Seq(Commands) /\ Len(Orders) = 17
    /\ Orders[1] = Command("build", Nobody, Nobody)
    /\ \A i \in 1..7 : Orders[1 + i] = Command("deploy", Crates[i], Nobody)
    /\ \A i \in 1..4 : Orders[8 + i] = InitializeAll[i]
    /\ \A i \in 1..4 : Orders[12 + i] = WireAll[i]
    /\ Orders[17] = Command("write", Nobody, Nobody)
    /\ Plan(<<>>) \in Seq(Commands) /\ Len(Plan(<<>>)) = 16
    /\ \A i \in 1..16 : Plan(<<>>)[i] = Orders[i + 1]
<1>. DEFINE first == <<Command("build", Nobody, Nobody)>>
            p == Plan(<<>>)
<1>1. first \in Seq(Commands) /\ Len(first) = 1 /\ first[1] = Command("build", Nobody, Nobody)
  BY DEF Command, Commands
<1>2. <<>> \in Seq(Commands) /\ Len(<<>>) = 0
  OBVIOUS
<1>. HIDE DEF first
<1>3. /\ Orders \in Seq(Commands) /\ Len(Orders) = 1 + 16
      /\ \A i \in 1..1 : Orders[i] = first[i]
      /\ \A i \in 1..7 : Orders[1 + i] = DeployAll[i]
      /\ \A i \in 1..4 : Orders[1 + 7 + i] = InitializeAll[i]
      /\ \A i \in 1..4 : Orders[1 + 11 + i] = WireAll[i]
      /\ Orders[1 + 16] = Command("write", Nobody, Nobody)
  BY <1>1, PlansAre DEF Orders, first
<1>4. /\ p \in Seq(Commands) /\ Len(p) = 0 + 16
      /\ \A i \in 1..7 : p[0 + i] = DeployAll[i]
      /\ \A i \in 1..4 : p[0 + 7 + i] = InitializeAll[i]
      /\ \A i \in 1..4 : p[0 + 11 + i] = WireAll[i]
      /\ p[0 + 16] = Command("write", Nobody, Nobody)
  BY <1>2, PlansAre
<1>. HIDE DEF p
<1>5. \A i \in 1..16 : p[i] = Orders[i + 1]
  <2>. TAKE i \in 1..16
  <2>1. CASE i <= 7
    <3>1. i \in 1..7 /\ 0 + i = i /\ 1 + i = i + 1
      BY <2>1
    <3>2. p[0 + i] = DeployAll[i] /\ Orders[1 + i] = DeployAll[i]
      BY <1>3, <1>4, <3>1
    <3>. QED BY <3>1, <3>2
  <2>2. CASE i > 7 /\ i <= 11
    <3>1. i - 7 \in 1..4 /\ 7 + (i - 7) = i
      BY <2>2
    <3>. QED BY <1>3, <1>4, <3>1
  <2>3. CASE i > 11 /\ i <= 15
    <3>1. i - 11 \in 1..4 /\ 11 + (i - 11) = i
      BY <2>3
    <3>. QED BY <1>3, <1>4, <3>1
  <2>4. CASE i = 16
    BY <1>3, <1>4, <2>4
  <2>. QED BY <2>1, <2>2, <2>3, <2>4
<1>6. \A i \in 1..4 : 1 + 7 + i = 8 + i /\ 1 + 11 + i = 12 + i
  OBVIOUS
<1>. QED BY <1>1, <1>3, <1>4, <1>5, <1>6, PartsOfPlans DEF p

\* What an order rests on stands before it.
Follows(n, c) == \E i \in 1..LastOrder : i < n /\ Orders[i] = c
LEMMA OrdersFollow ==
    ASSUME NEW n \in 1..LastOrder
    PROVE  LET c == Orders[n] IN
           /\ c \in Commands
           /\ c.fn = "deploy" =>
                /\ c.on \in CrateNames
                /\ \A i \in 1..LastOrder :
                     i < n => Orders[i].fn # "initialize" /\ Orders[i].fn # "set"
                              /\ (Orders[i].fn = "deploy" => Orders[i].on # c.on)
           /\ c.fn = "initialize" => c.on \in CrateNames /\ Follows(n, Command("deploy", c.on, Nobody))
           /\ c.fn = "set" => /\ c.on \in CrateNames /\ c.ref \in CrateNames
                              /\ Follows(n, Command("deploy", c.on, Nobody))
                              /\ Follows(n, Command("deploy", c.ref, Nobody))
                              /\ c.ref = "breaker" => Follows(n, Command("initialize", "breaker", Nobody))
           /\ c.fn = "write" <=> n = LastOrder
<1>1. /\ Orders[1] = Command("build", Nobody, Nobody)
      /\ Orders[2] = Command("deploy", "factory", Nobody) /\ Orders[3] = Command("deploy", "channel", Nobody)
      /\ Orders[4] = Command("deploy", "escrow", Nobody) /\ Orders[5] = Command("deploy", "limiter", Nobody)
      /\ Orders[6] = Command("deploy", "breaker", Nobody) /\ Orders[7] = Command("deploy", "oracle", Nobody)
      /\ Orders[8] = Command("deploy", "amm", Nobody)
      /\ Orders[9] = Command("initialize", "factory", Nobody)
      /\ Orders[10] = Command("initialize", "breaker", Nobody)
      /\ Orders[11] = Command("initialize", "oracle", Nobody)
      /\ Orders[12] = Command("initialize", "amm", Nobody)
      /\ Orders[13] = Command("set", "channel", "breaker") /\ Orders[14] = Command("set", "channel", "oracle")
      /\ Orders[15] = Command("set", "channel", "amm") /\ Orders[16] = Command("set", "escrow", "breaker")
      /\ Orders[17] = Command("write", Nobody, Nobody)
  <2>1. /\ Orders[1 + 1] = Command("deploy", Crates[1], Nobody) /\ Orders[1 + 2] = Command("deploy", Crates[2], Nobody)
        /\ Orders[1 + 3] = Command("deploy", Crates[3], Nobody) /\ Orders[1 + 4] = Command("deploy", Crates[4], Nobody)
        /\ Orders[1 + 5] = Command("deploy", Crates[5], Nobody) /\ Orders[1 + 6] = Command("deploy", Crates[6], Nobody)
        /\ Orders[1 + 7] = Command("deploy", Crates[7], Nobody)
    BY OrdersAre
  <2>2. /\ Orders[8 + 1] = InitializeAll[1] /\ Orders[8 + 2] = InitializeAll[2]
        /\ Orders[8 + 3] = InitializeAll[3] /\ Orders[8 + 4] = InitializeAll[4]
        /\ Orders[12 + 1] = WireAll[1] /\ Orders[12 + 2] = WireAll[2]
        /\ Orders[12 + 3] = WireAll[3] /\ Orders[12 + 4] = WireAll[4]
    BY OrdersAre
  <2>. QED BY <2>1, <2>2, OrdersAre DEF Crates, InitializeAll, WireAll
<1>2. \A i \in 1..17 : i = 1 \/ i = 2 \/ i = 3 \/ i = 4 \/ i = 5 \/ i = 6 \/ i = 7 \/ i = 8 \/ i = 9
        \/ i = 10 \/ i = 11 \/ i = 12 \/ i = 13 \/ i = 14 \/ i = 15 \/ i = 16 \/ i = 17
  OBVIOUS
<1>. HIDE DEF Orders
<1>3. Orders[n] \in Commands
  BY <1>1, <1>2, CratesAre DEF LastOrder, Command, Commands
<1>4. Orders[n].fn = "deploy" =>
        /\ Orders[n].on \in CrateNames
        /\ \A i \in 1..LastOrder :
             i < n => Orders[i].fn # "initialize" /\ Orders[i].fn # "set"
                      /\ (Orders[i].fn = "deploy" => Orders[i].on # Orders[n].on)
  BY <1>1, <1>2, CratesAre DEF LastOrder, Command
<1>5. Orders[n].fn = "initialize" =>
        Orders[n].on \in CrateNames /\ Follows(n, Command("deploy", Orders[n].on, Nobody))
  <2>. SUFFICES ASSUME Orders[n].fn = "initialize"
       PROVE  Orders[n].on \in CrateNames /\ Follows(n, Command("deploy", Orders[n].on, Nobody))
    OBVIOUS
  <2>1. n = 9 \/ n = 10 \/ n = 11 \/ n = 12
    BY <1>1, <1>2 DEF LastOrder, Command
  <2>. QED BY <1>1, <2>1, CratesAre DEF LastOrder, Command, Follows
<1>6. Orders[n].fn = "set" =>
        /\ Orders[n].on \in CrateNames /\ Orders[n].ref \in CrateNames
        /\ Follows(n, Command("deploy", Orders[n].on, Nobody))
        /\ Follows(n, Command("deploy", Orders[n].ref, Nobody))
        /\ Orders[n].ref = "breaker" => Follows(n, Command("initialize", "breaker", Nobody))
  <2>. SUFFICES ASSUME Orders[n].fn = "set"
       PROVE  /\ Orders[n].on \in CrateNames /\ Orders[n].ref \in CrateNames
              /\ Follows(n, Command("deploy", Orders[n].on, Nobody))
              /\ Follows(n, Command("deploy", Orders[n].ref, Nobody))
              /\ Follows(n, Command("initialize", "breaker", Nobody))
    OBVIOUS
  <2>1. n = 13 \/ n = 14 \/ n = 15 \/ n = 16
    BY <1>1, <1>2 DEF LastOrder, Command
  <2>2. /\ Follows(n, Orders[3]) /\ Follows(n, Orders[4]) /\ Follows(n, Orders[6])
        /\ Follows(n, Orders[7]) /\ Follows(n, Orders[8]) /\ Follows(n, Orders[10])
    BY <2>1 DEF Follows, LastOrder
  <2>. QED BY <1>1, <2>1, <2>2, CratesAre DEF Command
<1>7. Orders[n].fn = "write" <=> n = LastOrder
  BY <1>1, <1>2 DEF LastOrder, Command
<1>. QED BY <1>3, <1>4, <1>5, <1>6, <1>7

-----------------------------------------------------------------------------

LEMMA ConnectedIsWired == ASSUME NEW ids, IsConnected(ids, chain) PROVE IsWired(ids)
<1>1. DOMAIN InitializeAll = 1..4 /\ DOMAIN WireAll = 1..4
  BY DEF InitializeAll, WireAll
<1>2. \A id, crate : IsReady(id, crate, chain) => IsA(id, crate)
  BY <1>1 DEF IsReady, IsA, Nowhere
<1>3. \A k \in SdkKeys : IsA(ids[k], k)
  BY <1>2 DEF IsConnected
<1>4. \A i \in 1..4 : LET c == WireAll[i]
                          target == chain[ids[c.on]].refs[c.ref]
                      IN IsA(target, c.ref) /\ (c.ref \in SdkKeys => target = ids[c.ref])
  BY <1>2 DEF IsConnected
<1>. QED BY <1>1, <1>3, <1>4 DEF IsWired

LEMMA Wires ==
    \A i \in 1..4 : WireAll[i].on \in SdkKeys /\ WireAll[i].on \in CrateNames /\ WireAll[i].ref \in CrateNames
<1>1. \A i \in 1..4 : i = 1 \/ i = 2 \/ i = 3 \/ i = 4
  OBVIOUS
<1>. QED BY <1>1, CratesAre DEF WireAll, Command, SdkKeys

\* What a run's command may do to the ledger.
Grows(old, new, ids, c) ==
    /\ new \in Seq(Contracts) /\ Len(old) <= Len(new) /\ Len(new) <= Len(old) + 1
    /\ \A i \in 1..Len(old) :
         /\ new[i].crate = old[i].crate
         /\ old[i].admin # Nobody => new[i].admin # Nobody
         /\ \A x \in CrateNames : new[i].refs[x] # old[i].refs[x] =>
              c.fn = "set" /\ i = ids[c.on] /\ x = c.ref /\ new[i].refs[x] = ids[c.ref]
    /\ \A i \in 1..Len(new) : i > Len(old) => new[i].refs = Missing

LEMMA ReadyStays ==
    ASSUME NEW old \in Seq(Contracts), NEW new, NEW ids, NEW c, Grows(old, new, ids, c),
           NEW id, NEW crate, IsReady(id, crate, old)
    PROVE  IsReady(id, crate, new)
<1>1. id \in 1..Len(old) /\ Len(old) \in Nat /\ Len(new) \in Nat /\ Len(old) <= Len(new)
  BY DEF IsReady, Grows
<1>2. id \in 1..Len(new)
  BY <1>1
<1>. QED BY <1>1, <1>2 DEF IsReady, Grows

\* What is settled stays so whatever a run that is not its own does.
LEMMA SettledStays ==
    ASSUME NEW old \in Seq(Contracts), NEW new, NEW runs, NEW next, NEW o \in Operators, NEW c,
           Grows(old, new, runs[o].ids, c), c.fn = "set" => c.on \in CrateNames,
           runs[o].at = "running",
           \A p \in Operators, x \in CrateNames : next[p].at = "running" =>
             \/ next[p].ids[x] \notin 1..Len(old)
             \/ runs[p].at = "running" /\ next[p].ids[x] = runs[p].ids[x],
           NEW ids, IsSettled(ids, old, runs)
    PROVE  IsSettled(ids, new, next)
<1>1. \A k \in SdkKeys : ids[k] \in 1..Len(old) /\ IsReady(ids[k], k, new)
  <2>. TAKE k \in SdkKeys
  <2>1. IsReady(ids[k], k, old)
    BY DEF IsSettled, IsConnected
  <2>2. ids[k] \in 1..Len(old)
    BY <2>1 DEF IsReady
  <2>. QED BY <2>1, <2>2, ReadyStays
<1>2. ASSUME NEW i \in 1..4
      PROVE  LET w == WireAll[i]
                 target == new[ids[w.on]].refs[w.ref]
             IN IsReady(target, w.ref, new) /\ (w.ref \in SdkKeys => target = ids[w.ref])
  <2>. DEFINE w == WireAll[i]
              before == old[ids[w.on]].refs[w.ref]
  <2>1. w.on \in SdkKeys /\ w.on \in CrateNames /\ w.ref \in CrateNames
    BY Wires
  <2>2. IsReady(before, w.ref, old) /\ (w.ref \in SdkKeys => before = ids[w.ref])
    BY DEF IsSettled, IsConnected
  <2>3. c.fn = "set" => ids[w.on] # runs[o].ids[c.on]
    BY <2>1 DEF IsSettled
  <2>. HIDE DEF w
  <2>4. new[ids[w.on]].refs[w.ref] = before
    BY <1>1, <2>1, <2>3 DEF Grows
  <2>. HIDE DEF before
  <2>5. IsReady(before, w.ref, new)
    BY <2>2, ReadyStays
  <2>. QED BY <2>2, <2>4, <2>5 DEF w
<1>3. ASSUME NEW p \in Operators, next[p].at = "running", NEW k \in SdkKeys, NEW x \in CrateNames
      PROVE  next[p].ids[x] # ids[k]
  BY <1>1, <1>3 DEF IsSettled
<1>. QED BY <1>1, <1>2, <1>3 DEF IsSettled, IsConnected

\* What is done stays so, for the run itself and for one apart from it.
LEMMA DoneStays ==
    ASSUME NEW old \in Seq(Contracts), NEW new, NEW mine, NEW c, Grows(old, new, mine, c),
           NEW ids, NEW e, IsDone(ids, e, old),
           e.fn \in {"initialize", "set"} => ids[e.on] \in 1..Len(old),
           e.fn = "set" => e.ref \in CrateNames /\ e.on \in CrateNames,
           c.fn = "set" => c.on \in CrateNames,
           \/ ids = mine
           \/ \A x, y \in CrateNames : ids[x] # Nowhere => ids[x] # mine[y]
    PROVE  IsDone(ids, e, new)
<1>1. Len(old) \in Nat /\ Len(new) \in Nat /\ Len(old) <= Len(new)
  BY DEF Grows
<1>2. e.fn = "deploy" => ids[e.on] \in 1..Len(new) /\ new[ids[e.on]].crate = e.on
  BY <1>1 DEF IsDone, Grows
<1>3. e.fn = "initialize" => new[ids[e.on]].admin # Nobody
  BY DEF IsDone, Grows
<1>4. ASSUME e.fn = "set" PROVE new[ids[e.on]].refs[e.ref] = ids[e.ref]
  <2>1. old[ids[e.on]].refs[e.ref] = ids[e.ref] /\ ids[e.on] \in 1..Len(old) /\ ids[e.on] # Nowhere
        /\ e.ref \in CrateNames /\ e.on \in CrateNames
    BY <1>4 DEF IsDone, Nowhere
  <2>2. CASE ids = mine
    BY <2>1, <2>2 DEF Grows
  <2>3. CASE \A x, y \in CrateNames : ids[x] # Nowhere => ids[x] # mine[y]
    BY <2>1, <2>3 DEF Grows
  <2>. QED BY <2>2, <2>3
<1>. QED BY <1>2, <1>3, <1>4 DEF IsDone

\* Where a run stands.
PlaceIn(o) == PlaceOf(script[o].plan)
Order(o) == Head(script[o].plan)

LEMMA RunsStand ==
    ASSUME DeployInv, NEW o \in Operators, Running(o)
    PROVE  /\ PlaceIn(o) \in 1..LastOrder /\ Order(o) = Orders[PlaceIn(o)]
           /\ Len(script[o].plan) = 1 <=> PlaceIn(o) = LastOrder
           /\ \A i \in 1..LastOrder : i < PlaceIn(o) => IsDone(script[o].ids, Orders[i], chain)
           /\ script[o].ids \in [CrateNames -> Nat]
           /\ script[o].plan \in Seq(Commands) /\ script[o].plan # <<>>
<1>1. /\ Len(script[o].plan) \in 1..LastOrder
      /\ \A i \in 1..Len(script[o].plan) : script[o].plan[i] = Orders[PlaceOf(script[o].plan) - 1 + i]
      /\ \A i \in 1..LastOrder : i < PlaceOf(script[o].plan) => IsDone(script[o].ids, Orders[i], chain)
  BY DEF DeployInv, RunsAreInOrder
<1>2. script[o].plan \in Seq(Commands) /\ script[o].ids \in [CrateNames -> Nat]
  BY DEF DeployInv, DeployType
<1>. DEFINE plan == script[o].plan
<1>3. Len(plan) \in 1..LastOrder /\ plan \in Seq(Commands)
  BY <1>1, <1>2
<1>. DEFINE m == Len(plan)
<1>4. PlaceOf(plan) = 18 - m /\ m \in 1..17
  BY <1>3 DEF PlaceOf, LastOrder
<1>5. plan[1] = Head(plan) /\ plan # <<>>
  <2>1. plan # <<>>
    BY <1>3, <1>4
  <2>. QED BY <1>3, <2>1
<1>6. plan[1] = Orders[PlaceOf(plan) - 1 + 1]
  <2>1. \A i \in 1..m : plan[i] = Orders[PlaceOf(plan) - 1 + i]
    BY <1>1
  <2>. HIDE DEF m, plan
  <2>2. 1 \in 1..m
    BY <1>4
  <2>. QED BY <2>1, <2>2
<1>. HIDE DEF m
<1>7. /\ PlaceOf(plan) \in 1..LastOrder /\ PlaceOf(plan) - 1 + 1 = PlaceOf(plan)
      /\ m = 1 <=> PlaceOf(plan) = LastOrder
  BY <1>4 DEF LastOrder
<1>. QED BY <1>1, <1>2, <1>5, <1>6, <1>7 DEF PlaceIn, Order, m

\* The contracts a done order rests on are there.
LEMMA OrdersAreGrounded ==
    ASSUME NEW ids, NEW ledger, NEW n \in 1..LastOrder,
           \A i \in 1..LastOrder : i < n => IsDone(ids, Orders[i], ledger)
    PROVE  /\ Orders[n].fn \in {"initialize", "set"} =>
                ids[Orders[n].on] \in 1..Len(ledger) /\ ledger[ids[Orders[n].on]].crate = Orders[n].on
           /\ Orders[n].fn = "set" =>
                /\ ids[Orders[n].ref] \in 1..Len(ledger)
                /\ Orders[n].ref = "breaker" => ledger[ids["breaker"]].admin # Nobody
<1>. DEFINE c == Orders[n]
<1>1. \A crate : Follows(n, Command("deploy", crate, Nobody)) =>
        ids[crate] \in 1..Len(ledger) /\ ledger[ids[crate]].crate = crate
  <2>. SUFFICES ASSUME NEW crate, Follows(n, Command("deploy", crate, Nobody))
       PROVE  ids[crate] \in 1..Len(ledger) /\ ledger[ids[crate]].crate = crate
    OBVIOUS
  <2>1. IsDone(ids, Command("deploy", crate, Nobody), ledger)
    BY DEF Follows
  <2>. QED BY <2>1 DEF IsDone, Command
<1>2. Follows(n, Command("initialize", "breaker", Nobody)) => ledger[ids["breaker"]].admin # Nobody
  <2>. SUFFICES ASSUME Follows(n, Command("initialize", "breaker", Nobody))
       PROVE  ledger[ids["breaker"]].admin # Nobody
    OBVIOUS
  <2>1. IsDone(ids, Command("initialize", "breaker", Nobody), ledger)
    BY DEF Follows
  <2>. QED BY <2>1 DEF IsDone, Command
<1>3. /\ c.fn \in {"initialize", "set"} => Follows(n, Command("deploy", c.on, Nobody))
      /\ c.fn = "set" => /\ Follows(n, Command("deploy", c.ref, Nobody))
                         /\ c.ref = "breaker" => Follows(n, Command("initialize", "breaker", Nobody))
  BY OrdersFollow
<1>. HIDE DEF c
<1>4. /\ c.fn \in {"initialize", "set"} =>
             ids[c.on] \in 1..Len(ledger) /\ ledger[ids[c.on]].crate = c.on
      /\ c.fn = "set" => /\ ids[c.ref] \in 1..Len(ledger)
                         /\ c.ref = "breaker" => ledger[ids["breaker"]].admin # Nobody
  BY <1>1, <1>2, <1>3
<1>. QED BY <1>4 DEF c

LEMMA EffectGrows ==
    ASSUME SoundDeployment, DeployInv, NEW o \in Operators, Running(o), chain' = Effect(o, Order(o))
    PROVE  LET c == Order(o)
               ids == script[o].ids
           IN /\ Grows(chain, chain', ids, c)
              /\ c.fn = "deploy" => Len(chain') = Len(chain) + 1 /\ chain'[Len(chain) + 1].crate = c.on
              /\ c.fn = "initialize" => chain'[ids[c.on]].admin # Nobody
              /\ c.fn = "set" => chain'[ids[c.on]].refs[c.ref] = ids[c.ref]
              /\ c.fn \notin {"deploy", "initialize", "set"} => chain' = chain
<1>. DEFINE c == Order(o)
            ids == script[o].ids
            id == ids[c.on]
            n == PlaceIn(o)
<1>1. /\ n \in 1..LastOrder /\ c = Orders[n] /\ c \in Commands
      /\ \A i \in 1..LastOrder : i < n => IsDone(ids, Orders[i], chain)
      /\ ids \in [CrateNames -> Nat]
  BY RunsStand, OrdersFollow
<1>2. /\ c.fn \in {"deploy", "initialize", "set"} => c.on \in CrateNames
      /\ c.fn = "set" => c.ref \in CrateNames
  BY <1>1, OrdersFollow
<1>3. c.fn \in {"initialize", "set"} => id \in 1..Len(chain)
  BY <1>1, OrdersAreGrounded
<1>4. chain \in Seq(Contracts) /\ script[o].admin \in Operators \cup {Nobody, Other}
  BY DEF DeployInv, DeployType
<1>5. /\ c.fn = "deploy" => chain' = Append(chain, [crate |-> c.on, admin |-> Nobody, refs |-> Missing])
      /\ c.fn = "initialize" /\ chain[id].admin = Nobody => chain' = [chain EXCEPT ![id].admin = script[o].admin]
      /\ c.fn = "initialize" /\ chain[id].admin # Nobody => chain' = chain
      /\ c.fn = "set" => chain' = [chain EXCEPT ![id].refs[c.ref] = ids[c.ref]]
      /\ c.fn \notin {"deploy", "initialize", "set"} => chain' = chain
  BY DEF Effect
<1>. HIDE DEF c, ids, id
<1>6. Grows(chain, chain, ids, c)
  BY <1>4 DEF Grows
<1>7. CASE c.fn = "deploy"
  <2>. DEFINE r == [crate |-> c.on, admin |-> Nobody, refs |-> Missing]
  <2>1. r \in Contracts /\ r.crate = c.on /\ r.refs = Missing
    BY <1>2, <1>7, CratesAre DEF Contracts, Nowhere
  <2>. HIDE DEF r
  <2>2. chain' = Append(chain, r)
    BY <1>5, <1>7 DEF r
  <2>3. /\ chain' \in Seq(Contracts) /\ Len(chain') = Len(chain) + 1
        /\ chain'[Len(chain) + 1] = r
        /\ \A i \in 1..Len(chain) : chain'[i] = chain[i]
    BY <1>4, <2>1, <2>2
  <2>4. Len(chain) \in Nat
    BY <1>4
  <2>5. Grows(chain, chain', ids, c)
    BY <2>1, <2>3, <2>4 DEF Grows
  <2>. QED BY <1>7, <2>1, <2>3, <2>5 DEF c, ids
<1>8. CASE c.fn = "initialize"
  <2>1. CASE chain[id].admin = Nobody
    <3>1. chain' = [chain EXCEPT ![id].admin = script[o].admin] /\ script[o].admin # Nobody
      BY <1>5, <1>8, <2>1 DEF DeployInv, RunsAreInOrder
    <3>2. id \in 1..Len(chain) /\ chain[id] \in Contracts
      BY <1>3, <1>4, <1>8
    <3>3. [chain[id] EXCEPT !.admin = script[o].admin] \in Contracts
      BY <1>4, <3>2 DEF Contracts
    <3>4. chain' \in Seq(Contracts) /\ Len(chain') = Len(chain)
      BY <1>4, <3>1, <3>2, <3>3
    <3>5. /\ chain'[id].admin # Nobody
          /\ \A i \in 1..Len(chain) : chain'[i].crate = chain[i].crate /\ chain'[i].refs = chain[i].refs
                                       /\ (i # id => chain'[i] = chain[i])
      <4>. DEFINE r == [chain[id] EXCEPT !.admin = script[o].admin]
      <4>1. r.admin = script[o].admin /\ r.crate = chain[id].crate /\ r.refs = chain[id].refs
        BY <3>2 DEF Contracts
      <4>2. chain' = [chain EXCEPT ![id] = r]
        BY <3>1
      <4>. HIDE DEF r
      <4>3. chain'[id] = r /\ \A i \in 1..Len(chain) : i # id => chain'[i] = chain[i]
        BY <1>4, <3>2, <4>2
      <4>. QED BY <3>1, <4>1, <4>3
    <3>6. Grows(chain, chain', ids, c)
      BY <1>4, <3>4, <3>5 DEF Grows
    <3>. QED BY <1>8, <3>5, <3>6 DEF c, ids, id
  <2>2. CASE chain[id].admin # Nobody
    BY <1>5, <1>6, <1>8, <2>2 DEF c, ids, id
  <2>. QED BY <2>1, <2>2
<1>9. CASE c.fn = "set"
  <2>1. chain' = [chain EXCEPT ![id].refs[c.ref] = ids[c.ref]]
    BY <1>5, <1>9
  <2>2. id \in 1..Len(chain) /\ chain[id] \in Contracts /\ c.ref \in CrateNames /\ ids[c.ref] \in Nat
    BY <1>1, <1>2, <1>3, <1>4, <1>9 DEF ids
  <2>. DEFINE refs == [chain[id].refs EXCEPT ![c.ref] = ids[c.ref]]
              r == [chain[id] EXCEPT !.refs = refs]
  <2>3. refs \in [CrateNames -> Nat]
    BY <2>2 DEF Contracts
  <2>4. r \in Contracts /\ r.crate = chain[id].crate /\ r.admin = chain[id].admin /\ r.refs = refs
    BY <2>2, <2>3 DEF Contracts
  <2>5. refs[c.ref] = ids[c.ref] /\ \A x \in CrateNames : x # c.ref => refs[x] = chain[id].refs[x]
    BY <2>2 DEF Contracts
  <2>6. chain' = [chain EXCEPT ![id] = r]
    BY <2>1
  <2>. HIDE DEF r, refs
  <2>7. chain' \in Seq(Contracts) /\ Len(chain') = Len(chain)
    BY <1>4, <2>2, <2>4, <2>6
  <2>8. chain'[id] = r /\ \A i \in 1..Len(chain) : i # id => chain'[i] = chain[i]
    BY <1>4, <2>2, <2>6
  <2>9. Grows(chain, chain', ids, c)
    BY <1>4, <1>9, <2>4, <2>5, <2>7, <2>8 DEF Grows, id
  <2>. QED BY <1>9, <2>4, <2>5, <2>8, <2>9 DEF c, ids, id
<1>10. CASE c.fn \notin {"deploy", "initialize", "set"}
  BY <1>5, <1>6, <1>10 DEF c, ids, id
<1>. QED BY <1>7, <1>8, <1>9, <1>10

\* A command has its effect and the run goes on to the next, or ends.
LEMMA LedgerStepKeepsInv ==
    ASSUME SoundDeployment, DeployInv, NEW o \in Operators, Running(o),
           chain' \in {chain, Effect(o, Order(o))},
           \A p \in Operators : p # o => script'[p] = script[p],
           \A x \in CrateNames :
             \/ script'[o].ids[x] = script[o].ids[x]
             \/ /\ chain' = Effect(o, Order(o)) /\ Order(o).fn = "deploy" /\ x = Order(o).on
                /\ script'[o].ids[x] = Len(chain) + 1,
           UNCHANGED <<harness, funded, snapshots, env, created>>
    PROVE  /\ chain' \in Seq(Contracts) /\ \A p \in Operators, x \in CrateNames : script'[p].ids[x] <= Len(chain')
           /\ \A p \in Operators : p # o /\ Running(p) =>
                \A i \in 1..LastOrder : i < PlaceIn(p) => IsDone(script[p].ids, Orders[i], chain')
           /\ RunsAreApart' /\ BreakersAreReady' /\ HarnessIsSound'
           /\ \A ids : IsSettled(ids, chain, script) => IsSettled(ids, chain', script')
<1>. DEFINE c == Order(o)
            mine == script[o].ids
            n == PlaceIn(o)
<1>1. /\ n \in 1..LastOrder /\ c = Orders[n] /\ c \in Commands
      /\ \A i \in 1..LastOrder : i < n => IsDone(mine, Orders[i], chain)
      /\ mine \in [CrateNames -> Nat]
      /\ c.fn = "set" => c.on \in CrateNames /\ c.ref \in CrateNames
  BY RunsStand, OrdersFollow
<1>2. chain \in Seq(Contracts) /\ Len(chain) \in Nat
  BY DEF DeployInv, DeployType
<1>3. Grows(chain, chain', mine, c)
  <2>1. Grows(chain, chain, mine, c)
    BY <1>2 DEF Grows
  <2>. QED BY <2>1, EffectGrows
<1>4. /\ chain' \in Seq(Contracts) /\ Len(chain') \in Nat /\ Len(chain) <= Len(chain')
      /\ chain' = Effect(o, c) /\ c.fn = "deploy" => Len(chain') = Len(chain) + 1
  BY <1>3, EffectGrows DEF Grows
<1>5. ASSUME NEW p \in Operators, NEW x \in CrateNames
      PROVE  /\ script[p].ids[x] \in Nat /\ script[p].ids[x] <= Len(chain)
             /\ script'[p].ids[x] = script[p].ids[x] \/ (p = o /\ script'[p].ids[x] = Len(chain) + 1)
             /\ script'[p].ids[x] \in Nat /\ script'[p].ids[x] <= Len(chain')
  <2>1. script[p].ids[x] \in Nat /\ script[p].ids[x] <= Len(chain)
    BY DEF DeployInv, DeployType
  <2>. QED BY <1>2, <1>4, <2>1
<1>6. ASSUME NEW p \in Operators, p # o, Running(p), NEW i \in 1..LastOrder, i < PlaceIn(p)
      PROVE  IsDone(script[p].ids, Orders[i], chain')
  <2>. DEFINE ids == script[p].ids
              e == Orders[i]
  <2>1. \A j \in 1..LastOrder : j < PlaceIn(p) => IsDone(ids, Orders[j], chain)
    BY <1>6, RunsStand
  <2>2. PlaceIn(p) \in 1..LastOrder
    BY <1>6, RunsStand
  <2>. DEFINE m == PlaceIn(p)
  <2>3. \A j \in 1..LastOrder : j < i => IsDone(ids, Orders[j], chain)
    <3>. SUFFICES ASSUME NEW j \in 1..LastOrder, j < i PROVE IsDone(ids, Orders[j], chain)
      OBVIOUS
    <3>1. m \in 1..LastOrder /\ i < m
      BY <1>6, <2>2
    <3>. HIDE DEF m
    <3>2. j < m
      BY <3>1 DEF LastOrder
    <3>. QED BY <2>1, <3>2 DEF m
  <2>. HIDE DEF m
  <2>4. /\ IsDone(ids, e, chain)
        /\ e.fn \in {"initialize", "set"} => ids[e.on] \in 1..Len(chain)
        /\ e.fn = "set" => e.ref \in CrateNames /\ e.on \in CrateNames
    BY <1>6, <2>1, <2>3, OrdersAreGrounded, OrdersFollow
  <2>5. \A x, y \in CrateNames : ids[x] # Nowhere => ids[x] # mine[y]
    BY <1>6 DEF DeployInv, RunsAreApart
  <2>. HIDE DEF ids, e, mine, c
  <2>6. IsDone(ids, e, chain')
    BY <1>1, <1>2, <1>3, <2>4, <2>5, DoneStays
  <2>. QED BY <2>6 DEF ids, e
<1>7. RunsAreApart'
  <2>. SUFFICES ASSUME NEW p \in Operators, NEW q \in Operators, NEW x \in CrateNames, NEW y \in CrateNames,
                       p # q, script'[p].ids[x] # Nowhere
       PROVE  script'[p].ids[x] # script'[q].ids[y]
    BY DEF RunsAreApart
  <2>1. script[p].ids[x] # Nowhere => script[p].ids[x] # script[q].ids[y]
    BY DEF DeployInv, RunsAreApart
  <2>. QED BY <1>2, <1>5, <2>1
<1>8. BreakersAreReady'
  <2>. SUFFICES ASSUME NEW i \in 1..Len(chain'), chain'[i].refs["breaker"] # Nowhere
       PROVE  /\ chain'[i].refs["breaker"] \in 1..Len(chain')
              /\ chain'[chain'[i].refs["breaker"]].admin # Nobody
    BY DEF BreakersAreReady
  <2>. DEFINE b == chain'[i].refs["breaker"]
  <2>0. "breaker" \in CrateNames
    BY CratesAre
  <2>1. i \in 1..Len(chain)
    <3>1. Missing["breaker"] = Nowhere
      BY <2>0, CratesAre
    <3>. QED BY <1>2, <1>3, <1>4, <3>1 DEF Grows
  <2>2. b \in 1..Len(chain) /\ chain[b].admin # Nobody
    <3>1. CASE b = chain[i].refs["breaker"]
      BY <2>1, <3>1 DEF DeployInv, BreakersAreReady
    <3>2. CASE b # chain[i].refs["breaker"]
      <4>1. c.fn = "set" /\ c.ref = "breaker" /\ b = mine[c.ref]
        BY <1>3, <2>0, <2>1, <3>2 DEF Grows
      <4>. HIDE DEF c, n, mine, b
      <4>2. /\ Orders[n].fn = "set" => mine[Orders[n].ref] \in 1..Len(chain)
            /\ Orders[n].fn = "set" /\ Orders[n].ref = "breaker" => chain[mine["breaker"]].admin # Nobody
        BY <1>1, OrdersAreGrounded
      <4>. QED BY <1>1, <4>1, <4>2
    <3>. QED BY <3>1, <3>2
  <2>. HIDE DEF b
  <2>3. b \in 1..Len(chain') /\ chain'[b].admin # Nobody
    BY <1>2, <1>3, <1>4, <2>2 DEF Grows
  <2>. QED BY <2>3 DEF b
<1>9. HarnessIsSound'
  BY DEF DeployInv, HarnessIsSound, At
<1>10. ASSUME NEW ids, IsSettled(ids, chain, script) PROVE IsSettled(ids, chain', script')
  <2>1. \A p \in Operators, x \in CrateNames : script'[p].at = "running" =>
             \/ script'[p].ids[x] \notin 1..Len(chain)
             \/ script[p].at = "running" /\ script'[p].ids[x] = script[p].ids[x]
    BY <1>2, <1>5 DEF Running
  <2>2. script[o].at = "running"
    BY DEF Running
  <2>. HIDE DEF c
  <2>. QED BY <1>1, <1>2, <1>3, <1>10, <2>1, <2>2, SettledStays
<1>. QED BY <1>4, <1>5, <1>6, <1>7, <1>8, <1>9, <1>10

\* The run that is at its last command has wired its deployment.
LEMMA WrittenIsSettled ==
    ASSUME DeployInv, NEW o \in Operators, Running(o), Order(o).fn = "write",
           NEW next, \A p \in Operators : p # o => next[p] = script[p], next[o].at # "running"
    PROVE  IsSettled(BuildDeployment(script[o].ids), chain, next)
<1>. DEFINE mine == script[o].ids
            ids == BuildDeployment(mine)
<1>1. \A i \in 1..LastOrder : i < LastOrder => IsDone(mine, Orders[i], chain)
  <2>1. PlaceIn(o) = LastOrder
    BY RunsStand, OrdersFollow
  <2>. QED BY <2>1, RunsStand
<1>2. /\ \A i \in 1..7 : IsDone(mine, Command("deploy", Crates[i], Nobody), chain)
      /\ \A i \in 1..4 : IsDone(mine, InitializeAll[i], chain) /\ IsDone(mine, WireAll[i], chain)
  <2>1. \A i \in 1..7 : 1 + i \in 1..LastOrder /\ 1 + i < LastOrder
    BY DEF LastOrder
  <2>2. \A i \in 1..4 : /\ 8 + i \in 1..LastOrder /\ 8 + i < LastOrder
                        /\ 12 + i \in 1..LastOrder /\ 12 + i < LastOrder
    BY DEF LastOrder
  <2>. HIDE DEF mine
  <2>3. \A i \in 1..7 : IsDone(mine, Orders[1 + i], chain)
    BY <1>1, <2>1
  <2>4. \A i \in 1..4 : IsDone(mine, Orders[8 + i], chain) /\ IsDone(mine, Orders[12 + i], chain)
    BY <1>1, <2>2
  <2>. QED BY <2>3, <2>4, OrdersAre
<1>3. \A x \in CrateNames : mine[x] \in 1..Len(chain) /\ chain[mine[x]].crate = x
  <2>1. \A i \in 1..7 : mine[Crates[i]] \in 1..Len(chain) /\ chain[mine[Crates[i]]].crate = Crates[i]
    BY <1>2 DEF IsDone, Command
  <2>. HIDE DEF mine
  <2>. TAKE x \in CrateNames
  <2>2. PICK i \in 1..7 : x = Crates[i]
    BY CratesAre DEF CrateNames
  <2>. QED BY <2>1, <2>2
<1>. DEFINE Initialized(x) == \A i \in 1..4 : InitializeAll[i].on = x => chain[mine[x]].admin # Nobody
<1>4. \A x \in CrateNames : Initialized(x)
  <2>1. \A i \in 1..4 : InitializeAll[i].fn = "initialize"
    <3>1. \A i \in 1..4 : i = 1 \/ i = 2 \/ i = 3 \/ i = 4
      OBVIOUS
    <3>. QED BY <3>1 DEF InitializeAll, Command
  <2>. QED BY <1>2, <2>1 DEF IsDone
<1>5. \A x \in CrateNames : IsReady(mine[x], x, chain)
  BY <1>3, <1>4 DEF IsReady
<1>6. \A k \in SdkKeys : ids[k] = mine[k] /\ k \in CrateNames
  BY CratesAre DEF BuildDeployment
<1>7. \A i \in 1..4 : chain[mine[WireAll[i].on]].refs[WireAll[i].ref] = mine[WireAll[i].ref]
  <2>1. \A i \in 1..4 : WireAll[i].fn = "set"
    <3>1. \A i \in 1..4 : i = 1 \/ i = 2 \/ i = 3 \/ i = 4
      OBVIOUS
    <3>. QED BY <3>1 DEF WireAll, Command
  <2>. QED BY <1>2, <2>1 DEF IsDone
<1>. HIDE DEF ids, mine
<1>8. IsConnected(ids, chain)
  <2>1. ASSUME NEW i \in 1..4
        PROVE  LET c == WireAll[i]
                   target == chain[ids[c.on]].refs[c.ref]
               IN IsReady(target, c.ref, chain) /\ (c.ref \in SdkKeys => target = ids[c.ref])
    BY <1>5, <1>6, <1>7, Wires
  <2>. QED BY <1>5, <1>6, <2>1 DEF IsConnected
<1>9. ASSUME NEW p \in Operators, next[p].at = "running", NEW k \in SdkKeys, NEW x \in CrateNames
      PROVE  next[p].ids[x] # ids[k]
  <2>1. p # o /\ next[p] = script[p]
    BY <1>9
  <2>2. mine[k] # Nowhere
    BY <1>3, <1>6 DEF Nowhere
  <2>3. mine[k] # script[p].ids[x]
    BY <1>6, <2>1, <2>2 DEF DeployInv, RunsAreApart, mine
  <2>. QED BY <1>6, <2>1, <2>3
<1>. QED BY <1>8, <1>9 DEF IsSettled, ids, mine

LEMMA DeployInitInv == ASSUME SoundDeployment, DeployInit PROVE DeployInv
<1>1. /\ script = [o \in Operators |->
                     [at |-> "idle", admin |-> Nobody, dry |-> FALSE, plan |-> <<>>, ids |-> Missing]]
      /\ chain = <<>> /\ published = Unresolved /\ created = Unresolved
      /\ harness = [at |-> "new", tries |-> 0, contracts |-> Unresolved, scenario |-> Unresolved, seeds |-> 0]
      /\ snapshots = [s \in Scenarios |-> Unresolved] /\ env.own = Unresolved
      /\ env \in [own : {Unresolved}, any : {Unresolved, Elsewhere}]
  BY DEF DeployInit
<1>2. Missing \in [CrateNames -> Nat] /\ \A x \in CrateNames : Missing[x] = 0
  BY CratesAre DEF Nowhere
<1>3. \A o \in Operators : script[o] =
        [at |-> "idle", admin |-> Nobody, dry |-> FALSE, plan |-> <<>>, ids |-> Missing]
  BY <1>1
<1>4. chain \in Seq(Contracts) /\ Len(chain) = 0 /\ <<>> \in Seq(Commands)
  BY <1>1
<1>5. DeployType
  <2>. DEFINE idle == [at |-> "idle", admin |-> Nobody, dry |-> FALSE, plan |-> <<>>, ids |-> Missing]
              Scripts == [at : {"idle", "running", "exited", "done"}, admin : Operators \cup {Nobody, Other},
                          dry : BOOLEAN, plan : Seq(Commands), ids : [CrateNames -> Nat]]
  <2>1. idle \in Scripts
    BY <1>2, <1>4
  <2>2. script \in [Operators -> Scripts]
    BY <1>1, <2>1
  <2>3. /\ harness.seeds \in Nat /\ DOMAIN harness = {"at", "tries", "contracts", "scenario", "seeds"}
        /\ DOMAIN env = {"own", "any"}
    BY <1>1
  <2>. QED BY <1>2, <1>3, <1>4, <2>2, <2>3 DEF DeployType
<1>6. RunsAreInOrder /\ RunsAreApart
  BY <1>2, <1>3 DEF RunsAreInOrder, RunsAreApart, Running, Nowhere
<1>7. BreakersAreReady
  BY <1>4 DEF BreakersAreReady
<1>8. WhatIsTakenUpIsSettled
  BY <1>1, <1>3 DEF WhatIsTakenUpIsSettled
<1>9. HarnessIsSound
  BY <1>1 DEF HarnessIsSound, At
<1>. QED BY <1>5, <1>6, <1>7, <1>8, <1>9 DEF DeployInv

\* A run that ends, or begins, without a command.
LEMMA RunStepKeepsInv ==
    ASSUME SoundDeployment, DeployInv, NEW o \in Operators, Start(o) \/ DryRun(o)
    PROVE  DeployInv'
<1>. DEFINE Scripts == [at : {"idle", "running", "exited", "done"}, admin : Operators \cup {Nobody, Other},
                        dry : BOOLEAN, plan : Seq(Commands), ids : [CrateNames -> Nat]]
<1>0. /\ UNCHANGED <<chain, published, harness, funded, snapshots, env, created>>
      /\ script \in [Operators -> Scripts]
  BY DEF Start, DryRun, DeployInv, DeployType
<1>1. PICK r \in Scripts :
        /\ script' = [script EXCEPT ![o] = r]
        /\ r.ids = Missing \/ r.ids = script[o].ids
        /\ r.at = "running" =>
             /\ r.admin # Nobody /\ r.ids = Missing
             /\ Len(r.plan) \in {16, 17}
             /\ \A i \in 1..Len(r.plan) : r.plan[i] = Orders[PlaceOf(r.plan) - 1 + i]
        /\ r.at = "done" => r.dry = TRUE
  <2>1. CASE Start(o)
    <3>1. PICK build \in {<<>>, <<Command("build", Nobody, Nobody)>>}, admin \in {o, Other}, dry \in BOOLEAN :
            script' = [script EXCEPT ![o] =
                         [at |-> "running", admin |-> admin, dry |-> dry, plan |-> Plan(build), ids |-> Missing]]
      BY <2>1 DEF Start
    <3>. DEFINE plan == Plan(build)
                r == [at |-> "running", admin |-> admin, dry |-> dry, plan |-> plan, ids |-> Missing]
    <3>2. /\ plan \in Seq(Commands) /\ Len(plan) \in {16, 17}
          /\ \A i \in 1..Len(plan) : plan[i] = Orders[PlaceOf(plan) - 1 + i]
      <4>1. CASE build = <<>>
        <5>1. /\ plan \in Seq(Commands) /\ Len(plan) = 16
              /\ \A i \in 1..16 : plan[i] = Orders[i + 1]
          BY <4>1, OrdersAre
        <5>2. PlaceOf(plan) = 2
          BY <5>1 DEF PlaceOf, LastOrder
        <5>3. \A i \in 1..16 : 2 - 1 + i = i + 1
          OBVIOUS
        <5>. QED BY <5>1, <5>2, <5>3
      <4>2. CASE build = <<Command("build", Nobody, Nobody)>>
        <5>1. plan = Orders
          BY <4>2 DEF Orders
        <5>2. PlaceOf(plan) = 1 /\ Len(plan) = 17 /\ plan \in Seq(Commands)
          BY <5>1, OrdersAre DEF PlaceOf, LastOrder
        <5>3. \A i \in 1..17 : 1 - 1 + i = i
          OBVIOUS
        <5>. QED BY <5>1, <5>2, <5>3
      <4>. QED BY <4>1, <4>2
    <3>3. admin # Nobody
      BY DEF SoundDeployment, Other, Nobody
    <3>. HIDE DEF plan
    <3>4. Missing \in [CrateNames -> Nat]
      BY CratesAre DEF Nowhere
    <3>5. r \in Scripts
      BY <3>2, <3>4
    <3>. QED BY <3>1, <3>2, <3>3, <3>5 DEF plan
  <2>2. CASE DryRun(o)
    <3>. DEFINE r == [script[o] EXCEPT !.at = "done", !.plan = <<>>]
    <3>1. script[o] \in Scripts /\ script[o].dry = TRUE /\ <<>> \in Seq(Commands)
      BY <1>0, <2>2 DEF DryRun
    <3>2. r \in Scripts /\ r.ids = script[o].ids /\ r.at = "done" /\ r.dry = TRUE
      BY <3>1
    <3>3. script' = [script EXCEPT ![o] = r]
      BY <2>2 DEF DryRun
    <3>. QED BY <3>2, <3>3
  <2>. QED BY <2>1, <2>2
<1>2. /\ script' \in [Operators -> Scripts] /\ script'[o] = r
      /\ \A p \in Operators : p # o => script'[p] = script[p]
  BY <1>0, <1>1
<1>. HIDE DEF Scripts
<1>3. \A p \in Operators, x \in CrateNames :
        script'[p].ids[x] = script[p].ids[x] \/ (p = o /\ script'[p].ids[x] = Nowhere)
  BY <1>1, <1>2, CratesAre
<1>4. DeployType'
  <2>1. /\ chain' = chain /\ Len(chain) \in Nat
        /\ \A p \in Operators, x \in CrateNames : script[p].ids[x] <= Len(chain)
    BY <1>0 DEF DeployInv, DeployType
  <2>2. \A p \in Operators, x \in CrateNames : script'[p].ids[x] <= Len(chain)
    BY <1>3, <2>1 DEF Nowhere
  <2>3. \A p \in Operators, x \in CrateNames : script'[p].ids[x] <= Len(chain')
    BY <2>1, <2>2
  <2>. QED BY <1>0, <1>2, <2>3 DEF DeployInv, DeployType, Scripts
<1>5. RunsAreInOrder'
  <2>1. ASSUME NEW p \in Operators, p # o, Running(p)'
        PROVE  /\ script'[p].admin # Nobody
               /\ Len(script'[p].plan) \in 1..LastOrder
               /\ \A i \in 1..Len(script'[p].plan) : script'[p].plan[i] = Orders[PlaceOf(script'[p].plan) - 1 + i]
               /\ \A i \in 1..LastOrder :
                    i < PlaceOf(script'[p].plan) => IsDone(script'[p].ids, Orders[i], chain')
    BY <1>0, <1>2, <2>1 DEF DeployInv, RunsAreInOrder, Running
  <2>2. ASSUME r.at = "running"
        PROVE  /\ r.admin # Nobody
               /\ Len(r.plan) \in 1..LastOrder
               /\ \A i \in 1..Len(r.plan) : r.plan[i] = Orders[PlaceOf(r.plan) - 1 + i]
               /\ \A i \in 1..LastOrder : i < PlaceOf(r.plan) => IsDone(r.ids, Orders[i], chain')
    <3>. DEFINE m == Len(r.plan)
    <3>0. m \in {16, 17} /\ PlaceOf(r.plan) = 17 + 1 - m
      BY <1>1, <2>2 DEF PlaceOf, LastOrder
    <3>. HIDE DEF m
    <3>1. m \in 1..LastOrder /\ PlaceOf(r.plan) \in {1, 2}
      BY <3>0 DEF LastOrder
    <3>2. \A i \in 1..LastOrder : i < PlaceOf(r.plan) => Orders[i].fn = "build"
      <4>1. Orders[1].fn = "build"
        BY OrdersAre DEF Command
      <4>2. \A i \in 1..LastOrder : i < 2 => i = 1
        BY DEF LastOrder
      <4>. HIDE DEF PlaceOf
      <4>3. \A i \in 1..LastOrder : i < PlaceOf(r.plan) => i = 1
        BY <3>1, <4>2 DEF LastOrder
      <4>. QED BY <4>1, <4>3
    <3>. QED BY <1>1, <2>2, <3>1, <3>2 DEF IsDone, m
  <2>3. Running(o)' => r.at = "running"
    BY <1>2 DEF Running
  <2>. QED BY <1>2, <2>1, <2>2, <2>3 DEF RunsAreInOrder
<1>6. RunsAreApart' /\ BreakersAreReady' /\ HarnessIsSound'
  BY <1>0, <1>3 DEF DeployInv, RunsAreApart, BreakersAreReady, HarnessIsSound, At
<1>7. \A ids : IsSettled(ids, chain, script) => IsSettled(ids, chain', script')
  <2>. SUFFICES ASSUME NEW ids, IsSettled(ids, chain, script) PROVE IsSettled(ids, chain', script')
    OBVIOUS
  <2>1. \A k \in SdkKeys : ids[k] # Nowhere
    <3>1. \A k \in SdkKeys : IsReady(ids[k], k, chain)
      BY DEF IsSettled, IsConnected
    <3>. QED BY <3>1 DEF IsReady, Nowhere
  <2>2. ASSUME NEW p \in Operators, script'[p].at = "running"
        PROVE  \A k \in SdkKeys, x \in CrateNames : script'[p].ids[x] # ids[k]
    <3>1. CASE p = o
      <4>1. \A x \in CrateNames : script'[p].ids[x] = Nowhere
        BY <1>1, <1>2, <2>2, <3>1, CratesAre
      <4>. QED BY <2>1, <4>1
    <3>2. CASE p # o
      BY <1>2, <2>2, <3>2 DEF IsSettled
    <3>. QED BY <3>1, <3>2
  <2>. QED BY <1>0, <2>2 DEF IsSettled
<1>8. WhatIsTakenUpIsSettled'
  <2>1. \A p \in Operators : script'[p].at = "done" /\ script'[p].dry = FALSE => script'[p] = script[p]
    BY <1>1, <1>2
  <2>. QED BY <1>0, <1>7, <2>1 DEF DeployInv, WhatIsTakenUpIsSettled, Settled
<1>. QED BY <1>4, <1>5, <1>6, <1>8 DEF DeployInv

LEMMA ExecuteKeepsInv ==
    ASSUME SoundDeployment, DeployInv, NEW o \in Operators, Execute(o)
    PROVE  DeployInv'
<1>. DEFINE Scripts == [at : {"idle", "running", "exited", "done"}, admin : Operators \cup {Nobody, Other},
                        dry : BOOLEAN, plan : Seq(Commands), ids : [CrateNames -> Nat]]
            c == Order(o)
            was == script[o]
            ids == IF c.fn = "deploy" THEN [was.ids EXCEPT ![c.on] = Len(chain) + 1] ELSE was.ids
            r == [was EXCEPT !.plan = Tail(was.plan), !.ids = ids,
                             !.at = IF Len(was.plan) = 1 THEN "done" ELSE was.at]
            n == PlaceIn(o)
<1>0. /\ Running(o) /\ was.dry = FALSE /\ was.at = "running"
      /\ script' = [script EXCEPT ![o] = r] /\ chain' = Effect(o, c)
      /\ published' = IF c.fn = "write" THEN BuildDeployment(was.ids) ELSE published
      /\ UNCHANGED <<harness, funded, snapshots, env, created>>
  BY DEF Execute, Done, Order, Running, DeployInv, DeployType
<1>1. /\ n \in 1..LastOrder /\ c = Orders[n]
      /\ Len(was.plan) = 1 <=> n = LastOrder
  BY <1>0, RunsStand
<1>2. /\ was \in Scripts
      /\ c.fn = "deploy" => c.on \in CrateNames
      /\ was.plan \in Seq(Commands) /\ was.plan # <<>> /\ was.ids \in [CrateNames -> Nat]
      /\ Len(chain) \in Nat
  BY <1>0, <1>1, RunsStand, OrdersFollow DEF DeployInv, DeployType
<1>3. ids \in [CrateNames -> Nat]
  BY <1>2
<1>4. Tail(was.plan) \in Seq(Commands)
  BY <1>2
<1>5. /\ r \in Scripts /\ r.ids = ids /\ r.plan = Tail(was.plan) /\ r.dry = FALSE /\ r.admin = was.admin
      /\ r.at = IF n = LastOrder THEN "done" ELSE "running"
  <2>. HIDE DEF ids, c, n
  <2>. QED BY <1>0, <1>1, <1>2, <1>3, <1>4
<1>6. \A x \in CrateNames :
             \/ ids[x] = was.ids[x]
             \/ /\ chain' = Effect(o, c) /\ c.fn = "deploy" /\ x = c.on
                /\ ids[x] = Len(chain) + 1
  BY <1>0, <1>2
<1>. HIDE DEF ids, r, Scripts, c, n
<1>7. /\ script' \in [Operators -> Scripts] /\ script'[o] = r
      /\ \A p \in Operators : p # o => script'[p] = script[p]
  BY <1>0, <1>5 DEF DeployInv, DeployType, Scripts
<1>8. /\ chain' \in Seq(Contracts) /\ \A p \in Operators, x \in CrateNames : script'[p].ids[x] <= Len(chain')
      /\ \A p \in Operators : p # o /\ Running(p) =>
           \A i \in 1..LastOrder : i < PlaceIn(p) => IsDone(script[p].ids, Orders[i], chain')
      /\ RunsAreApart' /\ BreakersAreReady' /\ HarnessIsSound'
      /\ \A d : IsSettled(d, chain, script) => IsSettled(d, chain', script')
  BY <1>0, <1>5, <1>6, <1>7, LedgerStepKeepsInv DEF c
<1>9. DeployType'
  BY <1>0, <1>7, <1>8 DEF DeployInv, DeployType, Scripts
<1>10. \A i \in 1..LastOrder : i < n + 1 => IsDone(ids, Orders[i], chain')
  <2>. SUFFICES ASSUME NEW i \in 1..LastOrder, i < n + 1 PROVE IsDone(ids, Orders[i], chain')
    OBVIOUS
  <2>. DEFINE e == Orders[i]
  <2>1. /\ Grows(chain, chain', was.ids, c)
        /\ c.fn = "deploy" => Len(chain') = Len(chain) + 1 /\ chain'[Len(chain) + 1].crate = c.on
        /\ c.fn = "initialize" => chain'[was.ids[c.on]].admin # Nobody
        /\ c.fn = "set" => chain'[was.ids[c.on]].refs[c.ref] = was.ids[c.ref]
    BY <1>0, EffectGrows DEF c
  <2>2. CASE i < n
    <3>1. \A j \in 1..LastOrder : j < n => IsDone(was.ids, Orders[j], chain)
      BY <1>0, RunsStand DEF n
    <3>2. \A j \in 1..LastOrder : j < i => IsDone(was.ids, Orders[j], chain)
      BY <1>1, <2>2, <3>1 DEF LastOrder
    <3>3. /\ IsDone(was.ids, e, chain)
          /\ e.fn \in {"initialize", "set"} => was.ids[e.on] \in 1..Len(chain)
          /\ e.fn = "set" => e.ref \in CrateNames /\ e.on \in CrateNames
      BY <2>2, <3>1, <3>2, OrdersAreGrounded, OrdersFollow
    <3>4. c.fn = "set" => c.on \in CrateNames
      BY <1>1, OrdersFollow
    <3>5. c.fn = "deploy" =>
            e.fn # "initialize" /\ e.fn # "set" /\ (e.fn = "deploy" => e.on # c.on)
      BY <1>1, <2>2, OrdersFollow
    <3>6. e.fn = "deploy" => e.on \in CrateNames
      BY OrdersFollow
    <3>. HIDE DEF e
    <3>7. chain \in Seq(Contracts)
      BY DEF DeployInv, DeployType
    <3>8. IsDone(was.ids, e, chain')
      BY <2>1, <3>3, <3>4, <3>7, DoneStays
    <3>9. CASE c.fn = "deploy"
      <4>1. e.fn = "deploy" => ids[e.on] = was.ids[e.on]
        BY <1>6, <3>5, <3>6
      <4>. QED BY <3>5, <3>8, <3>9, <4>1 DEF IsDone, e
    <3>10. CASE c.fn # "deploy"
      BY <3>8, <3>10 DEF ids, e
    <3>. QED BY <3>9, <3>10
  <2>3. CASE i = n
    <3>1. e = c
      BY <1>1, <2>3
    <3>. HIDE DEF e
    <3>2. CASE c.fn = "deploy"
      <4>1. ids[c.on] = Len(chain) + 1 /\ ids[c.on] \in 1..Len(chain')
        BY <1>2, <2>1, <3>2 DEF ids
      <4>. QED BY <2>1, <3>1, <3>2, <4>1 DEF IsDone, e
    <3>3. CASE c.fn # "deploy"
      <4>1. ids = was.ids
        BY <3>3 DEF ids
      <4>. QED BY <2>1, <3>1, <3>3, <4>1 DEF IsDone, e
    <3>. QED BY <3>2, <3>3
  <2>. QED BY <1>1, <2>2, <2>3 DEF LastOrder
<1>11. RunsAreInOrder'
  <2>1. ASSUME NEW p \in Operators, p # o, Running(p)'
        PROVE  /\ script'[p].admin # Nobody
               /\ Len(script'[p].plan) \in 1..LastOrder
               /\ \A i \in 1..Len(script'[p].plan) : script'[p].plan[i] = Orders[PlaceOf(script'[p].plan) - 1 + i]
               /\ \A i \in 1..LastOrder :
                    i < PlaceOf(script'[p].plan) => IsDone(script'[p].ids, Orders[i], chain')
    BY <1>7, <1>8, <2>1 DEF DeployInv, RunsAreInOrder, Running, PlaceIn
  <2>2. ASSUME r.at = "running"
        PROVE  /\ r.admin # Nobody
               /\ Len(r.plan) \in 1..LastOrder
               /\ \A i \in 1..Len(r.plan) : r.plan[i] = Orders[PlaceOf(r.plan) - 1 + i]
               /\ \A i \in 1..LastOrder : i < PlaceOf(r.plan) => IsDone(r.ids, Orders[i], chain')
    <3>. DEFINE m == Len(was.plan)
    <3>1. /\ m \in 1..17 /\ was.admin # Nobody
          /\ \A i \in 1..m : was.plan[i] = Orders[PlaceOf(was.plan) - 1 + i]
      BY <1>0 DEF DeployInv, RunsAreInOrder, LastOrder
    <3>2. n = 18 - m /\ PlaceOf(was.plan) = 18 - m
      BY <3>1 DEF n, PlaceIn, PlaceOf, LastOrder
    <3>3. n # 17
      BY <1>5, <2>2 DEF LastOrder
    <3>4. /\ Len(r.plan) = m - 1
          /\ \A i \in 1..(m - 1) : r.plan[i] = was.plan[i + 1]
      BY <1>2, <1>5
    <3>5. PlaceOf(r.plan) = 19 - m
      BY <3>1, <3>4 DEF PlaceOf, LastOrder
    <3>. HIDE DEF m
    <3>6. \A i \in 1..(m - 1) : r.plan[i] = Orders[PlaceOf(r.plan) - 1 + i]
      <4>. TAKE i \in 1..(m - 1)
      <4>1. i + 1 \in 1..m /\ (18 - m) - 1 + (i + 1) = (19 - m) - 1 + i
        BY <3>1
      <4>2. was.plan[i + 1] = Orders[(18 - m) - 1 + (i + 1)]
        BY <3>1, <3>2, <4>1
      <4>. QED BY <3>4, <3>5, <4>1, <4>2
    <3>7. \A i \in 1..LastOrder : i < PlaceOf(r.plan) => IsDone(r.ids, Orders[i], chain')
      <4>1. PlaceOf(r.plan) = n + 1
        BY <3>1, <3>2, <3>5
      <4>. QED BY <1>5, <1>10, <4>1
    <3>8. Len(r.plan) \in 1..LastOrder
      BY <3>1, <3>2, <3>3, <3>4 DEF LastOrder
    <3>. QED BY <1>5, <3>1, <3>4, <3>6, <3>7, <3>8
  <2>3. Running(o)' => r.at = "running"
    BY <1>7 DEF Running
  <2>. QED BY <1>7, <2>1, <2>2, <2>3 DEF RunsAreInOrder
<1>12. WhatIsTakenUpIsSettled'
  <2>1. n = LastOrder =>
          IsSettled(BuildDeployment(was.ids), chain', script') /\ ids = was.ids
    <3>. SUFFICES ASSUME n = LastOrder
         PROVE  IsSettled(BuildDeployment(was.ids), chain', script') /\ ids = was.ids
      OBVIOUS
    <3>1. c.fn = "write" /\ r.at = "done"
      BY <1>1, <1>5, OrdersFollow
    <3>2. chain' = chain /\ ids = was.ids
      BY <1>0, <3>1, EffectGrows DEF c, ids
    <3>3. IsSettled(BuildDeployment(was.ids), chain, script')
      BY <1>0, <1>7, <3>1, WrittenIsSettled DEF c
    <3>. QED BY <3>2, <3>3
  <2>2. c.fn = "write" <=> n = LastOrder
    BY <1>1, OrdersFollow
  <2>3. published' \notin {Unresolved, Torn} => IsSettled(published', chain', script')
    BY <1>0, <1>8, <2>1, <2>2 DEF DeployInv, WhatIsTakenUpIsSettled, Settled
  <2>4. ASSUME NEW p \in Operators, script'[p].at = "done", script'[p].dry = FALSE
        PROVE  IsSettled(BuildDeployment(script'[p].ids), chain', script')
    <3>1. CASE p = o
      BY <1>5, <1>7, <2>1, <2>4, <3>1
    <3>2. CASE p # o
      BY <1>7, <1>8, <2>4, <3>2 DEF DeployInv, WhatIsTakenUpIsSettled, Settled
    <3>. QED BY <3>1, <3>2
  <2>5. /\ harness'.contracts \notin {Unresolved, Fallback} => IsSettled(harness'.contracts, chain', script')
        /\ env'.own \notin {Unresolved, Fallback} => IsSettled(env'.own, chain', script')
        /\ created' # Unresolved /\ created'.told => IsSettled(created'.contracts, chain', script')
    BY <1>0, <1>8 DEF DeployInv, WhatIsTakenUpIsSettled, Settled
  <2>. QED BY <2>3, <2>4, <2>5 DEF WhatIsTakenUpIsSettled, Settled
<1>. QED BY <1>8, <1>9, <1>11, <1>12 DEF DeployInv

LEMMA FailKeepsInv ==
    ASSUME SoundDeployment, DeployInv, NEW o \in Operators, Fail(o)
    PROVE  DeployInv'
<1>. DEFINE Scripts == [at : {"idle", "running", "exited", "done"}, admin : Operators \cup {Nobody, Other},
                        dry : BOOLEAN, plan : Seq(Commands), ids : [CrateNames -> Nat]]
            r == [script[o] EXCEPT !.at = "exited", !.plan = <<>>]
<1>1. /\ Running(o) /\ script' = [script EXCEPT ![o] = r]
      /\ chain' \in {chain, Effect(o, Order(o))} /\ published' \in {published, Torn}
      /\ UNCHANGED <<harness, funded, snapshots, env, created>>
  BY DEF Fail, Order
<1>2. script \in [Operators -> Scripts] /\ script[o] \in Scripts /\ <<>> \in Seq(Commands)
  BY DEF DeployInv, DeployType
<1>3. r \in Scripts /\ r.at = "exited" /\ r.ids = script[o].ids
  BY <1>2
<1>. HIDE DEF r, Scripts
<1>4. /\ script' \in [Operators -> Scripts] /\ script'[o] = r
      /\ \A p \in Operators : p # o => script'[p] = script[p]
  BY <1>1, <1>2, <1>3
<1>5. /\ chain' \in Seq(Contracts) /\ \A p \in Operators, x \in CrateNames : script'[p].ids[x] <= Len(chain')
      /\ \A p \in Operators : p # o /\ Running(p) =>
           \A i \in 1..LastOrder : i < PlaceIn(p) => IsDone(script[p].ids, Orders[i], chain')
      /\ RunsAreApart' /\ BreakersAreReady' /\ HarnessIsSound'
      /\ \A d : IsSettled(d, chain, script) => IsSettled(d, chain', script')
  BY <1>1, <1>3, <1>4, LedgerStepKeepsInv
<1>6. DeployType'
  BY <1>1, <1>4, <1>5 DEF DeployInv, DeployType, Scripts
<1>7. RunsAreInOrder'
  <2>1. \A p \in Operators : Running(p)' => p # o /\ Running(p)
    BY <1>3, <1>4 DEF Running
  <2>. QED BY <1>4, <1>5, <2>1 DEF DeployInv, RunsAreInOrder, PlaceIn
<1>8. WhatIsTakenUpIsSettled'
  <2>1. \A p \in Operators : script'[p].at = "done" => p # o /\ script'[p] = script[p]
    BY <1>3, <1>4
  <2>. QED BY <1>1, <1>5, <2>1 DEF DeployInv, WhatIsTakenUpIsSettled, Settled
<1>. QED BY <1>5, <1>6, <1>7, <1>8 DEF DeployInv

\* What the harness takes up, and what is made of it, was published.
LEMMA TakingUpKeepsInv ==
    ASSUME DeployInv, UNCHANGED <<script, chain, published>>,
           harness'.seeds \in Nat, DOMAIN harness' = DOMAIN harness, DOMAIN env' = DOMAIN env,
           harness'.contracts = harness.contracts \/ harness'.contracts = LoadDeployment,
           \/ env'.own = env.own \/ env'.own = LoadDeployment
           \/ \E o \in Operators : /\ script[o].at = "done" /\ script[o].dry = FALSE
                                   /\ env'.own = BuildDeployment(script[o].ids),
           \/ created' = created
           \/ created'.told => created'.contracts = env.own /\ env.own \notin {Unresolved, Fallback},
           HarnessIsSound'
    PROVE  DeployInv'
<1>1. DeployType' /\ RunsAreInOrder' /\ RunsAreApart' /\ BreakersAreReady'
  BY DEF DeployInv, DeployType, RunsAreInOrder, RunsAreApart, BreakersAreReady, Running
<1>2. \A ids : Settled(ids) => IsSettled(ids, chain', script')
  BY DEF Settled
<1>3. LoadDeployment \notin {Unresolved, Fallback} => Settled(LoadDeployment)
  BY DEF LoadDeployment, DeployInv, WhatIsTakenUpIsSettled
<1>4. /\ published' \notin {Unresolved, Torn} => Settled(published')
      /\ harness'.contracts \notin {Unresolved, Fallback} => Settled(harness'.contracts)
      /\ env'.own \notin {Unresolved, Fallback} => Settled(env'.own)
      /\ created' # Unresolved /\ created'.told => Settled(created'.contracts)
      /\ \A o \in Operators :
           script'[o].at = "done" /\ script'[o].dry = FALSE => Settled(BuildDeployment(script'[o].ids))
  BY <1>3 DEF DeployInv, WhatIsTakenUpIsSettled
<1>5. WhatIsTakenUpIsSettled'
  BY <1>2, <1>4 DEF WhatIsTakenUpIsSettled, Settled
<1>. QED BY <1>1, <1>5 DEF DeployInv

LEMMA HarnessKeepsInv ==
    ASSUME SoundDeployment, DeployInv,
           \/ SetUp \/ WaitForDevnet \/ FundNext \/ DevnetOrSeedScript \/ Load
           \/ \E name \in Scenarios : SeedScenario(name) \/ RestoreSnapshot(name)
    PROVE  DeployInv'
<1>1. /\ DOMAIN harness = {"at", "tries", "contracts", "scenario", "seeds"} /\ harness.seeds \in Nat
      /\ DOMAIN env = {"own", "any"} /\ DOMAIN snapshots = Scenarios
      /\ harness.at \in {"seeding", "ready"} => Identities \subseteq funded
      /\ \A s \in Scenarios : snapshots[s] # Unresolved => snapshots[s].name = s
      /\ harness.at = "ready" =>
           harness.scenario.name \in Scenarios /\ snapshots[harness.scenario.name] # Unresolved
  BY DEF DeployInv, DeployType, HarnessIsSound, At
<1>2. UNCHANGED <<script, chain, published, created>>
  BY DEF SetUp, WaitForDevnet, FundNext, DevnetOrSeedScript, Load, SeedScenario, RestoreSnapshot, HarnessMoves
<1>3. CASE SetUp \/ WaitForDevnet \/ FundNext \/ DevnetOrSeedScript
  <2>1. /\ UNCHANGED <<snapshots, env>> /\ funded \subseteq funded'
        /\ DOMAIN harness' = DOMAIN harness /\ harness'.seeds = harness.seeds
        /\ harness'.contracts = harness.contracts /\ harness'.scenario = harness.scenario
        /\ harness'.at \in {"seeding", "ready"} => harness'.at = harness.at
    BY <1>1, <1>3 DEF SetUp, WaitForDevnet, FundNext, DevnetOrSeedScript, At
  <2>2. HarnessIsSound'
    BY <1>1, <2>1 DEF HarnessIsSound, At
  <2>. QED BY <1>1, <1>2, <2>1, <2>2, TakingUpKeepsInv
<1>4. CASE Load
  <2>1. /\ harness' = [harness EXCEPT !.at = "seeding", !.contracts = LoadDeployment]
        /\ env' = [env EXCEPT !.own = LoadDeployment]
        /\ Identities \subseteq funded /\ UNCHANGED <<funded, snapshots>>
    BY <1>4 DEF Load
  <2>2. /\ DOMAIN harness' = DOMAIN harness /\ harness'.seeds = harness.seeds /\ harness'.at = "seeding"
        /\ harness'.contracts = LoadDeployment /\ env'.own = LoadDeployment /\ DOMAIN env' = DOMAIN env
    BY <1>1, <2>1
  <2>3. HarnessIsSound'
    BY <1>1, <2>1, <2>2 DEF HarnessIsSound, At
  <2>. QED BY <1>1, <1>2, <2>2, <2>3, TakingUpKeepsInv
<1>5. ASSUME NEW name \in Scenarios, SeedScenario(name) PROVE DeployInv'
  <2>. DEFINE seed == harness.seeds + 1
              it == Seeded(name, seed)
              standard == Seeded("standard", seed)
  <2>1. /\ harness' = [harness EXCEPT !.at = "ready", !.seeds = seed, !.scenario = it]
        /\ snapshots' = [snapshots EXCEPT !["standard"] = standard, ![it.name] = it]
        /\ harness.at \in {"seeding", "ready"} /\ UNCHANGED <<funded, env>>
    BY <1>5 DEF SeedScenario
  <2>2. seed \in Nat /\ "standard" \in Scenarios
    BY <1>1 DEF Scenarios
  <2>3. /\ it # Unresolved /\ standard # Unresolved /\ standard.name = "standard"
        /\ it.name \in Scenarios
    BY <2>2 DEF SoundDeployment, Seeded
  <2>. HIDE DEF seed, it, standard
  <2>4. /\ DOMAIN harness' = DOMAIN harness /\ harness'.seeds \in Nat /\ harness'.at = "ready"
        /\ harness'.contracts = harness.contracts /\ harness'.scenario = it
    BY <1>1, <2>1, <2>2
  <2>5. /\ DOMAIN snapshots' = Scenarios /\ snapshots'[it.name] = it
        /\ \A s \in Scenarios : s # it.name =>
             snapshots'[s] = IF s = "standard" THEN standard ELSE snapshots[s]
    BY <1>1, <2>1, <2>2, <2>3
  <2>6. HarnessIsSound'
    BY <1>1, <2>1, <2>3, <2>4, <2>5 DEF HarnessIsSound, At
  <2>. QED BY <1>2, <2>1, <2>4, <2>6, TakingUpKeepsInv
<1>6. ASSUME NEW name \in Scenarios, RestoreSnapshot(name) PROVE DeployInv'
  <2>1. /\ harness' = [harness EXCEPT !.scenario = snapshots[name]] /\ harness.at = "ready"
        /\ snapshots[name] # Unresolved /\ UNCHANGED <<funded, snapshots, env>>
    BY <1>6 DEF RestoreSnapshot, At
  <2>2. /\ DOMAIN harness' = DOMAIN harness /\ harness'.seeds = harness.seeds /\ harness'.at = "ready"
        /\ harness'.contracts = harness.contracts /\ harness'.scenario = snapshots[name]
    BY <1>1, <2>1
  <2>3. HarnessIsSound'
    BY <1>1, <2>1, <2>2 DEF HarnessIsSound, At
  <2>. QED BY <1>1, <1>2, <2>1, <2>2, <2>3, TakingUpKeepsInv
<1>. QED BY <1>3, <1>4, <1>5, <1>6

LEMMA DeployNextInv ==
    ASSUME SoundDeployment, DeployInv, [DeployNext]_deployVars
    PROVE  DeployInv'
<1>1. ASSUME NEW o \in Operators, Start(o) \/ Execute(o) \/ DryRun(o) \/ Fail(o) PROVE DeployInv'
  BY <1>1, RunStepKeepsInv, ExecuteKeepsInv, FailKeepsInv
<1>2. ASSUME NEW o \in Operators, PasteEnv(o) PROVE DeployInv'
  <2>1. /\ script[o].at = "done" /\ script[o].dry = FALSE
        /\ env' = [env EXCEPT !.own = BuildDeployment(script[o].ids)]
        /\ UNCHANGED <<script, chain, published, harness, funded, snapshots, created>>
    BY <1>2 DEF PasteEnv, DeployInv, DeployType
  <2>2. DOMAIN env' = DOMAIN env /\ env'.own = BuildDeployment(script[o].ids) /\ harness.seeds \in Nat
    BY <2>1 DEF DeployInv, DeployType
  <2>3. HarnessIsSound'
    BY <2>1 DEF DeployInv, HarnessIsSound, At
  <2>. QED BY <2>1, <2>2, <2>3, TakingUpKeepsInv
<1>3. CASE \/ SetUp \/ WaitForDevnet \/ FundNext \/ DevnetOrSeedScript \/ Load
           \/ \E name \in Scenarios : SeedScenario(name) \/ RestoreSnapshot(name)
  BY <1>3, HarnessKeepsInv
<1>4. CASE CreateAgent
  <2>1. /\ ResolveContracts \notin {Unresolved, Fallback}
        /\ created' = [contracts |-> ResolveContracts, told |-> env.own # Unresolved]
        /\ UNCHANGED <<script, chain, published, harness, funded, snapshots, env>>
    BY <1>4 DEF CreateAgent
  <2>2. created'.told => created'.contracts = env.own /\ env.own \notin {Unresolved, Fallback}
    <3>1. CASE env.own = Unresolved
      BY <2>1, <3>1
    <3>2. CASE env.own # Unresolved
      BY <2>1, <3>2 DEF ResolveContracts
    <3>. QED BY <3>1, <3>2
  <2>3. harness.seeds \in Nat
    BY DEF DeployInv, DeployType
  <2>4. HarnessIsSound'
    BY <2>1 DEF DeployInv, HarnessIsSound, At
  <2>. QED BY <2>1, <2>2, <2>3, <2>4, TakingUpKeepsInv
<1>5. CASE UNCHANGED deployVars
  <2>1. UNCHANGED <<script, chain, published, harness, funded, snapshots, env, created>>
    BY <1>5 DEF deployVars
  <2>2. harness.seeds \in Nat
    BY DEF DeployInv, DeployType
  <2>3. HarnessIsSound'
    BY <2>1 DEF DeployInv, HarnessIsSound, At
  <2>. QED BY <2>1, <2>2, <2>3, TakingUpKeepsInv
<1>. QED BY <1>1, <1>2, <1>3, <1>4, <1>5 DEF DeployNext

\* For any operators, whose runs interleave, fail at any command and are
\* repeated: a deployment that was published, that the harness loaded or that
\* an agent was told of is of one run, initialized and wired.
THEOREM DeploymentsAreWired == SoundDeployment => (DeploySpec => []PublishedIsWired)
<1>. SUFFICES ASSUME SoundDeployment PROVE DeploySpec => []PublishedIsWired
  OBVIOUS
<1>1. DeployInv => PublishedIsWired
  <2>1. \A ids : Settled(ids) => IsWired(ids)
    BY ConnectedIsWired DEF Settled, IsSettled
  <2>. QED BY <2>1 DEF DeployInv, WhatIsTakenUpIsSettled, PublishedIsWired
<1>2. DeployInit => DeployInv
  BY DeployInitInv
<1>3. DeployInv /\ [DeployNext]_deployVars => DeployInv'
  BY DeployNextInv
<1>. QED BY <1>1, <1>2, <1>3, PTL DEF DeploySpec

\* A contract refers to a circuit breaker only after that was initialized, in
\* every run, finished or not; and a harness that is ready has its accounts
\* and the snapshot of its scenario.
THEOREM BreakersComeFirst == SoundDeployment => (DeploySpec => [](BreakerComesFirst /\ HarnessIsReady))
<1>. SUFFICES ASSUME SoundDeployment PROVE DeploySpec => [](BreakerComesFirst /\ HarnessIsReady)
  OBVIOUS
<1>1. DeployInv => BreakerComesFirst /\ HarnessIsReady
  <2>. SUFFICES ASSUME DeployInv PROVE BreakerComesFirst /\ HarnessIsReady
    OBVIOUS
  <2>1. DOMAIN chain = 1..Len(chain)
    BY DEF DeployInv, DeployType
  <2>2. BreakerComesFirst
    BY <2>1 DEF DeployInv, BreakersAreReady, BreakerComesFirst
  <2>3. HarnessIsReady
    BY DEF DeployInv, HarnessIsSound, HarnessIsReady, At
  <2>. QED BY <2>2, <2>3
<1>2. DeployInit => DeployInv
  BY DeployInitInv
<1>3. DeployInv /\ [DeployNext]_deployVars => DeployInv'
  BY DeployNextInv
<1>. QED BY <1>1, <1>2, <1>3, PTL DEF DeploySpec

-----------------------------------------------------------------------------
(* The dashboard's screen.                                                 *)

Versions == Nat \ {None}
Readings == {<<>>} \cup (Versions \X Nat)
ReadRequests == [agent : Versions, value : Nat, read : BOOLEAN, current : BOOLEAN, ticks : BOOLEAN]

ScreenType ==
    /\ page \in [query : {Unset, "mock"}, storage : BOOLEAN,
                 settings : {{}, {"viewerKey"}, NeededSettings}]
    /\ storedMode \in Modes \cup {Unset}
    /\ config \in [mode : Modes, problems : {{}, {"checklist"}, {"agentError"}}, version : Versions]
    /\ agent \in Nat
    /\ poll \in [data : Readings, status : {"idle", "loading", "ready", "error"}, timer : BOOLEAN]
    /\ requests \subseteq ReadRequests
    /\ spent \in Nat

\* An agent that is there, or being created, is the configuration's; one of
\* the chain is shown with its own numbers only.
AgentIsOfItsMode ==
    /\ creations \subseteq 1..config.version
    /\ agent # None => agent = config.version
    /\ config.version \in creations => config.mode = "chain" /\ agent = None
    /\ config.mode = "chain" /\ poll.data # <<>> => poll.data[1] = agent
    /\ config.problems = {} /\ agent = None => config.version \in creations

\* At most one request is current, and what it read is no older than what is
\* shown, nor newer than the ledger.
ReadingsAreOrdered ==
    /\ \A r, q \in requests : r.current = TRUE /\ q.current = TRUE => r = q
    /\ \A r \in requests : r.current = TRUE => agent # None /\ r.agent = agent
    /\ \A r \in requests : r.read = TRUE => r.value <= spent
    /\ poll.data # <<>> => poll.data[2] <= spent
    /\ \A r \in requests :
         r.current = TRUE /\ r.read = TRUE /\ poll.data # <<>> => poll.data[2] <= r.value

ScreenInv == ScreenType /\ AgentIsOfItsMode /\ ReadingsAreOrdered

\* The mode that is read is one of the modes, whatever was stored.
LEMMA ConfigurationIsRead ==
    ASSUME ScreenType, NEW inStorage \in Modes \cup {Unset}, NEW environment \in Modes, NEW version
    PROVE  LET c == ReadDashboardConfig(inStorage, environment, version) IN
           /\ c.mode \in Modes /\ c.version = version
           /\ c.problems \in {{}, {"checklist"}}
           /\ c.mode = "chain" /\ c.problems = {} => "viewerKey" \in page.settings
           /\ c = [mode |-> c.mode, problems |-> c.problems, version |-> version]
<1>. DEFINE m == ResolveMode(inStorage, environment)
            c == ReadDashboardConfig(inStorage, environment, version)
<1>1. page.query \in {Unset, "mock"} /\ page.storage \in BOOLEAN
  BY DEF ScreenType
<1>2. m \in Modes
  <2>1. CASE page.query # Unset
    <3>1. m = page.query
      BY <2>1 DEF ResolveMode
    <3>. QED BY <1>1, <2>1, <3>1 DEF Modes
  <2>2. CASE page.query = Unset /\ page.storage = TRUE /\ inStorage # Unset
    <3>1. m = inStorage
      BY <2>2 DEF ResolveMode
    <3>. QED BY <2>2, <3>1
  <2>3. CASE page.query = Unset /\ ~(page.storage = TRUE /\ inStorage # Unset)
    <3>1. m = environment
      BY <1>1, <2>3 DEF ResolveMode
    <3>. QED BY <3>1
  <2>. QED BY <2>1, <2>2, <2>3
<1>. HIDE DEF m
<1>3. c = [mode |-> m, problems |-> Problems(m), version |-> version]
  BY DEF ReadDashboardConfig, m
<1>4. Problems(m) \in {{}, {"checklist"}} /\ (m = "chain" /\ Problems(m) = {} => "viewerKey" \in page.settings)
  BY DEF Problems, NeededSettings
<1>. HIDE DEF c
<1>5. c.mode = m /\ c.problems = Problems(m) /\ c.version = version
  BY <1>3
<1>. QED BY <1>2, <1>3, <1>4, <1>5 DEF c

LEMMA ScreenInitInv == ScreenInit => ScreenInv
<1>. SUFFICES ASSUME ScreenInit PROVE ScreenInv
  OBVIOUS
<1>1. /\ page \in [query : {Unset, "mock"}, storage : BOOLEAN, settings : {{}, {"viewerKey"}, NeededSettings}]
      /\ storedMode = Unset /\ requests = {} /\ spent = 0
      /\ agent = IF config.mode = "mock" THEN 1 ELSE None
      /\ creations = IF config.mode = "chain" /\ "viewerKey" \in page.settings THEN {1} ELSE {}
      /\ poll = [Idle EXCEPT !.timer = (config.mode = "mock")]
  BY DEF ScreenInit
<1>2. /\ config.mode \in Modes /\ config.version = 1 /\ config.problems \in {{}, {"checklist"}}
      /\ config.mode = "chain" /\ config.problems = {} => "viewerKey" \in page.settings
      /\ config = [mode |-> config.mode, problems |-> config.problems, version |-> 1]
  <2>. DEFINE m == ResolveMode(Unset, "chain")
  <2>1. config = [mode |-> m, problems |-> Problems(m), version |-> 1]
    BY DEF ScreenInit, ReadDashboardConfig
  <2>2. m \in Modes
    <3>1. CASE page.query # Unset
      <4>1. m = page.query
        BY <3>1 DEF ResolveMode
      <4>. QED BY <1>1, <3>1, <4>1 DEF Modes
    <3>2. CASE page.query = Unset
      <4>1. m = "chain"
        BY <3>2 DEF ResolveMode
      <4>. QED BY <4>1 DEF Modes
    <3>. QED BY <3>1, <3>2
  <2>. HIDE DEF m
  <2>3. Problems(m) \in {{}, {"checklist"}} /\ (m = "chain" /\ Problems(m) = {} => "viewerKey" \in page.settings)
    BY DEF Problems, NeededSettings
  <2>. QED BY <2>1, <2>2, <2>3
<1>3. config \in [mode : Modes, problems : {{}, {"checklist"}, {"agentError"}}, version : Versions]
  BY <1>2 DEF Versions, None
<1>4. poll.data = <<>> /\ poll \in [data : Readings, status : {"idle", "loading", "ready", "error"}, timer : BOOLEAN]
  BY <1>1 DEF Idle, Readings
<1>5. ScreenType
  BY <1>1, <1>3, <1>4 DEF ScreenType, None
<1>6. AgentIsOfItsMode
  BY <1>1, <1>2, <1>4 DEF AgentIsOfItsMode, Modes, None
<1>7. ReadingsAreOrdered
  BY <1>1, <1>4 DEF ReadingsAreOrdered
<1>. QED BY <1>5, <1>6, <1>7 DEF ScreenInv

\* A new configuration: whatever was read for the old one is void.
LEMMA SetModeKeepsInv ==
    ASSUME ScreenInv, NEW mode \in Modes, SetMode(mode)
    PROVE  ScreenInv' /\ ReadingMovesForward
<1>. DEFINE c == ReadDashboardConfig(storedMode', mode, config.version + 1)
            stay == c.mode = "mock" /\ agent # None
<1>0. /\ page' = page /\ spent' = spent /\ config' = c
      /\ storedMode' = IF page.storage THEN mode ELSE storedMode
      /\ agent' = IF c.mode = "mock" THEN c.version ELSE None
      /\ creations' = creations \cup (IF c.mode = "chain" /\ "viewerKey" \in page.settings THEN {c.version} ELSE {})
      /\ requests' = {[r EXCEPT !.current = FALSE, !.ticks = FALSE] : r \in requests}
      /\ poll' = [IF stay THEN poll ELSE Idle EXCEPT !.timer = (c.mode = "mock")]
  BY DEF SetMode, Mount
<1>1. ScreenType /\ storedMode' \in Modes \cup {Unset}
  BY <1>0 DEF ScreenInv, ScreenType
<1>2. config.version \in Versions /\ config.version + 1 \in Versions /\ config.version + 1 > config.version
  BY <1>1 DEF ScreenType, Versions, None
<1>3. /\ c.mode \in Modes /\ c.version = config.version + 1
      /\ c.problems \in {{}, {"checklist"}}
      /\ c.mode = "chain" /\ c.problems = {} => "viewerKey" \in page.settings
      /\ c = [mode |-> c.mode, problems |-> c.problems, version |-> config.version + 1]
  BY <1>1, ConfigurationIsRead
<1>. HIDE DEF c
<1>4. c \in [mode : Modes, problems : {{}, {"checklist"}, {"agentError"}}, version : Versions]
  BY <1>2, <1>3
<1>5. /\ poll'.data = IF stay THEN poll.data ELSE <<>>
      /\ poll' \in [data : Readings, status : {"idle", "loading", "ready", "error"}, timer : BOOLEAN]
  <2>1. CASE stay
    BY <1>0, <1>1, <2>1 DEF ScreenType
  <2>2. CASE ~stay
    <3>1. poll' = [Idle EXCEPT !.timer = (c.mode = "mock")]
      BY <1>0, <2>2
    <3>2. <<>> \in Readings
      BY DEF Readings
    <3>. QED BY <2>2, <3>1, <3>2 DEF Idle
  <2>. QED BY <2>1, <2>2
<1>6. requests' \subseteq ReadRequests /\ \A q \in requests' :
        q.current = FALSE /\ \E r \in requests : q.read = r.read /\ q.value = r.value
  <2>. SUFFICES ASSUME NEW q \in requests'
       PROVE  q \in ReadRequests /\ q.current = FALSE /\ \E r \in requests : q.read = r.read /\ q.value = r.value
    OBVIOUS
  <2>1. PICK r \in requests : q = [r EXCEPT !.current = FALSE, !.ticks = FALSE]
    BY <1>0
  <2>2. r \in ReadRequests
    BY <1>1 DEF ScreenType
  <2>. QED BY <2>1, <2>2 DEF ReadRequests
<1>7. ScreenType'
  BY <1>0, <1>1, <1>2, <1>3, <1>4, <1>5, <1>6 DEF ScreenType, Versions, None
<1>8. AgentIsOfItsMode'
  <2>1. creations \subseteq 1..config.version
    BY DEF ScreenInv, AgentIsOfItsMode
  <2>2. config.version + 1 \notin creations
    BY <1>2, <2>1 DEF Versions
  <2>3. creations' \subseteq 1..(config.version + 1)
    <3>1. creations' \subseteq creations \cup {config.version + 1}
      BY <1>0, <1>3
    <3>2. \A v \in 1..config.version : v \in 1..(config.version + 1)
      BY <1>2 DEF Versions
    <3>3. config.version + 1 \in 1..(config.version + 1)
      BY <1>2 DEF Versions
    <3>. QED BY <2>1, <3>1, <3>2, <3>3
  <2>4. CASE c.mode = "mock"
    <3>1. agent' = config.version + 1 /\ creations' = creations
      BY <1>0, <1>3, <2>4
    <3>. QED BY <1>0, <1>2, <1>3, <2>2, <2>3, <2>4, <3>1 DEF AgentIsOfItsMode, Versions
  <2>5. CASE c.mode = "chain"
    <3>1. agent' = None /\ poll'.data = <<>>
      BY <1>0, <1>5, <2>5
    <3>2. c.problems = {} => c.version \in creations'
      BY <1>0, <1>3, <2>5
    <3>. QED BY <1>0, <1>3, <2>3, <2>5, <3>1, <3>2 DEF AgentIsOfItsMode
  <2>. QED BY <1>3, <2>4, <2>5 DEF Modes
<1>9. ReadingsAreOrdered'
  <2>1. /\ \A r \in requests : r.read = TRUE => r.value <= spent
        /\ poll.data # <<>> => poll.data[2] <= spent
    BY DEF ScreenInv, ReadingsAreOrdered
  <2>. QED BY <1>0, <1>5, <1>6, <2>1 DEF ReadingsAreOrdered
<1>10. ReadingMovesForward
  <2>1. poll'.data # <<>> => poll'.data = poll.data
    BY <1>5
  <2>2. poll.data # <<>> => poll.data[2] \in Nat
    BY <1>1 DEF ScreenType, Readings
  <2>. QED BY <2>1, <2>2 DEF ReadingMovesForward
<1>. QED BY <1>7, <1>8, <1>9, <1>10 DEF ScreenInv

\* An agent arrives, or cannot be created; one that nobody waits for any more
\* is dropped.
LEMMA CreatedKeepsInv ==
    ASSUME ScreenInv, NEW v \in creations, Created(v) \/ CreateFails(v)
    PROVE  ScreenInv' /\ ReadingMovesForward
<1>0. /\ UNCHANGED <<page, storedMode, requests, spent>> /\ creations' = creations \ {v}
      /\ \/ v = config.version /\ agent' = v /\ config' = config
            /\ poll' = [poll EXCEPT !.timer = (config.problems = {})]
         \/ v # config.version /\ UNCHANGED <<agent, poll, config>>
         \/ v = config.version /\ config' = [config EXCEPT !.problems = {"agentError"}]
            /\ UNCHANGED <<agent, poll>>
  BY DEF Created, CreateFails
<1>1. ScreenType /\ AgentIsOfItsMode /\ ReadingsAreOrdered
  BY DEF ScreenInv
<1>2. /\ config.version \in Versions /\ v \in Nat /\ poll' \in [data : Readings,
          status : {"idle", "loading", "ready", "error"}, timer : BOOLEAN] /\ poll'.data = poll.data
  <2>1. config.version \in Versions /\ v \in Nat
    BY <1>1 DEF ScreenType, AgentIsOfItsMode, Versions
  <2>. QED BY <1>0, <1>1, <2>1 DEF ScreenType
<1>3. config' \in [mode : Modes, problems : {{}, {"checklist"}, {"agentError"}}, version : Versions]
      /\ config'.mode = config.mode /\ config'.version = config.version
      /\ (config' = config \/ config'.problems # {})
  BY <1>0, <1>1 DEF ScreenType
<1>4. ScreenType'
  BY <1>0, <1>1, <1>2, <1>3 DEF ScreenType
<1>5. poll.data # <<>> => poll.data[1] \in Versions /\ poll.data[2] \in Nat
  BY <1>1 DEF ScreenType, Readings
<1>6. CASE v = config.version
  <2>1. agent = None /\ config.mode = "chain" /\ poll.data = <<>>
    BY <1>1, <1>5, <1>6 DEF AgentIsOfItsMode, Versions
  <2>2. \A r \in requests : r.current # TRUE
    BY <1>1, <2>1 DEF ReadingsAreOrdered
  <2>3. AgentIsOfItsMode'
    <3>1. creations' \subseteq 1..config'.version /\ config'.version \notin creations'
      BY <1>0, <1>1, <1>3, <1>6 DEF AgentIsOfItsMode
    <3>2. agent' # None => agent' = config'.version
      BY <1>0, <1>3, <1>6, <2>1
    <3>3. config'.problems = {} => agent' # None
      <4>1. CASE agent' = v
        BY <1>2, <1>6, <4>1 DEF Versions
      <4>2. CASE config' = [config EXCEPT !.problems = {"agentError"}]
        BY <1>1, <4>2 DEF ScreenType
      <4>. QED BY <1>0, <1>6, <4>1, <4>2
    <3>. QED BY <1>2, <2>1, <3>1, <3>2, <3>3 DEF AgentIsOfItsMode
  <2>4. ReadingsAreOrdered'
    BY <1>0, <1>1, <1>2, <2>1, <2>2 DEF ReadingsAreOrdered
  <2>. QED BY <1>2, <1>4, <2>1, <2>3, <2>4 DEF ScreenInv, ReadingMovesForward
<1>7. CASE v # config.version
  <2>1. UNCHANGED <<agent, poll, config>>
    BY <1>0, <1>7
  <2>2. AgentIsOfItsMode'
    BY <1>0, <1>1, <1>7, <2>1 DEF AgentIsOfItsMode
  <2>3. ReadingsAreOrdered'
    BY <1>0, <1>1, <2>1 DEF ReadingsAreOrdered
  <2>. QED BY <1>4, <1>5, <2>1, <2>2, <2>3 DEF ScreenInv, ReadingMovesForward
<1>. QED BY <1>6, <1>7

\* A request of the agent that is shown voids the ones before it.
LEMMA IssueKeepsInv ==
    ASSUME ScreenInv, Tick \/ Refetch
    PROVE  ScreenInv' /\ ReadingMovesForward
<1>. DEFINE Fresh(t) == [agent |-> agent, value |-> None, read |-> FALSE, current |-> TRUE, ticks |-> t]
<1>0. PICK t \in BOOLEAN :
        /\ UNCHANGED <<page, storedMode, config, agent, creations, spent>>
        /\ agent # None
        /\ requests' = {[r EXCEPT !.current = FALSE] : r \in requests} \cup {Fresh(t)}
        /\ poll'.data = poll.data
        /\ poll' \in [data : Readings, status : {"idle", "loading", "ready", "error"}, timer : BOOLEAN]
  <2>. poll \in [data : Readings, status : {"idle", "loading", "ready", "error"}, timer : BOOLEAN]
    BY DEF ScreenInv, ScreenType
  <2>1. CASE Tick
    BY <2>1 DEF Tick, Issue, Panels
  <2>2. CASE Refetch
    BY <2>2 DEF Refetch, Issue, Panels
  <2>. QED BY <2>1, <2>2
<1>1. ScreenType /\ AgentIsOfItsMode /\ ReadingsAreOrdered
  BY DEF ScreenInv
<1>. DEFINE f == Fresh(t)
<1>2. f \in ReadRequests /\ f.agent = agent /\ f.read = FALSE /\ f.current = TRUE
  BY <1>0, <1>1 DEF ScreenType, ReadRequests, Versions, None
<1>. HIDE DEF f
<1>3. \A q \in requests' : q \in ReadRequests /\ (q = f \/ (q.current = FALSE
          /\ \E r \in requests : q.read = r.read /\ q.value = r.value))
  <2>. SUFFICES ASSUME NEW q \in requests', q # f
       PROVE  q \in ReadRequests /\ q.current = FALSE /\ \E r \in requests : q.read = r.read /\ q.value = r.value
    BY <1>2
  <2>1. PICK r \in requests : q = [r EXCEPT !.current = FALSE]
    BY <1>0 DEF f
  <2>2. r \in ReadRequests
    BY <1>1 DEF ScreenType
  <2>. QED BY <2>1, <2>2 DEF ReadRequests
<1>4. ScreenType'
  BY <1>0, <1>1, <1>3 DEF ScreenType
<1>5. AgentIsOfItsMode'
  BY <1>0, <1>1 DEF AgentIsOfItsMode
<1>6. ReadingsAreOrdered'
  BY <1>0, <1>1, <1>2, <1>3 DEF ReadingsAreOrdered
<1>7. ReadingMovesForward
  <2>1. poll.data # <<>> => poll.data[2] \in Nat
    BY <1>1 DEF ScreenType, Readings
  <2>. QED BY <1>0, <2>1 DEF ReadingMovesForward
<1>. QED BY <1>4, <1>5, <1>6, <1>7 DEF ScreenInv

\* What is read is what the ledger says, which is no less than what is shown.
LEMMA ReadKeepsInv ==
    ASSUME ScreenInv, NEW r \in requests, Read(r)
    PROVE  ScreenInv' /\ ReadingMovesForward
<1>. DEFINE f == [r EXCEPT !.read = TRUE, !.value = spent]
<1>0. /\ requests' = (requests \ {r}) \cup {f}
      /\ UNCHANGED <<page, storedMode, config, agent, creations, poll, spent>>
  BY DEF Read
<1>1. ScreenType /\ AgentIsOfItsMode /\ ReadingsAreOrdered
  BY DEF ScreenInv
<1>2. spent \in Nat /\ r \in ReadRequests /\ requests \subseteq ReadRequests
  BY <1>1 DEF ScreenType
<1>3. f \in ReadRequests /\ f.agent = r.agent /\ f.current = r.current /\ f.value = spent
  BY <1>2 DEF ReadRequests
<1>. HIDE DEF f
<1>4. ScreenType'
  BY <1>0, <1>1, <1>2, <1>3 DEF ScreenType
<1>5. AgentIsOfItsMode'
  BY <1>0, <1>1 DEF AgentIsOfItsMode
<1>6. ReadingsAreOrdered'
  BY <1>0, <1>1, <1>2, <1>3 DEF ReadingsAreOrdered
<1>7. ReadingMovesForward
  <2>1. poll.data # <<>> => poll.data[2] \in Nat
    BY <1>1 DEF ScreenType, Readings
  <2>. QED BY <1>0, <2>1 DEF ReadingMovesForward
<1>. QED BY <1>4, <1>5, <1>6, <1>7 DEF ScreenInv

\* An answer is shown if its request is the current one, and then none is.
LEMMA AnswerKeepsInv ==
    ASSUME ScreenInv, NEW r \in requests, Respond(r) \/ ReadFails(r)
    PROVE  ScreenInv' /\ ReadingMovesForward
<1>0. /\ requests' = requests \ {r}
      /\ UNCHANGED <<page, storedMode, config, agent, creations, spent>>
  BY DEF Respond, ReadFails, Conclude
<1>1. ScreenType /\ AgentIsOfItsMode /\ ReadingsAreOrdered
  BY DEF ScreenInv
<1>2. /\ r \in ReadRequests /\ r.ticks \in BOOLEAN
      /\ poll \in [data : Readings, status : {"idle", "loading", "ready", "error"}, timer : BOOLEAN]
  BY <1>1 DEF ScreenType, ReadRequests
<1>3. /\ poll' \in [data : Readings, status : {"idle", "loading", "ready", "error"}, timer : BOOLEAN]
      /\ \/ poll'.data = poll.data
         \/ poll'.data = <<r.agent, r.value>> /\ r.current = TRUE /\ r.read = TRUE
  <2>. DEFINE shown == [poll EXCEPT !.data = <<r.agent, r.value>>, !.status = "ready"]
              failed == [poll EXCEPT !.status = "error"]
              Next(next) == [IF Applies(r) THEN next ELSE poll EXCEPT !.timer = @ \/ r.ticks]
  <2>1. /\ shown \in [data : Readings, status : {"idle", "loading", "ready", "error"}, timer : BOOLEAN]
        /\ shown.data = <<r.agent, r.value>>
    BY <1>2 DEF Readings, ReadRequests
  <2>2. /\ failed \in [data : Readings, status : {"idle", "loading", "ready", "error"}, timer : BOOLEAN]
        /\ failed.data = poll.data
    BY <1>2
  <2>. HIDE DEF shown, failed
  <2>3. ASSUME NEW next \in [data : Readings, status : {"idle", "loading", "ready", "error"}, timer : BOOLEAN]
        PROVE  /\ Next(next) \in [data : Readings, status : {"idle", "loading", "ready", "error"}, timer : BOOLEAN]
               /\ \/ Next(next).data = next.data /\ r.current = TRUE
                  \/ Next(next).data = poll.data
    <3>1. CASE r.current = TRUE
      BY <1>2, <3>1 DEF Applies
    <3>2. CASE r.current = FALSE
      BY <1>2, <3>2 DEF Applies
    <3>. QED BY <1>2, <3>1, <3>2 DEF ReadRequests
  <2>4. CASE Respond(r)
    <3>1. poll' = Next(shown) /\ r.read = TRUE
      BY <1>2, <2>4 DEF Respond, Conclude, shown, ReadRequests
    <3>. HIDE DEF Next
    <3>. QED BY <2>1, <2>3, <3>1
  <2>5. CASE ReadFails(r)
    <3>1. poll' = Next(failed)
      BY <2>5 DEF ReadFails, Conclude, failed
    <3>. HIDE DEF Next
    <3>. QED BY <2>2, <2>3, <3>1
  <2>. QED BY <2>4, <2>5
<1>4. poll.data # <<>> => poll.data[2] \in Nat
  BY <1>2 DEF Readings
<1>5. ScreenType'
  BY <1>0, <1>1, <1>3 DEF ScreenType
<1>6. CASE poll'.data = poll.data
  <2>1. AgentIsOfItsMode'
    BY <1>0, <1>1, <1>6 DEF AgentIsOfItsMode
  <2>2. ReadingsAreOrdered'
    BY <1>0, <1>1, <1>6 DEF ReadingsAreOrdered
  <2>. QED BY <1>4, <1>5, <1>6, <2>1, <2>2 DEF ScreenInv, ReadingMovesForward
<1>7. CASE poll'.data = <<r.agent, r.value>> /\ r.current = TRUE /\ r.read = TRUE
  <2>1. r.agent = agent /\ r.value <= spent /\ poll'.data[1] = r.agent /\ poll'.data[2] = r.value
    BY <1>1, <1>7 DEF ReadingsAreOrdered
  <2>2. AgentIsOfItsMode'
    BY <1>0, <1>1, <2>1 DEF AgentIsOfItsMode
  <2>3. \A q \in requests' : q.current # TRUE
    BY <1>0, <1>1, <1>7 DEF ReadingsAreOrdered
  <2>4. ReadingsAreOrdered'
    BY <1>0, <1>1, <2>1, <2>3 DEF ReadingsAreOrdered
  <2>5. ReadingMovesForward
    BY <1>1, <1>7, <2>1 DEF ReadingsAreOrdered, ReadingMovesForward
  <2>. QED BY <1>5, <2>2, <2>4, <2>5 DEF ScreenInv
<1>. QED BY <1>3, <1>6, <1>7

\* A payment lands on the ledger, or its settlement voids what was asked.
LEMMA PaymentKeepsInv ==
    ASSUME ScreenInv, Pay \/ \E p \in payments : Land(p) \/ Settle(p)
    PROVE  ScreenInv' /\ ReadingMovesForward
<1>0. /\ UNCHANGED <<page, storedMode, config, agent, creations>>
      /\ spent' \in {spent, spent + 1}
      /\ \/ UNCHANGED <<requests, poll>>
         \/ /\ requests' = {[r EXCEPT !.current = FALSE, !.ticks = FALSE] : r \in requests}
            /\ poll' = [poll EXCEPT !.timer = TRUE]
  BY DEF Pay, Land, Settle
<1>1. ScreenType /\ AgentIsOfItsMode /\ ReadingsAreOrdered
  BY DEF ScreenInv
<1>2. /\ spent \in Nat /\ spent' \in Nat /\ spent' >= spent
      /\ poll' \in [data : Readings, status : {"idle", "loading", "ready", "error"}, timer : BOOLEAN]
      /\ poll'.data = poll.data
  <2>1. spent \in Nat
    BY <1>1 DEF ScreenType
  <2>2. spent' \in Nat /\ spent' >= spent
    <3>1. spent' = spent \/ spent' = spent + 1
      BY <1>0
    <3>. QED BY <2>1, <3>1
  <2>3. poll \in [data : Readings, status : {"idle", "loading", "ready", "error"}, timer : BOOLEAN]
    BY <1>1 DEF ScreenType
  <2>4. CASE UNCHANGED <<requests, poll>>
    BY <2>1, <2>2, <2>3, <2>4
  <2>5. CASE poll' = [poll EXCEPT !.timer = TRUE]
    BY <2>1, <2>2, <2>3, <2>5
  <2>. QED BY <1>0, <2>4, <2>5
<1>3. \A q \in requests' : q \in ReadRequests
        /\ (q \in requests \/ q.current = FALSE) /\ \E r \in requests : q.read = r.read /\ q.value = r.value
  <2>1. CASE UNCHANGED <<requests, poll>>
    BY <1>1, <2>1 DEF ScreenType
  <2>2. CASE requests' = {[r EXCEPT !.current = FALSE, !.ticks = FALSE] : r \in requests}
    <3>. SUFFICES ASSUME NEW q \in requests'
         PROVE  q \in ReadRequests /\ q.current = FALSE /\ \E r \in requests : q.read = r.read /\ q.value = r.value
      OBVIOUS
    <3>1. PICK r \in requests : q = [r EXCEPT !.current = FALSE, !.ticks = FALSE]
      BY <2>2
    <3>2. r \in ReadRequests
      BY <1>1 DEF ScreenType
    <3>. QED BY <3>1, <3>2 DEF ReadRequests
  <2>. QED BY <1>0, <2>1, <2>2
<1>4. poll.data # <<>> => poll.data[2] \in Nat
  BY <1>1 DEF ScreenType, Readings
<1>5. ScreenType'
  BY <1>0, <1>1, <1>2, <1>3 DEF ScreenType
<1>6. AgentIsOfItsMode'
  BY <1>0, <1>1, <1>2 DEF AgentIsOfItsMode
<1>7. ReadingsAreOrdered'
  <2>1. \A q \in requests' : q.read = TRUE => q.value <= spent'
    <3>. SUFFICES ASSUME NEW q \in requests', q.read = TRUE PROVE q.value <= spent'
      OBVIOUS
    <3>1. PICK r \in requests : q.read = r.read /\ q.value = r.value
      BY <1>3
    <3>2. r.value <= spent /\ r.value \in Nat
      BY <1>1, <3>1 DEF ReadingsAreOrdered, ScreenType, ReadRequests
    <3>. QED BY <1>2, <3>1, <3>2
  <2>2. poll'.data # <<>> => poll'.data[2] <= spent'
    BY <1>1, <1>2, <1>4 DEF ReadingsAreOrdered
  <2>3. \A q \in requests' : q.current = TRUE => q \in requests
    BY <1>3
  <2>. QED BY <1>0, <1>1, <1>2, <2>1, <2>2, <2>3 DEF ReadingsAreOrdered
<1>8. ReadingMovesForward
  BY <1>2, <1>4 DEF ReadingMovesForward
<1>. QED BY <1>5, <1>6, <1>7, <1>8 DEF ScreenInv

LEMMA ScreenNextInv == ScreenInv /\ [ScreenNext]_screenVars => ScreenInv' /\ [ReadingMovesForward]_screenVars
<1>. SUFFICES ASSUME ScreenInv, [ScreenNext]_screenVars PROVE ScreenInv' /\ [ReadingMovesForward]_screenVars
  OBVIOUS
<1>1. ASSUME NEW mode \in Modes, SetMode(mode) PROVE ScreenInv' /\ ReadingMovesForward
  BY <1>1, SetModeKeepsInv
<1>2. ASSUME NEW v \in creations, Created(v) \/ CreateFails(v) PROVE ScreenInv' /\ ReadingMovesForward
  BY <1>2, CreatedKeepsInv
<1>3. ASSUME Tick \/ Refetch PROVE ScreenInv' /\ ReadingMovesForward
  BY <1>3, IssueKeepsInv
<1>4. ASSUME NEW r \in requests, Read(r) PROVE ScreenInv' /\ ReadingMovesForward
  BY <1>4, ReadKeepsInv
<1>5. ASSUME NEW r \in requests, Respond(r) \/ ReadFails(r) PROVE ScreenInv' /\ ReadingMovesForward
  BY <1>5, AnswerKeepsInv
<1>6. ASSUME Pay \/ \E p \in payments : Land(p) \/ Settle(p) PROVE ScreenInv' /\ ReadingMovesForward
  BY <1>6, PaymentKeepsInv
<1>7. CASE UNCHANGED screenVars
  BY <1>7 DEF screenVars, ScreenInv, ScreenType, AgentIsOfItsMode, ReadingsAreOrdered
<1>. QED BY <1>1, <1>2, <1>3, <1>4, <1>5, <1>6, <1>7 DEF ScreenNext

\* The agent that is polled is the configuration's, the numbers shown for the
\* chain are that agent's, and "Connecting" is shown only while an agent is
\* being created, in whatever order modes are switched, agents arrive and
\* fail, and reads are answered (DashboardProvider.tsx, config.ts).
THEOREM ScreensAreOfTheirMode == ScreenSpec => [](ScreenIsOfItsMode /\ ConnectingMeansConnecting)
<1>1. ScreenInv => ScreenIsOfItsMode /\ ConnectingMeansConnecting
  <2>. SUFFICES ASSUME ScreenInv PROVE ScreenIsOfItsMode /\ ConnectingMeansConnecting
    OBVIOUS
  <2>1. ScreenIsOfItsMode
    BY DEF ScreenInv, AgentIsOfItsMode, ScreenIsOfItsMode
  <2>2. Boundary = "connecting" => config.problems = {} /\ agent = None
    BY DEF Boundary
  <2>. QED BY <2>1, <2>2 DEF ScreenInv, AgentIsOfItsMode, ConnectingMeansConnecting
<1>2. ScreenInv /\ [ScreenNext]_screenVars => ScreenInv'
  BY ScreenNextInv
<1>. QED BY <1>1, <1>2, ScreenInitInv, PTL DEF ScreenSpec

\* Whatever is answered out of order, overtaken by a refetch or voided by a
\* payment, the spending shown for an agent never falls back to an older
\* reading (usePolling.ts).
THEOREM ReadingsMoveForward == ScreenSpec => [][ReadingMovesForward]_screenVars
<1>1. ScreenInv /\ [ScreenNext]_screenVars => ScreenInv'
  BY ScreenNextInv
<1>2. ScreenInv /\ [ScreenNext]_screenVars => [ReadingMovesForward]_screenVars
  BY ScreenNextInv
<1>. QED BY <1>1, <1>2, ScreenInitInv, PTL DEF ScreenSpec

-----------------------------------------------------------------------------
(* The dashboard's alerts.                                                 *)

UrgentKinds == {"rl", "killed"}
Clicked == {"rate_limit_hit", "agent_killed"}

\* The alerts of what an operator injected, each of one event.
Urgent(history) == RateLimitHits(history) \cup AgentKilled(history)

UrgentPostedOnce ==
    \A p, q \in posts : p.id = q.id /\ p.id.kind \in UrgentKinds => p.round = q.round

\* What was injected is of the kinds no seed has; its alerts are remembered
\* while the page is open; and the chain's history has no tail.
AlertsInv ==
    /\ UrgentPostedOnce
    /\ \A e \in events : e.from = "operator" => e.kind \in Clicked
    /\ mounted => Urgent(events) \subseteq known
    /\ mounted /\ ~demo => \A e \in events : e.from # "tail"

LEMMA UrgentAre ==
    ASSUME NEW history, NEW limits, NEW now
    PROVE  /\ Urgent(history) \subseteq RunAllHeuristics(history, limits, now)
           /\ \A a \in RunAllHeuristics(history, limits, now) : a.kind \in UrgentKinds => a \in Urgent(history)
           /\ \A a \in Urgent(history) : \E e \in history :
                /\ e.kind \in Clicked
                /\ a = Alert(IF e.kind = "rate_limit_hit" THEN "rl" ELSE "killed",
                             IF e.kind = "rate_limit_hit" THEN "warning" ELSE "critical", e.ts)
<1>1. \A a \in Velocity(history, limits, now) : a.kind = "velocity"
  <2>. SUFFICES ASSUME NEW a \in Velocity(history, limits, now) PROVE a.kind = "velocity"
    OBVIOUS
  <2>1. \E severity : a = Alert("velocity", severity, now)
    BY Zenon DEF Velocity
  <2>. QED BY <2>1 DEF Alert
<1>2. \A a \in NearLimit(history, limits, now) : a.kind = "near"
  <2>1. NearLimit(history, limits, now) \subseteq {Alert("near", "warning", now)}
    BY DEF NearLimit
  <2>. QED BY <2>1 DEF Alert
<1>3. ASSUME NEW a \in Urgent(history)
      PROVE  \E e \in history :
                /\ e.kind \in Clicked
                /\ a = Alert(IF e.kind = "rate_limit_hit" THEN "rl" ELSE "killed",
                             IF e.kind = "rate_limit_hit" THEN "warning" ELSE "critical", e.ts)
  <2>1. CASE a \in RateLimitHits(history)
    <3>1. PICK e \in history : e.kind = "rate_limit_hit" /\ a = Alert("rl", "warning", e.ts)
      BY <2>1 DEF RateLimitHits
    <3>. QED BY <3>1 DEF Clicked
  <2>2. CASE a \in AgentKilled(history)
    <3>1. PICK e \in history : e.kind = "agent_killed" /\ a = Alert("killed", "critical", e.ts)
      BY <2>2 DEF AgentKilled
    <3>. QED BY <3>1 DEF Clicked
  <2>. QED BY <1>3, <2>1, <2>2 DEF Urgent
<1>4. RunAllHeuristics(history, limits, now)
        = Velocity(history, limits, now) \cup NearLimit(history, limits, now) \cup Urgent(history)
  BY DEF RunAllHeuristics, Urgent
<1>. QED BY <1>1, <1>2, <1>3, <1>4 DEF UrgentKinds

\* Events that are kept keep their alerts, new ones of other kinds add none.
LEMMA UrgentGrow ==
    ASSUME NEW history, NEW later, \A e \in later \ history : e.kind \notin Clicked
    PROVE  Urgent(later) \subseteq Urgent(history)
<1>1. \A e \in later : e.kind = "rate_limit_hit" \/ e.kind = "agent_killed" => e \in history
  BY DEF Clicked
<1>. QED BY <1>1 DEF Urgent, RateLimitHits, AgentKilled

\* One run of the heuristics posts nothing urgent again, if what is urgent
\* and not remembered was not posted.
LEMMA EvaluateKeepsOnce ==
    ASSUME AlertsInv, NEW history, NEW set, NEW before, Evaluate(history, set, before),
           \A a \in Urgent(history) \ before : \A p \in posts : p.id # a
    PROVE  UrgentPostedOnce' /\ Urgent(history) \subseteq known'
<1>. DEFINE all == RunAllHeuristics(history, set, clock)
<1>1. /\ known' = all
      /\ posts' = posts \cup (IF set.enabled THEN {[id |-> a, round |-> rounds'] : a \in all \ before} ELSE {})
  BY DEF Evaluate
<1>2. /\ Urgent(history) \subseteq all
      /\ \A a \in all : a.kind \in UrgentKinds => a \in Urgent(history)
  BY UrgentAre
<1>. HIDE DEF all
<1>3. \A p \in posts' \ posts : p.id \in all \ before /\ p.round = rounds'
  BY <1>1
<1>4. ASSUME NEW p \in posts', NEW q \in posts', p.id = q.id, p.id.kind \in UrgentKinds
      PROVE  p.round = q.round
  <2>1. CASE p \in posts /\ q \in posts
    BY <1>4, <2>1 DEF AlertsInv, UrgentPostedOnce
  <2>2. CASE p \notin posts /\ q \notin posts
    BY <1>3, <1>4, <2>2
  <2>3. CASE p \in posts /\ q \notin posts
    BY <1>2, <1>3, <1>4, <2>3
  <2>4. CASE p \notin posts /\ q \in posts
    BY <1>2, <1>3, <1>4, <2>4
  <2>. QED BY <2>1, <2>2, <2>3, <2>4
<1>. QED BY <1>1, <1>2, <1>4 DEF UrgentPostedOnce

LEMMA SeedsAre ==
    ASSUME NEW rowsNow, NEW now
    PROVE  \A e \in SeedAll(rowsNow, now) : e.from = "seed" /\ e.kind \notin Clicked
<1>1. ASSUME NEW row, NEW e \in Seed(row, now) PROVE e.from = "seed" /\ e.kind \in {"payment", "near_limit"}
  BY <1>1 DEF Seed, Event
<1>. QED BY <1>1 DEF SeedAll, Clicked

LEMMA AlertsStepInv ==
    ASSUME AlertsInv, AlertsNext
    PROVE  AlertsInv' /\ InjectedIsKept
<1>1. CASE Open
  <2>1. /\ ~mounted /\ events' = SeedAll(roster, clock) /\ demo' = demo
        /\ Evaluate(events', settings, {})
    BY <1>1 DEF Open
  <2>2. \A e \in events' : e.from = "seed" /\ e.kind \notin Clicked
    BY <2>1, SeedsAre
  <2>3. Urgent(events') = {}
    BY <2>2, UrgentAre
  <2>4. UrgentPostedOnce' /\ Urgent(events') \subseteq known'
    BY <2>1, <2>3, EvaluateKeepsOnce
  <2>. QED BY <2>1, <2>2, <2>4 DEF AlertsInv, InjectedIsKept
<1>2. CASE Leave
  BY <1>2 DEF Leave, Gone, AlertsInv, UrgentPostedOnce, InjectedIsKept
<1>3. CASE SwitchToDemo
  BY <1>3 DEF SwitchToDemo, AlertsInv, UrgentPostedOnce, InjectedIsKept
<1>4. CASE LiveTail
  <2>1. PICK amount \in {0, 3} : Happens(Event("payment", clock, amount, "tail"))
    BY <1>4 DEF LiveTail
  <2>. DEFINE e == Event("payment", clock, amount, "tail")
  <2>2. e.kind = "payment" /\ e.from = "tail"
    BY DEF Event
  <2>. HIDE DEF e
  <2>3. /\ mounted /\ mounted' = mounted /\ demo /\ demo' = demo
        /\ events' = events \cup {e} /\ Evaluate(events', settings, known)
    BY <1>4, <2>1 DEF LiveTail, TailRuns, Happens, e
  <2>4. Urgent(events') \subseteq known
    BY <2>2, <2>3, UrgentGrow DEF AlertsInv, Clicked
  <2>5. UrgentPostedOnce' /\ Urgent(events') \subseteq known'
    BY <2>3, <2>4, EvaluateKeepsOnce
  <2>. QED BY <2>2, <2>3, <2>5 DEF AlertsInv, InjectedIsKept
<1>5. CASE Configure
  <2>1. UNCHANGED <<mounted, demo, events>> /\ mounted /\ Evaluate(events, settings', known)
    BY <1>5 DEF Configure
  <2>2. UrgentPostedOnce' /\ Urgent(events) \subseteq known'
    BY <2>1, EvaluateKeepsOnce DEF AlertsInv
  <2>. QED BY <2>1, <2>2 DEF AlertsInv, InjectedIsKept
<1>6. CASE Dismiss
  BY <1>6 DEF Dismiss, AlertsInv, UrgentPostedOnce, InjectedIsKept
<1>7. CASE HourPasses
  BY <1>7 DEF HourPasses, AlertsInv, UrgentPostedOnce, InjectedIsKept
<1>8. ASSUME NEW row \in Row, RosterChanges(row) PROVE AlertsInv' /\ InjectedIsKept
  <2>. DEFINE rebuilt == SeedAll({row}, clock)
  <2>1. mounted' = mounted /\ demo' = demo
    BY <1>8 DEF RosterChanges
  <2>2. CASE UNCHANGED <<events, alerts, known, posts, rounds>>
    BY <2>1, <2>2 DEF AlertsInv, UrgentPostedOnce, InjectedIsKept
  <2>3. CASE mounted /\ events' = rebuilt \cup Kept(rebuilt) /\ Evaluate(events', settings, known)
    <3>1. \A e \in rebuilt : e.from = "seed" /\ e.kind \notin Clicked
      BY SeedsAre
    <3>. HIDE DEF rebuilt
    <3>2. \A e \in events' : e \in rebuilt \/ e \in events
      BY <2>3 DEF Kept
    <3>3. Urgent(events') \subseteq known
      BY <2>3, <3>1, <3>2, UrgentGrow DEF AlertsInv
    <3>4. UrgentPostedOnce' /\ Urgent(events') \subseteq known'
      BY <2>3, <3>3, EvaluateKeepsOnce
    <3>5. \A e \in events : e.from = "operator" => e \in events'
      BY <2>3, <3>1 DEF AlertsInv, Kept
    <3>. QED BY <2>1, <3>1, <3>2, <3>4, <3>5 DEF AlertsInv, InjectedIsKept
  <2>. QED BY <1>8, <2>2, <2>3 DEF RosterChanges
<1>9. ASSUME NEW kind \in Clicked, Inject(kind) PROVE AlertsInv' /\ InjectedIsKept
  <2>. DEFINE e == Event(kind, clock, 0, "operator")
  <2>1. e.kind = kind /\ e.from = "operator" /\ e.ts = clock
    BY DEF Event
  <2>. HIDE DEF e
  <2>2. /\ mounted /\ mounted' = mounted /\ demo' = demo
        /\ events' = events \cup {e} /\ Evaluate(events', settings, known)
        /\ ~\E p \in posts : p.id.kind \in UrgentKinds /\ p.id.ts = clock
    BY <1>9 DEF Inject, Happens, e, UrgentKinds
  <2>3. ASSUME NEW a \in Urgent(events') \ known PROVE a.kind \in UrgentKinds /\ a.ts = clock
    <3>1. PICK f \in events' :
            /\ f.kind \in Clicked
            /\ a = Alert(IF f.kind = "rate_limit_hit" THEN "rl" ELSE "killed",
                         IF f.kind = "rate_limit_hit" THEN "warning" ELSE "critical", f.ts)
      BY <2>3, UrgentAre
    <3>2. f \notin events
      <4>1. ASSUME f \in events PROVE a \in Urgent(events)
        BY <3>1, <4>1 DEF Urgent, RateLimitHits, AgentKilled, Clicked
      <4>. QED BY <2>2, <2>3, <4>1 DEF AlertsInv
    <3>. QED BY <2>1, <2>2, <3>1, <3>2 DEF Alert, UrgentKinds
  <2>4. UrgentPostedOnce' /\ Urgent(events') \subseteq known'
    BY <2>2, <2>3, EvaluateKeepsOnce
  <2>. QED BY <2>1, <2>2, <2>4 DEF AlertsInv, InjectedIsKept
<1>. QED BY <1>1, <1>2, <1>3, <1>4, <1>5, <1>6, <1>7, <1>8, <1>9 DEF AlertsNext, Clicked

LEMMA AlertsNextInv == AlertsInv /\ [AlertsNext]_alertVars => AlertsInv' /\ [InjectedIsKept]_alertVars
<1>. SUFFICES ASSUME AlertsInv, [AlertsNext]_alertVars PROVE AlertsInv' /\ [InjectedIsKept]_alertVars
  OBVIOUS
<1>1. CASE AlertsNext
  BY <1>1, AlertsStepInv
<1>2. CASE UNCHANGED alertVars
  BY <1>2 DEF alertVars, AlertsInv, UrgentPostedOnce
<1>. QED BY <1>1, <1>2

LEMMA AlertsInitInv == AlertsInit => AlertsInv
BY DEF AlertsInit, AlertsInv, UrgentPostedOnce

\* What an operator or the chain reported once is posted to the webhook once,
\* whatever is seeded again, configured or switched on, for any history and
\* thresholds; and the chain's history has nothing of the demo's live tail
\* (useAlertStore.ts, webhookService.ts).
THEOREM AlertsArePostedOnce == AlertsSpec => []PostedOnce
<1>1. AlertsInv => PostedOnce
  BY DEF AlertsInv, UrgentPostedOnce, UrgentKinds, PostedOnce
<1>2. AlertsInv /\ [AlertsNext]_alertVars => AlertsInv'
  BY AlertsNextInv
<1>. QED BY <1>1, <1>2, AlertsInitInv, PTL DEF AlertsSpec

\* A new seed keeps what the operator injected, while the page is open
\* (useAlertStore.ts, "does not silently drop events").
THEOREM InjectedEventsAreKept == AlertsSpec => [][InjectedIsKept]_alertVars
<1>1. AlertsInv /\ [AlertsNext]_alertVars => AlertsInv'
  BY AlertsNextInv
<1>2. AlertsInv /\ [AlertsNext]_alertVars => [InjectedIsKept]_alertVars
  BY AlertsNextInv
<1>. QED BY <1>1, <1>2, AlertsInitInv, PTL DEF AlertsSpec

-----------------------------------------------------------------------------
(* The reports page.                                                       *)

Previews == {"statement", "reconciled"}
PeriodOf(input) == [from |-> input.from, through |-> input.through]

\* What a request for a statement may be answered with.
IsStatementOf(reply, input) ==
    /\ DOMAIN reply = {"of", "subject", "period", "reconciled"}
    /\ reply.subject = input.subject
    /\ reply.period = PeriodOf(input)
    /\ \A reconciled \in reply.reconciled : reconciled = reply.period

\* The shapes of the page, its requests and its server.
DeskShape ==
    /\ DOMAIN desk = {"busy", "scheduleBusy", "statement", "input", "schedules", "dead", "error"}
    /\ desk.busy \in BOOLEAN
    /\ DOMAIN server = {"configured", "schedules", "delivery", "retries"} /\ server.retries \in Nat
    /\ \A r \in exchanges : DOMAIN r = {"id", "op", "input", "at", "reply"}

\* At most one preview is under way, the one the page waits for, and it is
\* answered with what was asked for, or refused.
PreviewIsAsAsked ==
    /\ \A r, q \in exchanges : r.op \in Previews /\ q.op \in Previews => r = q
    /\ \A r \in exchanges : r.op \in Previews =>
         /\ desk.busy = TRUE /\ r.input = desk.input
         /\ r.at = "served" => r.reply = Refused(400) \/ IsStatementOf(r.reply, r.input)
    /\ desk.busy = FALSE /\ desk.statement # Nothing => IsStatementOf(desk.statement, desk.input)

DeskInv == DeskShape /\ PreviewIsAsAsked

LEMMA DeskInitInv == DeskInit => DeskInv
<1>. SUFFICES ASSUME DeskInit PROVE DeskInv
  OBVIOUS
<1>1. /\ exchanges = {} /\ desk.busy = FALSE /\ desk.statement = Nothing
      /\ DOMAIN desk = {"busy", "scheduleBusy", "statement", "input", "schedules", "dead", "error"}
  BY DEF DeskInit
<1>2. DOMAIN server = {"configured", "schedules", "delivery", "retries"} /\ server.retries \in Nat
  BY DEF DeskInit
<1>. QED BY <1>1, <1>2 DEF DeskInv, DeskShape, PreviewIsAsAsked

\* The subject and the period of a reconciled statement are those asked for,
\* wherever the period stands, and what was reconciled is the period.
LEMMA RepliesAreOfTheirInput ==
    ASSUME NEW input
    PROVE  /\ IsStatementOf(ServeStatement(input), input)
           /\ \A reply \in ServeReconciled(input) : reply = Refused(400) \/ IsStatementOf(reply, input)
<1>1. IsStatementOf(ServeStatement(input), input)
  BY DEF IsStatementOf, ServeStatement, Statement, PeriodOf
<1>2. ASSUME NEW query \in [from : {input.from, Blank}, through : {input.through, Blank}]
      PROVE  LET body == [from |-> input.from, asOf |-> input.through]
                 chosen == ReconciledPeriod(query, body)
             IN /\ chosen = PeriodOf(input)
                /\ [from |-> IF body.from = Blank THEN chosen.from ELSE body.from, through |-> body.asOf] = PeriodOf(input)
  BY <1>2 DEF ReconciledPeriod, PeriodOf
<1>3. ASSUME NEW reply \in ServeReconciled(input) PROVE reply = Refused(400) \/ IsStatementOf(reply, input)
  <2>. DEFINE body == [from |-> input.from, asOf |-> input.through]
              Chosen(query) == ReconciledPeriod(query, body)
              Compared(query) == [from |-> IF body.from = Blank THEN Chosen(query).from ELSE body.from, through |-> body.asOf]
  <2>1. PICK query \in [from : {input.from, Blank}, through : {input.through, Blank}] :
          reply = IF Disagree(query, body) THEN Refused(400)
                  ELSE Statement(input.subject, Chosen(query), {Compared(query)})
    BY <1>3 DEF ServeReconciled
  <2>2. Chosen(query) = PeriodOf(input) /\ Compared(query) = PeriodOf(input)
    BY <1>2
  <2>. HIDE DEF Chosen, Compared, body
  <2>3. reply = Refused(400) \/ reply = Statement(input.subject, PeriodOf(input), {PeriodOf(input)})
    BY <2>1, <2>2
  <2>. QED BY <2>3 DEF IsStatementOf, Statement
<1>. QED BY <1>1, <1>3

\* A refusal is no success, a statement is.
LEMMA RefusalsAreThrown ==
    ASSUME NEW input, NEW reply, reply = Refused(400) \/ IsStatementOf(reply, input), Ok(reply)
    PROVE  IsStatementOf(reply, input)
<1>. SUFFICES ASSUME reply = Refused(400) PROVE FALSE
  OBVIOUS
<1>1. "status" \in DOMAIN reply /\ reply.status = 400
  BY DEF Refused
<1>. QED BY <1>1 DEF Ok

\* The form and the worker: no request and nothing that is shown changes.
LEMMA FormKeepsInv ==
    ASSUME DeskInv,
           (\E a \in Subjects : RosterLands(a)) \/ (\E fields \in Fields : Edit(fields)) \/ WorkerMoves
    PROVE  DeskInv' /\ ReplayIsOfTheDead
<1>1. /\ UNCHANGED <<desk, exchanges>>
      /\ server' = server \/ \E status : server' = [server EXCEPT !.delivery = status]
  BY DEF RosterLands, Edit, WorkerMoves
<1>2. DOMAIN server' = {"configured", "schedules", "delivery", "retries"} /\ server'.retries = server.retries
  BY <1>1 DEF DeskInv, DeskShape
<1>. QED BY <1>1, <1>2 DEF DeskInv, DeskShape, PreviewIsAsAsked, ReplayIsOfTheDead

\* The handlers of the page that ask the server for something, or find that
\* they cannot.
LEMMA AskKeepsInv ==
    ASSUME DeskInv, BuildPreview \/ Refresh \/ CreateSchedule \/ Replay
    PROVE  DeskInv' /\ ReplayIsOfTheDead
<1>0. server' = server
  BY DEF BuildPreview, Refresh, CreateSchedule, Replay
<1>. SUFFICES DeskInv'
  BY <1>0 DEF ReplayIsOfTheDead, DeskInv, DeskShape
<1>1. ASSUME NEW op \in {"list", "save", "replay"}, NEW input, Send(op, input),
             DOMAIN desk' = DOMAIN desk, desk'.busy = desk.busy,
             desk'.statement = desk.statement, desk'.input = desk.input
      PROVE  DeskInv'
  <2>. DEFINE f == [id |-> asked', op |-> op, input |-> input, at |-> "sent", reply |-> Nothing]
  <2>1. exchanges' = exchanges \cup {f}
    BY <1>1 DEF Send
  <2>2. DOMAIN f = {"id", "op", "input", "at", "reply"} /\ f.op \notin Previews
    BY DEF Previews
  <2>. HIDE DEF f
  <2>3. DeskShape'
    BY <1>0, <1>1, <2>1, <2>2 DEF DeskInv, DeskShape
  <2>4. PreviewIsAsAsked'
    BY <1>0, <1>1, <2>1, <2>2 DEF DeskInv, PreviewIsAsAsked
  <2>. QED BY <2>3, <2>4 DEF DeskInv
<1>2. ASSUME NEW op \in Previews, NEW input, Send(op, input), ~desk.busy,
             desk' = [desk EXCEPT !.busy = TRUE, !.error = FALSE, !.input = input]
      PROVE  DeskInv'
  <2>. DEFINE f == [id |-> asked', op |-> op, input |-> input, at |-> "sent", reply |-> Nothing]
  <2>1. exchanges' = exchanges \cup {f}
    BY <1>2 DEF Send
  <2>2. DOMAIN f = {"id", "op", "input", "at", "reply"} /\ f.input = input /\ f.at = "sent"
    OBVIOUS
  <2>. HIDE DEF f
  <2>3. DOMAIN desk' = DOMAIN desk /\ desk'.busy = TRUE /\ desk'.input = input
    BY <1>2 DEF DeskInv, DeskShape
  <2>4. \A r \in exchanges : r.op \notin Previews
    BY <1>2 DEF DeskInv, PreviewIsAsAsked
  <2>5. DeskShape'
    BY <1>0, <2>1, <2>2, <2>3 DEF DeskInv, DeskShape
  <2>6. PreviewIsAsAsked'
    BY <2>1, <2>2, <2>3, <2>4 DEF PreviewIsAsAsked
  <2>. QED BY <2>5, <2>6 DEF DeskInv
<1>3. CASE BuildPreview
  <2>1. CASE /\ desk' = [desk EXCEPT !.error = TRUE, !.statement = Nothing]
             /\ UNCHANGED <<exchanges, asked>>
    <3>1. /\ DOMAIN desk' = DOMAIN desk /\ desk'.busy = desk.busy /\ desk'.input = desk.input
          /\ desk'.statement = Nothing
      BY <2>1 DEF DeskInv, DeskShape
    <3>. QED BY <1>0, <2>1, <3>1 DEF DeskInv, DeskShape, PreviewIsAsAsked
  <2>2. CASE \E input \in RequestFromFields(form) :
               /\ desk' = [desk EXCEPT !.busy = TRUE, !.error = FALSE, !.input = input]
               /\ Send(IF form.attach THEN "reconciled" ELSE "statement", input)
    BY <1>2, <1>3, <2>2 DEF BuildPreview, Previews
  <2>. QED BY <1>3, <2>1, <2>2 DEF BuildPreview
<1>4. CASE Refresh
  <2>1. Send("list", Nothing) /\ desk' = [desk EXCEPT !.scheduleBusy = TRUE, !.error = FALSE]
    BY <1>4 DEF Refresh, LoadSchedules
  <2>2. /\ DOMAIN desk' = DOMAIN desk /\ desk'.busy = desk.busy
        /\ desk'.statement = desk.statement /\ desk'.input = desk.input
    BY <2>1 DEF DeskInv, DeskShape
  <2>. QED BY <1>1, <2>1, <2>2
<1>5. CASE CreateSchedule
  <2>1. CASE desk' = [desk EXCEPT !.error = TRUE] /\ UNCHANGED <<exchanges, asked>>
    <3>1. /\ DOMAIN desk' = DOMAIN desk /\ desk'.busy = desk.busy
          /\ desk'.statement = desk.statement /\ desk'.input = desk.input
      BY <2>1 DEF DeskInv, DeskShape
    <3>. QED BY <1>0, <2>1, <3>1 DEF DeskInv, DeskShape, PreviewIsAsAsked
  <2>2. CASE desk' = [desk EXCEPT !.scheduleBusy = TRUE] /\ Send("save", [subject |-> form.subject])
    <3>1. /\ DOMAIN desk' = DOMAIN desk /\ desk'.busy = desk.busy
          /\ desk'.statement = desk.statement /\ desk'.input = desk.input
      BY <2>2 DEF DeskInv, DeskShape
    <3>. QED BY <1>1, <2>2, <3>1
  <2>. QED BY <1>5, <2>1, <2>2 DEF CreateSchedule
<1>6. CASE Replay
  <2>1. Send("replay", Nothing) /\ desk' = [desk EXCEPT !.scheduleBusy = TRUE, !.error = FALSE]
    BY <1>6 DEF Replay
  <2>2. /\ DOMAIN desk' = DOMAIN desk /\ desk'.busy = desk.busy
        /\ desk'.statement = desk.statement /\ desk'.input = desk.input
    BY <2>1 DEF DeskInv, DeskShape
  <2>. QED BY <1>1, <2>1, <2>2
<1>. QED BY <1>3, <1>4, <1>5, <1>6

\* The server reads, or changes what it keeps, and answers.
LEMMA ServeKeepsInv ==
    ASSUME DeskInv, NEW r \in exchanges, ServeQuery(r) \/ ServeSave(r) \/ ServeReplay(r)
    PROVE  DeskInv' /\ ReplayIsOfTheDead
<1>1. desk' = desk
  BY DEF ServeQuery, ServeSave, ServeReplay, Unmoved
<1>2. PICK reply :
        /\ Served(r, reply)
        /\ r.op \in Previews => reply = Refused(400) \/ IsStatementOf(reply, r.input)
  <2>1. CASE ServeQuery(r)
    <3>1. CASE r.op = "statement" /\ Served(r, ServeStatement(r.input))
      BY <3>1, RepliesAreOfTheirInput
    <3>2. CASE r.op = "reconciled" /\ \E reply \in ServeReconciled(r.input) : Served(r, reply)
      BY <3>2, RepliesAreOfTheirInput
    <3>3. CASE r.op \in {"list", "save", "replay"} /\ \E reply : Served(r, reply)
      BY <3>3 DEF Previews
    <3>. QED BY <2>1, <3>1, <3>2, <3>3 DEF ServeQuery
  <2>2. CASE ServeSave(r)
    BY <2>2 DEF ServeSave, Previews
  <2>3. CASE ServeReplay(r)
    BY <2>3 DEF ServeReplay, Previews
  <2>. QED BY <2>1, <2>2, <2>3
<1>. DEFINE f == [r EXCEPT !.at = "served", !.reply = reply]
<1>3. exchanges' = (exchanges \ {r}) \cup {f}
  BY <1>2 DEF Served
<1>4. DOMAIN f = {"id", "op", "input", "at", "reply"} /\ f.op = r.op /\ f.input = r.input /\ f.reply = reply
  BY DEF DeskInv, DeskShape
<1>. HIDE DEF f
<1>5. /\ DOMAIN server' = {"configured", "schedules", "delivery", "retries"} /\ server'.retries \in Nat
      /\ ReplayIsOfTheDead
  <2>1. DOMAIN server = {"configured", "schedules", "delivery", "retries"} /\ server.retries \in Nat
    BY DEF DeskInv, DeskShape
  <2>2. \/ server' = server
        \/ \E more : server' = [server EXCEPT !.schedules = more]
        \/ server.delivery = "dead_letter" /\ server' = [server EXCEPT !.delivery = "retry", !.retries = server.retries + 1]
    <3>1. CASE ServeQuery(r)
      BY <3>1 DEF ServeQuery
    <3>2. CASE ServeSave(r)
      <4>1. server' = server \/ server' = [server EXCEPT !.schedules = server.schedules \cup {r.input.subject}]
        BY <2>1, <3>2 DEF ServeSave
      <4>. QED BY <4>1
    <3>3. CASE ServeReplay(r)
      BY <2>1, <3>3 DEF ServeReplay
    <3>. QED BY <3>1, <3>2, <3>3
  <2>3. CASE server' = server
    BY <2>1, <2>3 DEF ReplayIsOfTheDead
  <2>4. CASE \E more : server' = [server EXCEPT !.schedules = more]
    <3>1. DOMAIN server' = DOMAIN server /\ server'.retries = server.retries
      BY <2>1, <2>4
    <3>. QED BY <2>1, <3>1 DEF ReplayIsOfTheDead
  <2>5. CASE /\ server.delivery = "dead_letter"
             /\ server' = [server EXCEPT !.delivery = "retry", !.retries = server.retries + 1]
    <3>1. DOMAIN server' = DOMAIN server /\ server'.retries = server.retries + 1
      BY <2>1, <2>5
    <3>. QED BY <2>1, <2>5, <3>1 DEF ReplayIsOfTheDead
  <2>. QED BY <2>2, <2>3, <2>4, <2>5
<1>6. DeskShape'
  BY <1>1, <1>3, <1>4, <1>5 DEF DeskInv, DeskShape
<1>7. PreviewIsAsAsked'
  BY <1>1, <1>2, <1>3, <1>4 DEF DeskInv, PreviewIsAsAsked
<1>. QED BY <1>5, <1>6, <1>7 DEF DeskInv

\* An answer, or the loss of a request, is for the handler that waits.
LEMMA ReceiveKeepsInv ==
    ASSUME DeskInv, NEW r \in exchanges, Receive(r) \/ Drop(r)
    PROVE  DeskInv' /\ ReplayIsOfTheDead
<1>0. server' = server
  BY DEF Receive, Drop
<1>1. ReplayIsOfTheDead
  BY <1>0 DEF ReplayIsOfTheDead, DeskInv, DeskShape
<1>2. DOMAIN desk = {"busy", "scheduleBusy", "statement", "input", "schedules", "dead", "error"}
  BY DEF DeskInv, DeskShape
<1>3. CASE exchanges' = exchanges \ {r} /\ desk' = Failed(r)
  <2>1. CASE r.op \in Previews
    <3>1. DOMAIN desk' = DOMAIN desk /\ desk'.busy = FALSE /\ desk'.statement = Nothing
      BY <1>2, <1>3, <2>1 DEF Failed, Previews
    <3>2. \A q \in exchanges' : q.op \notin Previews
      BY <1>3, <2>1 DEF DeskInv, PreviewIsAsAsked
    <3>. QED BY <1>0, <1>1, <1>3, <3>1, <3>2 DEF DeskInv, DeskShape, PreviewIsAsAsked
  <2>2. CASE r.op \notin Previews
    <3>1. /\ DOMAIN desk' = DOMAIN desk /\ desk'.busy = desk.busy
          /\ desk'.statement = desk.statement /\ desk'.input = desk.input
      BY <1>2, <1>3, <2>2 DEF Failed, Previews
    <3>. QED BY <1>0, <1>1, <1>3, <3>1 DEF DeskInv, DeskShape, PreviewIsAsAsked
  <2>. QED BY <2>1, <2>2
<1>4. CASE /\ Ok(r.reply) /\ r.op \in Previews /\ r.at = "served" /\ exchanges' = exchanges \ {r}
           /\ desk' = [desk EXCEPT !.statement = r.reply, !.busy = FALSE]
  <2>1. /\ DOMAIN desk' = DOMAIN desk /\ desk'.busy = FALSE /\ desk'.statement = r.reply
        /\ desk'.input = desk.input
    BY <1>2, <1>4
  <2>2. \A q \in exchanges' : q.op \notin Previews
    BY <1>4 DEF DeskInv, PreviewIsAsAsked
  <2>3. r.input = desk.input /\ (r.reply = Refused(400) \/ IsStatementOf(r.reply, r.input))
    BY <1>4 DEF DeskInv, PreviewIsAsAsked
  <2>4. IsStatementOf(r.reply, r.input)
    BY <1>4, <2>3, RefusalsAreThrown
  <2>. QED BY <1>0, <1>1, <1>4, <2>1, <2>2, <2>3, <2>4 DEF DeskInv, DeskShape, PreviewIsAsAsked
<1>5. CASE /\ exchanges' = exchanges \ {r}
           /\ desk' = [desk EXCEPT !.schedules = r.reply.schedules, !.dead = r.reply.dead, !.scheduleBusy = FALSE]
  <2>1. /\ DOMAIN desk' = DOMAIN desk /\ desk'.busy = desk.busy
        /\ desk'.statement = desk.statement /\ desk'.input = desk.input
    BY <1>2, <1>5
  <2>. QED BY <1>0, <1>1, <1>5, <2>1 DEF DeskInv, DeskShape, PreviewIsAsAsked
<1>6. CASE /\ desk' = [desk EXCEPT !.scheduleBusy = TRUE, !.error = FALSE]
           /\ exchanges' = (exchanges \ {r}) \cup {[r EXCEPT !.op = "list", !.at = "sent", !.reply = Nothing]}
  <2>1. /\ DOMAIN desk' = DOMAIN desk /\ desk'.busy = desk.busy
        /\ desk'.statement = desk.statement /\ desk'.input = desk.input
    BY <1>2, <1>6
  <2>. DEFINE f == [r EXCEPT !.op = "list", !.at = "sent", !.reply = Nothing]
  <2>2. DOMAIN f = {"id", "op", "input", "at", "reply"} /\ f.op \notin Previews
    BY DEF DeskInv, DeskShape, Previews
  <2>3. exchanges' = (exchanges \ {r}) \cup {f}
    BY <1>6
  <2>. HIDE DEF f
  <2>4. DeskShape'
    BY <1>0, <2>1, <2>2, <2>3 DEF DeskInv, DeskShape
  <2>5. PreviewIsAsAsked'
    BY <2>1, <2>2, <2>3 DEF DeskInv, PreviewIsAsAsked
  <2>. QED BY <1>1, <2>4, <2>5 DEF DeskInv
<1>. QED BY <1>3, <1>4, <1>5, <1>6 DEF Receive, Drop, Previews

LEMMA DeskNextInv == DeskInv /\ [DeskNext]_deskVars => DeskInv' /\ [ReplayIsOfTheDead]_deskVars
<1>. SUFFICES ASSUME DeskInv, [DeskNext]_deskVars PROVE DeskInv' /\ [ReplayIsOfTheDead]_deskVars
  OBVIOUS
<1>1. CASE (\E a \in Subjects : RosterLands(a)) \/ (\E fields \in Fields : Edit(fields)) \/ WorkerMoves
  BY <1>1, FormKeepsInv
<1>2. CASE BuildPreview \/ Refresh \/ CreateSchedule \/ Replay
  BY <1>2, AskKeepsInv
<1>3. ASSUME NEW r \in exchanges, ServeQuery(r) \/ ServeSave(r) \/ ServeReplay(r)
      PROVE  DeskInv' /\ ReplayIsOfTheDead
  BY <1>3, ServeKeepsInv
<1>4. ASSUME NEW r \in exchanges, Receive(r) \/ Drop(r) PROVE DeskInv' /\ ReplayIsOfTheDead
  BY <1>4, ReceiveKeepsInv
<1>5. CASE UNCHANGED deskVars
  BY <1>5 DEF deskVars, DeskInv, DeskShape, PreviewIsAsAsked
<1>. QED BY <1>1, <1>2, <1>3, <1>4, <1>5 DEF DeskNext

\* For any subjects, periods and numbers of requests the statement on the page
\* is the one asked for last, and covers what was reconciled, in whatever
\* order requests are served, answered and lost while the form is edited
\* (ReportsPage.tsx, buildPreview; api.ts, handleRequest).
THEOREM StatementsAreAsAsked == DeskSpec => []StatementIsAsAsked
<1>1. DeskInv => StatementIsAsAsked
  <2>. SUFFICES ASSUME DeskInv, ~desk.busy, StatementShown
       PROVE  /\ desk.statement.subject = desk.input.subject
              /\ desk.statement.period = [from |-> desk.input.from, through |-> desk.input.through]
              /\ \A reconciled \in desk.statement.reconciled : reconciled = desk.statement.period
    BY DEF StatementIsAsAsked
  <2>1. desk.busy = FALSE
    BY DEF DeskInv, DeskShape
  <2>2. IsStatementOf(desk.statement, desk.input)
    BY <2>1 DEF DeskInv, PreviewIsAsAsked, StatementShown
  <2>. QED BY <2>2 DEF IsStatementOf, PeriodOf
<1>2. DeskInv /\ [DeskNext]_deskVars => DeskInv'
  BY DeskNextInv
<1>. QED BY <1>1, <1>2, DeskInitInv, PTL DEF DeskSpec

\* A delivery is retried once for each time it died, however often the button
\* is pressed and whatever list the page shows (delivery.ts, replayDeadLetter).
THEOREM ReplaysAreOfTheDead == DeskSpec => [][ReplayIsOfTheDead]_deskVars
<1>1. DeskInv /\ [DeskNext]_deskVars => DeskInv'
  BY DeskNextInv
<1>2. DeskInv /\ [DeskNext]_deskVars => [ReplayIsOfTheDead]_deskVars
  BY DeskNextInv
<1>. QED BY <1>1, <1>2, DeskInitInv, PTL DEF DeskSpec

-----------------------------------------------------------------------------
(* The two stores of the indexer.                                          *)

\* The rows of who takes part in an event, and of who takes part in some.
RowsOf(e) == {[event |-> e, address |-> p[1], role |-> p[2]] : p \in participants(e)}
PeopleOf(some) == UNION {RowsOf(e) : e \in some}

\* An agent's creation names its id and its address.
CreationsNameAgents(some) == \A e \in some : e.action = "created" => e.fields = {"agentId", "agent"}

\* The map has the fees of the table, each under its hash.
FeesAgree ==
    /\ tables.fees = {maps.fees[h] : h \in DOMAIN maps.fees}
    /\ \A h \in DOMAIN maps.fees : maps.fees[h].hash = h

\* The maps have the events of the tables, whatever was refused.
StoresInv ==
    /\ DOMAIN tables = {"events", "people", "fees", "entries", "next"}
    /\ DOMAIN maps = {"people", "fees", "entries", "next"}
    /\ torn \in BOOLEAN
    /\ CreationsNameAgents(tables.events)
    /\ tables.people = PeopleOf(tables.events)
    /\ maps.people = [e \in tables.events |-> participants(e)]
    /\ tables.next = maps.next
    /\ torn = FALSE => FeesAgree /\ maps.entries = tables.entries

LEMMA StoresInitInv == StoresInit => StoresInv
<1>. SUFFICES ASSUME StoresInit PROVE StoresInv
  OBVIOUS
<1>1. PeopleOf({}) = {} /\ CreationsNameAgents({})
  BY DEF PeopleOf, CreationsNameAgents
<1>2. maps.people = [e \in {} |-> participants(e)] /\ DOMAIN maps.fees = {}
  BY DEF StoresInit
<1>3. FeesAgree
  BY <1>2 DEF StoresInit, EmptyTables, FeesAgree
<1>. QED BY <1>1, <1>2, <1>3 DEF StoresInit, EmptyTables, StoresInv

\* A poll or a replay of any range, with any events.
LEMMA ReplaceKeepsInv ==
    ASSUME StoresInv, NEW from, NEW through, NEW batch, CreationsNameAgents(batch),
           ReplaceRange(from, through, batch)
    PROVE  StoresInv'
<1>1. CASE UNCHANGED <<tables, maps>>
  <2>1. torn' = torn
    BY DEF ReplaceRange
  <2>. QED BY <1>1, <2>1 DEF StoresInv, FeesAgree
<1>2. CASE /\ tables' = TablesReplaced(tables, from, through, batch)
           /\ maps' = MapsReplaced(maps, from, through, batch)
  <2>. DEFINE fresh == {e \in batch : Within(e, from, through)}
              kept == Outside(tables.events, from, through)
              keptPeople == {p \in tables.people : p.event \in kept}
              freshPeople == UNION {{[event |-> e, address |-> p[1], role |-> p[2]] :
                                       p \in participants(e)} : e \in fresh}
              feesLeft == Outside(tables.fees, from, through)
              hashes == {h \in DOMAIN maps.fees : ~Within(maps.fees[h], from, through)}
  <2>1. /\ tables'.events = kept \cup fresh
        /\ tables'.people = keptPeople \cup freshPeople
        /\ tables'.fees = feesLeft
        /\ tables'.next = through + 1
        /\ tables'.entries = Entries(kept \cup fresh, feesLeft)
        /\ DOMAIN tables' = {"events", "people", "fees", "entries", "next"}
    BY <1>2 DEF TablesReplaced, TablesRebuilt, StoresInv
  <2>2. /\ maps'.people = [e \in {e \in DOMAIN maps.people : ~Within(e, from, through)} \cup fresh |-> participants(e)]
        /\ maps'.fees = Restrict(maps.fees, hashes)
        /\ maps'.next = through + 1
        /\ maps'.entries = Entries(DOMAIN maps'.people, {maps'.fees[h] : h \in DOMAIN maps'.fees})
        /\ DOMAIN maps' = {"people", "fees", "entries", "next"}
    BY <1>2 DEF MapsReplaced, MapsRebuilt, StoresInv
  <2>3. torn' = torn /\ fresh \subseteq batch /\ kept \subseteq tables.events
    BY DEF ReplaceRange, Outside
  <2>4. maps'.people = [e \in kept \cup fresh |-> participants(e)] /\ DOMAIN maps'.people = kept \cup fresh
    <3>1. {e \in DOMAIN maps.people : ~Within(e, from, through)} = kept
      BY DEF StoresInv, Outside
    <3>. QED BY <2>2, <3>1
  <2>5. CreationsNameAgents(tables'.events)
    BY <2>1, <2>3 DEF CreationsNameAgents, StoresInv
  <2>6. tables'.people = PeopleOf(kept \cup fresh)
    <3>1. freshPeople = PeopleOf(fresh)
      BY DEF PeopleOf, RowsOf
    <3>2. keptPeople = PeopleOf(kept)
      <4>1. \A e, p : p \in RowsOf(e) => p.event = e
        BY DEF RowsOf
      <4>. QED BY <2>3, <4>1 DEF StoresInv, PeopleOf
    <3>3. PeopleOf(kept \cup fresh) = PeopleOf(kept) \cup PeopleOf(fresh)
      BY DEF PeopleOf
    <3>. QED BY <2>1, <3>1, <3>2, <3>3
  <2>7. ASSUME torn = FALSE PROVE FeesAgree' /\ {maps'.fees[h] : h \in DOMAIN maps'.fees} = feesLeft
    <3>1. DOMAIN maps'.fees = hashes /\ \A h \in hashes : maps'.fees[h] = maps.fees[h]
      BY <2>2 DEF Restrict
    <3>2. FeesAgree
      BY <2>7 DEF StoresInv
    <3>3. {maps'.fees[h] : h \in DOMAIN maps'.fees} = feesLeft
      BY <3>1, <3>2 DEF FeesAgree, Outside
    <3>. QED BY <2>1, <3>1, <3>2, <3>3 DEF FeesAgree
  <2>. QED BY <2>1, <2>2, <2>3, <2>4, <2>5, <2>6, <2>7 DEF StoresInv
<1>. QED BY <1>1, <1>2 DEF ReplaceRange

\* A set of numbers has a least one.
LEMMA FirstOfSome ==
    ASSUME NEW some \in SUBSET Nat, some # {}
    PROVE  \E i \in some : \A j \in some : i <= j
<1>1. PICK i \in some : \A j \in some : ~(<<j, i>> \in OpToRel(<, Nat))
  BY NatLessThanWellFounded, WFMin
<1>2. \A j \in Nat : j < i => <<j, i>> \in OpToRel(<, Nat)
  BY DEF OpToRel
<1>3. \A j \in some : ~(j < i)
  BY <1>1, <1>2
<1>. QED BY <1>3

\* A list of fees, of which a prefix is recorded if one is refused.  No list
\* names a transaction twice.
OnePerHash(fees) ==
    /\ fees \in Seq(ToSet(fees))
    /\ \A f, g \in ToSet(fees) : f.hash = g.hash => f = g

LEMMA RecordKeepsInv ==
    ASSUME StoresInv, NEW fees, OnePerHash(fees), RecordTransactionFees(fees)
    PROVE  StoresInv'
<1>. DEFINE bad == {i \in DOMAIN fees : fees[i].charged < 0}
            good == IF bad = {} THEN fees
                    ELSE SubSeq(fees, 1, (CHOOSE i \in bad : \A j \in bad : i <= j) - 1)
            Set(list) == [h \in DOMAIN maps.fees \cup {f.hash : f \in ToSet(list)} |->
                            IF \E f \in ToSet(list) : f.hash = h
                            THEN CHOOSE f \in ToSet(list) : f.hash = h ELSE maps.fees[h]]
            left == {f \in tables.fees : \A g \in ToSet(fees) : g.hash # f.hash} \cup ToSet(fees)
<1>1. torn' = (torn \/ (good # fees /\ good # <<>>))
  BY DEF RecordTransactionFees
<1>2. CASE bad = {}
  <2>1. tables' = TablesRecorded(tables, fees) /\ maps' = MapsRebuilt(MapsSet(maps, fees))
    BY <1>2 DEF RecordTransactionFees
  <2>2. /\ tables'.events = tables.events /\ tables'.people = tables.people
        /\ tables'.fees = left /\ tables'.next = tables.next
        /\ tables'.entries = Entries(tables.events, left)
        /\ DOMAIN tables' = {"events", "people", "fees", "entries", "next"}
    BY <2>1 DEF TablesRecorded, TablesRebuilt, StoresInv
  <2>3. /\ maps'.people = maps.people /\ maps'.fees = Set(fees) /\ maps'.next = maps.next
        /\ maps'.entries = Entries(DOMAIN maps.people, {maps'.fees[h] : h \in DOMAIN maps'.fees})
        /\ DOMAIN maps' = {"people", "fees", "entries", "next"}
    BY <2>1 DEF MapsSet, MapsRebuilt, StoresInv
  <2>4. torn' = torn
    BY <1>1, <1>2 DEF StoresInv
  <2>5. ASSUME torn = FALSE PROVE FeesAgree' /\ {maps'.fees[h] : h \in DOMAIN maps'.fees} = left
    <3>1. FeesAgree
      BY <2>5 DEF StoresInv
    <3>2. DOMAIN maps'.fees = DOMAIN maps.fees \cup {f.hash : f \in ToSet(fees)}
      BY <2>3
    <3>3. \A f \in ToSet(fees) : maps'.fees[f.hash] = f
      BY <2>3 DEF OnePerHash
    <3>4. \A h \in DOMAIN maps.fees : (\A f \in ToSet(fees) : f.hash # h) => maps'.fees[h] = maps.fees[h]
      BY <2>3
    <3>. HIDE DEF Set
    <3>5. \A h \in DOMAIN maps'.fees : maps'.fees[h].hash = h /\ maps'.fees[h] \in left
      <4>. SUFFICES ASSUME NEW h \in DOMAIN maps'.fees PROVE maps'.fees[h].hash = h /\ maps'.fees[h] \in left
        OBVIOUS
      <4>1. CASE \E f \in ToSet(fees) : f.hash = h
        BY <4>1, <3>3
      <4>2. CASE ~\E f \in ToSet(fees) : f.hash = h
        <5>1. h \in DOMAIN maps.fees /\ maps'.fees[h] = maps.fees[h]
          BY <4>2, <3>2, <3>4
        <5>2. maps.fees[h].hash = h /\ maps.fees[h] \in tables.fees
          BY <5>1, <3>1 DEF FeesAgree
        <5>. QED BY <4>2, <5>1, <5>2
      <4>. QED BY <4>1, <4>2
    <3>6. \A f \in left : \E h \in DOMAIN maps'.fees : f = maps'.fees[h]
      <4>. SUFFICES ASSUME NEW f \in left PROVE \E h \in DOMAIN maps'.fees : f = maps'.fees[h]
        OBVIOUS
      <4>1. CASE f \in ToSet(fees)
        BY <4>1, <3>2, <3>3
      <4>2. CASE f \notin ToSet(fees)
        <5>1. f \in tables.fees /\ \A g \in ToSet(fees) : g.hash # f.hash
          BY <4>2
        <5>2. PICK h \in DOMAIN maps.fees : f = maps.fees[h] /\ f.hash = h
          BY <5>1, <3>1 DEF FeesAgree
        <5>. QED BY <5>1, <5>2, <3>2, <3>4
      <4>. QED BY <4>1, <4>2
    <3>7. {maps'.fees[h] : h \in DOMAIN maps'.fees} = left
      BY <3>5, <3>6
    <3>. QED BY <2>2, <3>5, <3>7 DEF FeesAgree
  <2>6. DOMAIN maps.people = tables.events
    BY DEF StoresInv
  <2>. HIDE DEF left, Set, good, bad
  <2>. QED BY <2>2, <2>3, <2>4, <2>5, <2>6 DEF StoresInv
<1>3. CASE bad # {}
  <2>1. tables' = tables /\ maps' = MapsSet(maps, good)
    BY <1>3 DEF RecordTransactionFees
  <2>2. /\ maps'.people = maps.people /\ maps'.fees = Set(good) /\ maps'.next = maps.next
        /\ maps'.entries = maps.entries /\ DOMAIN maps' = {"people", "fees", "entries", "next"}
    BY <2>1 DEF MapsSet, StoresInv
  <2>3. ASSUME torn' = FALSE PROVE torn = FALSE /\ good = <<>>
    <3>1. bad \subseteq Nat /\ bad # {} /\ bad \subseteq 1..Len(fees)
      BY <1>3 DEF OnePerHash
    <3>2. \E i \in bad : \A j \in bad : i <= j
      <4>. HIDE DEF bad
      <4>. QED BY <3>1, FirstOfSome
    <3>3. PICK k \in bad : good = SubSeq(fees, 1, k - 1)
      BY <3>2, <1>3
    <3>4. k \in 1..Len(fees) /\ Len(fees) \in Nat
      BY <3>1, <3>3 DEF OnePerHash
    <3>5. Len(good) = k - 1
      <4>. HIDE DEF bad, good
      <4>. QED BY <3>3, <3>4, SubSeqProperties DEF OnePerHash
    <3>6. good # fees
      <4>. HIDE DEF bad, good
      <4>. QED BY <3>4, <3>5
    <3>. HIDE DEF bad, good
    <3>. QED BY <2>3, <1>1, <3>6 DEF StoresInv
  <2>4. ASSUME torn' = FALSE PROVE FeesAgree'
    <3>1. good = <<>> /\ FeesAgree
      BY <2>3, <2>4 DEF StoresInv
    <3>2. ToSet(good) = {}
      <4>. HIDE DEF good
      <4>. QED BY <3>1 DEF ToSet
    <3>. HIDE DEF good, bad
    <3>3. DOMAIN maps'.fees = DOMAIN maps.fees /\ \A h \in DOMAIN maps.fees : maps'.fees[h] = maps.fees[h]
      BY <2>2, <3>2
    <3>. HIDE DEF Set
    <3>. QED BY <2>1, <3>1, <3>3 DEF FeesAgree
  <2>5. torn' \in BOOLEAN
    BY <1>1 DEF StoresInv
  <2>. HIDE DEF left, Set, good, bad
  <2>. QED BY <2>1, <2>2, <2>3, <2>4, <2>5 DEF StoresInv
<1>. QED BY <1>2, <1>3

\* Both stores find the same events of an agent.
LEMMA StoresFindTheSame ==
    ASSUME StoresInv, NEW address
    PROVE  TablesEventsForAgent(tables, address) = MapsEventsForAgent(maps, address)
<1>. DEFINE births == {p.event : p \in {p \in tables.people :
                            /\ p.address = address /\ p.role = "agent"
                            /\ p.event.ns = "factory" /\ p.event.action = "created"}}
            born == \E e \in DOMAIN maps.people :
                         /\ e.ns = "factory" /\ e.action = "created" /\ entity(e) = "agent"
                         /\ <<address, "agent">> \in maps.people[e]
            found == {e \in tables.events : \/ \E p \in tables.people : p.event = e /\ p.address = address
                                            \/ entity(e) = "agent" /\ births # {}}
            mapped == {e \in DOMAIN maps.people : \/ \E p \in maps.people[e] : p[1] = address
                                                  \/ entity(e) = "agent" /\ born}
<1>1. DOMAIN maps.people = tables.events /\ \A e \in tables.events : maps.people[e] = participants(e)
  BY DEF StoresInv
<1>2. \A e \in tables.events : \A p : p \in tables.people /\ p.event = e <=> p \in RowsOf(e)
  BY DEF StoresInv, PeopleOf, RowsOf
<1>3. \A e \in tables.events : (\E p \in tables.people : p.event = e /\ p.address = address)
                                <=> \E p \in maps.people[e] : p[1] = address
  <2>. SUFFICES ASSUME NEW e \in tables.events
       PROVE  (\E p \in tables.people : p.event = e /\ p.address = address)
                <=> \E p \in maps.people[e] : p[1] = address
    OBVIOUS
  <2>1. (\E p \in tables.people : p.event = e /\ p.address = address)
          <=> \E p \in RowsOf(e) : p.address = address
    BY <1>2
  <2>2. (\E p \in RowsOf(e) : p.address = address) <=> \E p \in participants(e) : p[1] = address
    <3>1. \A p \in participants(e) : [event |-> e, address |-> p[1], role |-> p[2]] \in RowsOf(e)
      BY DEF RowsOf
    <3>2. \A p \in RowsOf(e) : \E q \in participants(e) : p.address = q[1]
      BY DEF RowsOf
    <3>3. ASSUME NEW p \in participants(e), p[1] = address
          PROVE  \E r \in RowsOf(e) : r.address = address
      <4>1. [event |-> e, address |-> p[1], role |-> p[2]].address = address
        BY <3>3
      <4>. QED BY <3>1, <4>1
    <3>. QED BY <3>2, <3>3
  <2>. QED BY <2>1, <2>2, <1>1
<1>4. \A p \in tables.people : p.event \in tables.events
  BY DEF StoresInv, PeopleOf, RowsOf
<1>5. \A e : \A q \in participants(e) : q = <<q[1], q[2]>>
  BY DEF participants
<1>6. \A e \in tables.events : e.action = "created" => entity(e) = "agent"
  BY DEF StoresInv, CreationsNameAgents, entity
<1>7. births # {} <=> born
  <2>1. ASSUME births # {} PROVE born
    <3>1. PICK p \in tables.people : /\ p.address = address /\ p.role = "agent"
                                     /\ p.event.ns = "factory" /\ p.event.action = "created"
      BY <2>1
    <3>2. p.event \in tables.events /\ p \in RowsOf(p.event)
      BY <3>1, <1>2, <1>4
    <3>3. PICK q \in participants(p.event) : q[1] = p.address /\ q[2] = p.role
      BY <3>2 DEF RowsOf
    <3>4. <<address, "agent">> \in maps.people[p.event]
      BY <3>1, <3>2, <3>3, <1>1, <1>5
    <3>. QED BY <3>1, <3>2, <3>4, <1>1, <1>6
  <2>2. ASSUME born PROVE births # {}
    <3>1. PICK e \in tables.events : /\ e.ns = "factory" /\ e.action = "created"
                                     /\ <<address, "agent">> \in participants(e)
      BY <2>2, <1>1
    <3>2. [event |-> e, address |-> address, role |-> "agent"] \in RowsOf(e)
      BY <3>1 DEF RowsOf
    <3>3. [event |-> e, address |-> address, role |-> "agent"] \in tables.people
      BY <3>1, <3>2, <1>2
    <3>. QED BY <3>1, <3>3
  <2>. QED BY <2>1, <2>2
<1>8. found = mapped
  <2>. HIDE DEF births, born
  <2>. QED BY <1>1, <1>3, <1>7
<1>. QED BY <1>8 DEF TablesEventsForAgent, MapsEventsForAgent

LEMMA StoresNextInv == StoresInv /\ [StoresNext]_storeVars => StoresInv'
<1>. SUFFICES ASSUME StoresInv, [StoresNext]_storeVars PROVE StoresInv'
  OBVIOUS
<1>1. ASSUME NEW from \in 1..Top, NEW through \in 0..Top, NEW batch \in Batches,
             ReplaceRange(from, through, batch)
      PROVE  StoresInv'
  <2>1. CreationsNameAgents(batch)
    BY DEF Batches, CreationsNameAgents, Occurrence, Kinds
  <2>. QED BY <1>1, <2>1, ReplaceKeepsInv
<1>2. ASSUME NEW fees \in FeeLists, RecordTransactionFees(fees) PROVE StoresInv'
  <2>1. OnePerHash(fees)
    BY DEF FeeLists, OnePerHash, ToSet, Fee
  <2>. QED BY <1>2, <2>1, RecordKeepsInv
<1>3. CASE UNCHANGED storeVars
  BY <1>3 DEF storeVars, StoresInv, FeesAgree
<1>. QED BY <1>1, <1>2, <1>3 DEF StoresNext

\* After any polls, replays, reorganizations and recorded fees the tables and
\* the maps answer alike, until a call is refused half way (store.ts,
\* InMemoryEventStore: "identical interface and query semantics").
THEOREM StoresAnswerAlike == StoresSpec => []StoresAgree
<1>1. StoresInv => StoresAgree
  <2>. SUFFICES ASSUME StoresInv PROVE StoresAgree
    OBVIOUS
  <2>1. \A address : TablesEventsForAgent(tables, address) = MapsEventsForAgent(maps, address)
    BY StoresFindTheSame
  <2>. QED BY <2>1 DEF StoresInv, StoresAgree
<1>. QED BY <1>1, StoresInitInv, StoresNextInv, PTL DEF StoresSpec
=============================================================================
