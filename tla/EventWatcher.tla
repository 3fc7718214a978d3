---------------------------- MODULE EventWatcher ----------------------------
(***************************************************************************)
(* The SDK's subscription to contract events (core/src/events.ts): a poll  *)
(* asks for the page after the cursor, hands its events one at a time to   *)
(* the application's callback, and moves the cursor when the whole page    *)
(* has been handled.  An application stores a cursor and resumes from it.  *)
(***************************************************************************)
EXTENDS Integers, Sequences, FiniteSets

CONSTANTS
    PageSize,
    MaxEvents, MaxFaults, MaxResumes   \* bounds

VARIABLES
    log,       \* what the ledger emitted that passes the filter, by kind
    watcher,   \* [at, cursor, next, upto, stopped]: cursors are positions in log
    saved,     \* [cursor, late]: what cursor() last returned to the application,
               \* and whether that was after it had unsubscribed
    calls,     \* calls[i]: calls of the callback with event i, counted to Enough
    handled,   \* the events a call returned from
    faults,    \* requests that failed and callbacks that threw
    resumed    \* [times, late]: late if from a cursor read after an unsubscribe

watchVars == <<log, watcher, saved, calls, handled, faults, resumed>>

\* An event can be decoded, carries no address, or comes from a contract whose
\* kind the context does not name.
EventKinds == {"known", "stray", "foreign"}
Enough == 2 + MaxFaults + MaxResumes

From(cursor) == [at |-> "armed", cursor |-> cursor, next |-> cursor, upto |-> cursor, stopped |-> FALSE]

WatchInit ==
    /\ log = <<>> /\ handled = {} /\ faults = 0 /\ watcher = From(0)
    /\ calls = [i \in 1..MaxEvents |-> 0]
    /\ saved = [cursor |-> 0, late |-> FALSE] /\ resumed = [times |-> 0, late |-> FALSE]

Emit(kind) ==
    /\ Len(log) < MaxEvents /\ log' = Append(log, kind)
    /\ UNCHANGED <<watcher, saved, calls, handled, faults, resumed>>

-----------------------------------------------------------------------------
(* poll().                                                                 *)

\* The finally clause: the next poll is scheduled unless unsubscribed.
Rearmed(w) == [w EXCEPT !.at = IF w.stopped THEN "over" ELSE "armed"]

Ask ==
    /\ watcher.at = "armed" /\ watcher' = [watcher EXCEPT !.at = "asking"]
    /\ UNCHANGED <<log, saved, calls, handled, faults, resumed>>

\* The page's end is the cursor of the response.
PageEnd == IF watcher.cursor + PageSize < Len(log) THEN watcher.cursor + PageSize ELSE Len(log)

MutantAnswered ==
    /\ watcher.at = "asking"
    /\ watcher' = [watcher EXCEPT !.at = "handling", !.next = watcher.cursor, !.upto = PageEnd, !.cursor = PageEnd]
    /\ UNCHANGED <<log, saved, calls, handled, faults, resumed>>

Answered ==
    /\ watcher.at = "asking"
    /\ watcher' = [watcher EXCEPT !.at = "handling", !.next = watcher.cursor, !.upto = PageEnd]
    /\ UNCHANGED <<log, saved, calls, handled, faults, resumed>>

\* onError is told, and the page asked for again.
PollFails ==
    /\ watcher.at \in {"asking", "calling"} /\ faults < MaxFaults
    /\ faults' = faults + 1 /\ watcher' = Rearmed(watcher)
    /\ UNCHANGED <<log, saved, calls, handled, resumed>>

\* An unsubscribed watcher leaves the loop, and moves its cursor all the same.
PageDone ==
    /\ watcher.at = "handling" /\ (watcher.stopped \/ watcher.next = watcher.upto)
    /\ watcher' = Rearmed([watcher EXCEPT !.cursor = watcher.upto])
    /\ UNCHANGED <<log, saved, calls, handled, faults, resumed>>

HandleNext ==
    /\ watcher.at = "handling" /\ ~watcher.stopped /\ watcher.next < watcher.upto
    /\ LET i == watcher.next + 1 IN
         \/ /\ log[i] = "stray" /\ watcher' = [watcher EXCEPT !.next = i]
            /\ UNCHANGED calls
         \/ /\ log[i] = "foreign" /\ watcher' = Rearmed(watcher)
            /\ UNCHANGED calls
         \/ /\ log[i] = "known" /\ watcher' = [watcher EXCEPT !.at = "calling"]
            /\ calls' = [calls EXCEPT ![i] = IF @ < Enough THEN @ + 1 ELSE @]
    /\ UNCHANGED <<log, saved, handled, faults, resumed>>

Returns ==
    /\ watcher.at = "calling"
    /\ handled' = handled \cup {watcher.next + 1}
    /\ watcher' = [watcher EXCEPT !.at = "handling", !.next = @ + 1]
    /\ UNCHANGED <<log, saved, calls, faults, resumed>>

-----------------------------------------------------------------------------
(* The application.                                                        *)

Unsubscribe ==
    /\ ~watcher.stopped
    /\ watcher' = [watcher EXCEPT !.stopped = TRUE, !.at = IF @ = "armed" THEN "over" ELSE @]
    /\ UNCHANGED <<log, saved, calls, handled, faults, resumed>>

Save ==
    /\ saved' = [cursor |-> watcher.cursor, late |-> resumed.late \/ watcher.stopped]
    /\ UNCHANGED <<log, watcher, calls, handled, faults, resumed>>

Resume ==
    /\ watcher.at = "over" /\ resumed.times < MaxResumes
    /\ watcher' = From(saved.cursor)
    /\ resumed' = [times |-> resumed.times + 1, late |-> saved.late]
    /\ UNCHANGED <<log, saved, calls, handled, faults>>

WatchStep == Ask \/ Answered \/ PageDone \/ HandleNext \/ Returns

WatchNext ==
    \/ \E kind \in EventKinds : Emit(kind)
    \/ WatchStep \/ PollFails \/ Unsubscribe \/ Save \/ Resume

WatchSpec == WatchInit /\ [][WatchNext]_watchVars

SoundWatch == {PageSize, MaxEvents, MaxFaults, MaxResumes} \subseteq Nat

-----------------------------------------------------------------------------

Known == {i \in DOMAIN log : log[i] = "known"}
Readable == \A i \in DOMAIN log : log[i] # "foreign"

\* A cursor read from a watcher that has not been unsubscribed passes no event
\* the callback has not returned from, across failures and resumptions ("Resume
\* from a previous cursor").  One read afterwards may: the loop that is left
\* at an unsubscribe moves the cursor past the rest of its page.
PassedIsDelivered ==
    ~resumed.late =>
      /\ ~watcher.stopped => \A i \in Known : i <= watcher.cursor => i \in handled
      /\ ~saved.late => \A i \in Known : i <= saved.cursor => i \in handled
      /\ \A i \in handled, j \in Known : j < i => j \in handled

\* The callback is called again with an event only after a fault or a
\* resumption, as long as every event can be decoded.
RepeatsAreExplained ==
    Readable => \A i \in Known : calls[i] <= 1 + faults + resumed.times

\* Every event is handled in the end by a watcher that goes on, if every event
\* can be decoded.
Undelivered == ~watcher.stopped /\ ~resumed.late /\ Readable /\ Known \ handled # {}
=============================================================================
