--------------------------- MODULE AbortableCalls ---------------------------
(***************************************************************************)
(* Cancellation, timeouts and retries of the SDK's network calls (abort.ts *)
(* and retry.ts), put together as their comments describe: runCall around  *)
(* retryAsync around abortable work, with the abort-aware sleep between    *)
(* attempts.  Several calls share one external signal.                     *)
(***************************************************************************)
EXTENDS Integers, FiniteSets

CONSTANTS
    Calls,
    Works,       \* what a call has to do one after the other
    Attempts     \* of the retry policy

\* A policy tries at least once.
SoundAborts == Works \in Nat \ {0} /\ Attempts \in Nat \ {0}

VARIABLES
    external,    \* the caller's signal: aborted, and who listens to it
    abortable    \* abortable[c]: the call

abortVars == <<external, abortable>>

\* at: new, step, flight, nap or done; signal: the reason of the combined one;
\* timer: that of the timeout; listens: to the combined signal; begun, late:
\* requests, and those begun with the signal aborted; outcome, told: the result,
\* and the attempts its error reports.
FreshCall == [at |-> "new", signal |-> "live", timer |-> "none", listens |-> FALSE, nap |-> FALSE,
            work |-> 1, tries |-> 0, begun |-> 0, failed |-> 0, late |-> 0, outcome |-> "none", told |-> 0]

AbortInit ==
    /\ external = [aborted |-> FALSE, listeners |-> {}]
    /\ abortable = [c \in Calls |-> FreshCall]

Deafened(c) == external' = [external EXCEPT !.listeners = @ \ {c}]

\* The finally clause of runCall.
EndedWith(call, outcome) ==
    [call EXCEPT !.at = "done", !.outcome = outcome, !.timer = "none"]

\* With a timeout of zero there is no timer, and with the signal aborted neither.
RunCall(c, withSignal, timeout) ==
    LET aborted == withSignal /\ external.aborted IN
    /\ abortable[c].at = "new"
    /\ abortable' = [abortable EXCEPT ![c] =
         [@ EXCEPT !.at = "step", !.signal = IF aborted THEN "aborted" ELSE "live",
                   !.timer = IF timeout /\ ~aborted THEN "set" ELSE "none"]]
    /\ external' = IF withSignal /\ ~aborted
                   THEN [external EXCEPT !.listeners = @ \cup {c}] ELSE external

\* throwIfAborted, before work is begun and before a nap.
Refuse(c) ==
    /\ abortable[c].at = "step" /\ abortable[c].signal # "live"
    /\ abortable' = [abortable EXCEPT ![c] = EndedWith(@, @.signal)]
    /\ Deafened(c)

Requested(call) ==
    [call EXCEPT !.at = "flight", !.listens = TRUE, !.begun = @ + 1, !.tries = @ + 1,
                 !.late = @ + IF call.signal = "live" THEN 0 ELSE 1]

MutantBeginWork(c) ==
    /\ abortable[c].at = "step"
    /\ abortable' = [abortable EXCEPT ![c] = Requested(abortable[c])]
    /\ UNCHANGED external

BeginWork(c) ==
    /\ abortable[c].at = "step" /\ abortable[c].signal = "live"
    /\ abortable' = [abortable EXCEPT ![c] = Requested(abortable[c])]
    /\ UNCHANGED external

Arrives(c) ==
    /\ abortable[c].at = "flight"
    /\ LET call == [abortable[c] EXCEPT !.listens = FALSE] IN
         IF call.work = Works
         THEN abortable' = [abortable EXCEPT ![c] = EndedWith(call, "ok")] /\ Deafened(c)
         ELSE /\ abortable' = [abortable EXCEPT ![c] =
                   [call EXCEPT !.at = "step", !.work = call.work + 1, !.tries = 0]]
              /\ UNCHANGED external

\* The request is answered with an error.  The last attempt, or one that is not
\* retryable, ends the loop, with an error that reports the policy's attempts.
AttemptFails(c, retryable) ==
    /\ abortable[c].at = "flight"
    /\ LET call == [abortable[c] EXCEPT !.listens = FALSE, !.failed = @ + 1] IN
         IF call.tries = Attempts \/ ~retryable
         THEN /\ abortable' = [abortable EXCEPT ![c] = [EndedWith(call, "exhausted") EXCEPT !.told = Attempts]]
              /\ Deafened(c)
         ELSE /\ abortable' = [abortable EXCEPT ![c] = [call EXCEPT !.at = "nap", !.nap = TRUE, !.listens = TRUE]]
              /\ UNCHANGED external

NapEnds(c) ==
    /\ abortable[c].at = "nap"
    /\ abortable' = [abortable EXCEPT ![c] = [@ EXCEPT !.at = "step", !.nap = FALSE, !.listens = FALSE]]
    /\ UNCHANGED external

\* controller.abort: whoever waits is rejected at once, the nap's timer is
\* cleared and a late answer is not listened to.
Aborted(call, reason) ==
    IF call.signal # "live" THEN call
    ELSE LET told == [call EXCEPT !.signal = reason, !.listens = FALSE, !.nap = FALSE] IN
         IF call.at \in {"flight", "nap"} THEN EndedWith(told, reason) ELSE told

TimeoutFires(c) ==
    /\ abortable[c].timer = "set"
    /\ LET call == Aborted([abortable[c] EXCEPT !.timer = "none"], "timeout") IN
         /\ abortable' = [abortable EXCEPT ![c] = call]
         /\ IF call.at = "done" THEN Deafened(c) ELSE UNCHANGED external

\* The application aborts its signal: each listener runs once.
ExternalAbort ==
    /\ ~external.aborted /\ external' = [aborted |-> TRUE, listeners |-> {}]
    /\ abortable' = [c \in Calls |->
         IF c \in external.listeners THEN Aborted(abortable[c], "aborted") ELSE abortable[c]]

AbortNext ==
    \/ ExternalAbort
    \/ \E c \in Calls :
         \/ \E withSignal, timeout \in BOOLEAN : RunCall(c, withSignal, timeout)
         \/ \E retryable \in BOOLEAN : AttemptFails(c, retryable)
         \/ Refuse(c) \/ BeginWork(c) \/ Arrives(c) \/ NapEnds(c) \/ TimeoutFires(c)

AbortSpec == AbortInit /\ [][AbortNext]_abortVars

-----------------------------------------------------------------------------

\* The invariants abort.ts lists, over calls that share a signal: nobody waits
\* for the network or a nap once aborted; no request is begun after an abort;
\* the error tells whether the call's own timeout came first; no timer and no
\* listener outlives its call, and none is missing while it runs.
CancellationIsClean ==
    /\ \A c \in Calls :
         LET call == abortable[c] IN
         /\ call.signal # "live" => call.at \in {"step", "done"} /\ call.late = 0
         /\ call.outcome \in {"aborted", "timeout"} => call.outcome = call.signal
         /\ call.outcome = "ok" => call.begun = call.failed + Works /\ call.signal = "live"
         /\ call.at = "done" =>
              c \notin external.listeners /\ call.timer = "none" /\ ~call.nap /\ ~call.listens
         /\ call.at \in {"flight", "nap"} => call.listens
         /\ call.nap <=> call.at = "nap"
    /\ external.aborted => external.listeners = {}

\* A call begins a work at most as often as the policy says, and reports no
\* fewer attempts than it made.
AttemptsAreBounded ==
    \A c \in Calls :
        LET call == abortable[c] IN
        /\ call.begun <= call.work * Attempts
        /\ call.outcome = "exhausted" => call.told >= call.tries /\ call.failed >= call.tries
=============================================================================
