-------------------------------- MODULE Tools --------------------------------
(***************************************************************************)
(* The tools an AI agent's framework is given (integrations/): one list of *)
(* handlers behind the MCP server and the LangChain toolkit, a policy that *)
(* judges payments before they are submitted and remembers what was paid,  *)
(* and the registry of payment traces (core/telemetry/context.ts).         *)
(*                                                                         *)
(* The framework may call a tool before an earlier call has answered.  The *)
(* SDK is external: it submits, then answers or throws, whatever became of *)
(* the transaction.                                                        *)
(***************************************************************************)
EXTENDS Totals

CONSTANTS
    ToolCalls,       \* calls of tools, in any order and at once
    Budget,          \* sessionBudget
    MaxPrice         \* largest amount asked for

VARIABLES
    policy,          \* PolicyConfig: [cap, allowed, dry]
    sessionSpent,
    auditLog,        \* entries, each with its call
    toolCalls,       \* each call's place, request and answer
    landed,          \* calls whose transaction is in the ledger
    traces,          \* [records, index]: byPaymentId and byTxHash
    overlapped       \* a payment was judged while another was at the SDK

toolVars == <<policy, sessionSpent, auditLog, toolCalls, landed, traces, overlapped>>

Recipients == {"known", "stranger"}
Reading == {"stellaragent_channel_status", "stellaragent_rate_limits", "stellaragent_get_job"}
Writing == {"stellaragent_open_channel", "stellaragent_create_job", "stellaragent_accept_job",
            "stellaragent_submit_job_result", "stellaragent_release_job"}
Judged == {"stellaragent_quote", "stellaragent_pay"}
ToolNames == Reading \cup Writing \cup Judged
NoRequest == [amount |-> 0, recipient |-> "known"]
Uncalled == [tool |-> "none", at |-> "new", request |-> NoRequest, answer |-> "none", id |-> <<>>]

ToolsInit ==
    /\ policy \in [cap : {0, 1}, allowed : {{}, {"known"}}, dry : BOOLEAN]     \* 0: no cap
    /\ sessionSpent = 0 /\ auditLog = {}
    /\ toolCalls = [c \in ToolCalls |-> Uncalled]
    /\ landed = {} /\ traces = [records |-> {}, index |-> {}] /\ overlapped = FALSE

-----------------------------------------------------------------------------
(* PaymentPolicy.  No channel or rate limit is given, so that the core's   *)
(* prediction only looks at the amount.                                    *)

MutantReasons(request) ==      \* the budget is compared with what is left over
    {r \in {"invalid_amount"} : request.amount <= 0}
    \cup {r \in {"rate_limit_hourly"} : sessionSpent > Budget}
    \cup {r \in {"rate_limit_per_tx"} : policy.cap > 0 /\ request.amount > policy.cap}
    \cup {r \in {"recipient_not_allowed"} : policy.allowed # {} /\ request.recipient \notin policy.allowed}

Reasons(request) ==
    {r \in {"invalid_amount"} : request.amount <= 0}
    \cup {r \in {"rate_limit_hourly"} : sessionSpent + request.amount > Budget}
    \cup {r \in {"rate_limit_per_tx"} : policy.cap > 0 /\ request.amount > policy.cap}
    \cup {r \in {"recipient_not_allowed"} : policy.allowed # {} /\ request.recipient \notin policy.allowed}

RecordAttempt(c, action, request) ==
    /\ sessionSpent' = IF action = "pay" /\ ~policy.dry THEN sessionSpent + request.amount ELSE sessionSpent
    /\ auditLog' = auditLog \cup {[call |-> c, action |-> action, amount |-> request.amount,
                                   recipient |-> request.recipient, spent |-> sessionSpent']}

-----------------------------------------------------------------------------
(* telemetry/context.ts                                                    *)

Trace(id, hash) == [id |-> id, hash |-> hash]
NoHash == <<>>
RegisterPaymentTrace(id) == [traces EXCEPT !.records = @ \cup {Trace(id, NoHash)}]

\* A hash resolves to the id it was attached to last; an unknown id to nothing.
AttachTransactionHash(known, id, hash) ==
    IF \E t \in known.records : t.id = id
    THEN [records |-> {t \in known.records : t.id # id} \cup {Trace(id, hash)},
          index |-> {t \in known.index : t.hash # hash} \cup {Trace(id, hash)}]
    ELSE known

-----------------------------------------------------------------------------
(* handlers.ts                                                             *)

Answer(c, answer, id) == [toolCalls EXCEPT ![c].at = "answered", ![c].answer = answer, ![c].id = id]
Begin(c, tool, request) == [toolCalls[c] EXCEPT !.tool = tool, !.request = request]
AtSdk == {c \in ToolCalls : toolCalls[c].at = "sdk"}

\* dispatchToolHandler, default
UnknownTool(c) ==
    /\ toolCalls[c].at = "new"
    /\ toolCalls' = Answer(c, "UNKNOWN_TOOL", NoHash)
    /\ UNCHANGED <<policy, sessionSpent, auditLog, landed, traces, overlapped>>

QuotePayment(c, request) ==
    /\ toolCalls[c].at = "new"
    /\ RecordAttempt(c, IF Reasons(request) = {} THEN "quote" ELSE "refused", request)
    /\ toolCalls' = Answer(c, IF Reasons(request) = {} THEN "ok" ELSE "blocked", NoHash)
    /\ UNCHANGED <<policy, landed, traces, overlapped>>

\* payForApi up to its await: refused, traced and recorded in a dry run, or
\* traced and handed to the SDK.
PayForApi(c, request) ==
    /\ toolCalls[c].at = "new"
    /\ \/ /\ Reasons(request) # {}
          /\ RecordAttempt(c, "refused", request)
          /\ toolCalls' = Answer(c, "PAYMENT_REFUSED", NoHash)
          /\ UNCHANGED <<traces, overlapped>>
       \/ /\ Reasons(request) = {} /\ traces' = RegisterPaymentTrace(<<"tool", c>>)
          /\ \/ /\ policy.dry /\ RecordAttempt(c, "pay", request)
                /\ toolCalls' = Answer(c, "ok", <<"tool", c>>) /\ UNCHANGED overlapped
             \/ /\ ~policy.dry
                /\ toolCalls' = [toolCalls EXCEPT ![c] = [Begin(c, "stellaragent_pay", request) EXCEPT !.at = "sdk"]]
                /\ overlapped' = (overlapped \/ \E d \in AtSdk : toolCalls[d].tool = "stellaragent_pay")
                /\ UNCHANGED <<sessionSpent, auditLog>>
    /\ UNCHANGED <<policy, landed>>

\* The other handlers forward their arguments; no policy is asked.
Forward(c, tool) ==
    /\ toolCalls[c].at = "new"
    /\ toolCalls' = [toolCalls EXCEPT ![c] = [Begin(c, tool, NoRequest) EXCEPT !.at = "sdk"]]
    /\ UNCHANGED <<policy, sessionSpent, auditLog, landed, traces, overlapped>>

\* The SDK traces the invocation under an id of its own, and attaches the hash
\* when the transaction is sent.
Submit(c) ==
    /\ toolCalls[c].at = "sdk" /\ toolCalls[c].tool \notin Reading /\ c \notin landed
    /\ landed' = landed \cup {c}
    /\ traces' = AttachTransactionHash(RegisterPaymentTrace(<<"sdk", c>>), <<"sdk", c>>, <<"hash", c>>)
    /\ UNCHANGED <<policy, sessionSpent, auditLog, toolCalls, overlapped>>

MutantLookup(hash, otherwise) == otherwise
LookupPaymentIdByTxHash(hash, otherwise) ==
    LET found == {t \in traces.index : t.hash = hash}
    IN IF found = {} THEN otherwise ELSE (CHOOSE t \in found : TRUE).id

SdkAnswers(c) ==
    LET hash == <<"hash", c>>
        linked == LookupPaymentIdByTxHash(hash, <<"tool", c>>)
    IN
    /\ toolCalls[c].at = "sdk"
    /\ toolCalls[c].tool \in Reading \/ c \in landed
    /\ IF toolCalls[c].tool = "stellaragent_pay"
       THEN /\ RecordAttempt(c, "pay", toolCalls[c].request)
            /\ traces' = AttachTransactionHash(traces, linked, hash)
            /\ toolCalls' = Answer(c, "ok", linked)
       ELSE toolCalls' = Answer(c, "ok", NoHash) /\ UNCHANGED <<sessionSpent, auditLog, traces>>
    /\ UNCHANGED <<policy, landed, overlapped>>

\* Whatever became of the transaction; a payment is then retryable.
SdkThrows(c) ==
    /\ toolCalls[c].at = "sdk"
    /\ toolCalls' = Answer(c, "SDK_ERROR", NoHash)
    /\ UNCHANGED <<policy, sessionSpent, auditLog, landed, traces, overlapped>>

Requests == [amount : 0..MaxPrice, recipient : Recipients]

ToolsNext ==
    \E c \in ToolCalls :
        \/ UnknownTool(c) \/ Submit(c) \/ SdkAnswers(c) \/ SdkThrows(c)
        \/ \E request \in Requests : QuotePayment(c, request) \/ PayForApi(c, request)
        \/ \E tool \in Reading \cup Writing : Forward(c, tool)

ToolsSpec == ToolsInit /\ [][ToolsNext]_toolVars

SoundTools == IsFiniteSet(ToolCalls) /\ {Budget, MaxPrice} \subseteq Nat

-----------------------------------------------------------------------------

Payments(some) == {c \in some : toolCalls[c].tool = "stellaragent_pay"}
Unanswered == {c \in landed : toolCalls[c].answer # "ok"}
PaidAndAnswered ==
    [c \in ToolCalls |-> IF c \in Payments(landed \ Unanswered) THEN toolCalls[c].request.amount ELSE 0]

\* The session's budget, for payments that are asked for one at a time: what
\* the policy remembers is what was paid and answered, it stays within the
\* budget, and the ledger has no more than that and the payments whose answers
\* were lost (policy.ts, "session budget is server-side only").
BudgetIsKept ==
    /\ ~policy.dry => sessionSpent = Total(PaidAndAnswered)
    /\ ~overlapped => sessionSpent <= Budget

\* Every payment in the ledger met the policy, none was made in a dry run, and
\* each one answered is in the audit log.
PaymentsArePermitted ==
    \A c \in Payments(landed) :
        /\ ~policy.dry
        /\ policy.cap > 0 => toolCalls[c].request.amount <= policy.cap
        /\ policy.allowed # {} => toolCalls[c].request.recipient \in policy.allowed
        /\ c \notin Unanswered => \E e \in auditLog : e.call = c /\ e.action = "pay"

\* The id a payment is answered with is the one its transaction resolves to,
\* and the only trace with that transaction, although the tool and the SDK
\* trace the payment under an id each (lookupPaymentIdByTxHash).
TracesResolve ==
    \A c \in ToolCalls :
        toolCalls[c].answer = "ok" /\ c \in Payments(landed) =>
            LET carries(some) == {t \in some : t.hash = <<"hash", c>>}
            IN carries(traces.records) = carries(traces.index)
               /\ carries(traces.index) = {Trace(toolCalls[c].id, <<"hash", c>>)}
=============================================================================
