------------------------------ MODULE AgentApi ------------------------------
(***************************************************************************)
(* The calls of one StellarAgent (agent/StellarAgent.ts) with the work its *)
(* modules mutations.ts and queries.ts do for them.  Calls run             *)
(* concurrently: the agent's fields are read when a call begins and        *)
(* written when it resolves, and ledgers close and prices move in between. *)
(*                                                                         *)
(* runInvocation is what module Fleet shows of it: the contract call is    *)
(* executed at most once; a success was executed; a call that ends in an   *)
(* error may have been executed, or may still be.  The contracts keep the  *)
(* part of their state these calls depend on.                              *)
(***************************************************************************)
EXTENDS Integers, Sequences, FiniteSets

CONSTANTS
    Apps,            \* the callers; each makes one call
    Scale,           \* base units of one unit of an asset (STROOP_SCALE)
    Price,           \* units of the payee's asset that a payment may buy
    SlippageBps,     \* defaultSlippageToleranceBps
    QuoteValidity,   \* quoteValidityLedgers
    Offset,          \* deadlineLedgers
    Limit, Period,   \* of every channel: base units per ledgers
    LastLedger       \* bound: no ledger closes after it

\* What the agents are configured with.
SoundAgents ==
    /\ Scale \in Nat \ {0} /\ Price \subseteq Nat
    /\ SlippageBps \in 0..10000 /\ QuoteValidity \in Nat /\ Offset \in Nat

VARIABLES
    activeChannelId, \* the agent's field, 0 for undefined
    call,            \* the call of each application
    opened, closed,  \* history: channels of resolved openChannel/closeChannel
    quotes,          \* the PaymentQuotes applications hold
    channels,        \* PaymentChannel: the agent's channels
    jobs,            \* Escrow: the agent's jobs
    price, now       \* what a payment buys, and the current ledger

agentVars == <<activeChannelId, call, opened, closed, quotes>>
worldVars == <<channels, jobs, price, now>>
apiVars == <<agentVars, worldVars>>

Amount == 1          \* of every payment, in units
NoQuote == [expected |-> 0, minimum |-> 0, at |-> 0, until |-> 0]
NewCall == [op |-> "none", at |-> "new", id |-> 0, ledger |-> 0, floor |-> 0,
            quote |-> NoQuote, value |-> <<>>, tx |-> "none", result |-> "none"]

ApiInit ==
    /\ activeChannelId = 0 /\ opened = <<>> /\ closed = {} /\ quotes = {}
    /\ call = [c \in Apps |-> NewCall]
    /\ channels = <<>> /\ jobs = <<>>
    /\ price \in Price /\ now = 0

Set(c, changes) ==
    call' = [call EXCEPT ![c] =
               [f \in DOMAIN @ |-> IF f \in DOMAIN changes THEN changes[f] ELSE @[f]]]
Reject(c, code) == Set(c, [at |-> "done", result |-> code])
InCall(c, op, at) == call[c].op = op /\ call[c].at = at
OwnFields == UNCHANGED <<activeChannelId, opened, closed, quotes>>

-----------------------------------------------------------------------------

\* closeChannel(channelId = this.activeChannelId), and likewise the others.
ChannelOr(id) == IF id # 0 THEN id ELSE activeChannelId

Begin(c, op, at, id) ==
    /\ call[c].at = "new"
    /\ IF op \in {"close", "pay", "route", "report"} /\ ChannelOr(id) = 0
       THEN Set(c, [op |-> op, at |-> "done", result |-> "NO_ACTIVE_CHANNEL"])
       ELSE Set(c, [op |-> op, at |-> at, id |-> ChannelOr(id)])
    /\ OwnFields /\ UNCHANGED worldVars

OpenChannel(c) == Begin(c, "open", "invoke", 0)
CloseChannel(c, id) == Begin(c, "close", "invoke", id)

\* payForAPI without a route, or through one: then the ledger is read first.
PayForAPI(c, id) == Begin(c, "pay", "invoke", id)

PayRouted(c, id, minReceived) ==
    /\ call[c].at = "new" /\ ChannelOr(id) # 0
    /\ Set(c, [op |-> "route", at |-> "latest", id |-> ChannelOr(id),
               floor |-> minReceived])
    /\ OwnFields /\ UNCHANGED worldVars

Quote(c) == Begin(c, "quote", "latest", 0)
RequestWork(c) == Begin(c, "job", "latest", 0)
GetSpendReport(c, id) == Begin(c, "report", "get_channel", id)

\* A failed RPC request or a refused simulation: nothing was sent.
Fails(c) ==
    /\ call[c].at \notin {"new", "done"}
    /\ Reject(c, "NETWORK_ERROR")
    /\ OwnFields /\ UNCHANGED worldVars

-----------------------------------------------------------------------------

\* RoutePlanner: finishQuote's slippage floor and expiry.
Floor(expected) == (expected * Scale * (10000 - SlippageBps)) \div 10000

FinishQuote(expected, until, ledger) ==
    LET default == ledger + QuoteValidity
    IN [expected |-> expected, minimum |-> Floor(expected), at |-> ledger,
        until |-> IF until # 0 /\ until < default THEN until ELSE default]

GetLatestLedger(c) ==
    /\ \E op \in {"route", "quote", "job"} : InCall(c, op, "latest")
    /\ IF call[c].op = "job"
       THEN Set(c, [at |-> "invoke", ledger |-> now + Offset])
       ELSE Set(c, [at |-> "planning", ledger |-> now])
    /\ OwnFields /\ UNCHANGED worldVars

\* The caller's minReceived is forgotten.
MutantWithFloor(q, floor) == IF floor < 0 THEN [q EXCEPT !.minimum = floor] ELSE q

\* A minReceived above the quote's minimum replaces it.
WithFloor(q, floor) ==
    IF floor * Scale > q.minimum THEN [q EXCEPT !.minimum = floor * Scale] ELSE q

Execute(c, q) == Set(c, [at |-> "invoke", quote |-> WithFloor(q, call[c].floor)])

\* The planner discovers a route, at the prices of this moment.
PlanRoute(c) ==
    /\ InCall(c, "route", "planning")
    /\ Execute(c, FinishQuote(price, 0, call[c].ledger))
    /\ OwnFields /\ UNCHANGED worldVars

\* The caller names the route, with the output and expiry the caller claims.
OverrideRoute(c, expected, until) ==
    /\ InCall(c, "route", "planning")
    /\ IF until # 0 /\ until < call[c].ledger THEN Reject(c, "QUOTE_EXPIRED")
       ELSE Execute(c, FinishQuote(expected, until, call[c].ledger))
    /\ OwnFields /\ UNCHANGED worldVars

\* The caller supplies a PaymentQuote, as quote() returned it or not: its
\* route is validated like an override, its expiry and its floor as well.
ReviewedQuote(c, q) ==
    /\ InCall(c, "route", "planning")
    /\ IF q.until < call[c].ledger THEN Reject(c, "QUOTE_EXPIRED")
       ELSE IF q.minimum < FinishQuote(q.expected, q.until, call[c].ledger).minimum
       THEN Reject(c, "INVALID_ROUTE_OVERRIDE")
       ELSE Execute(c, q)
    /\ OwnFields /\ UNCHANGED worldVars

QuoteFound(c) ==
    /\ InCall(c, "quote", "planning")
    /\ quotes' = quotes \cup {FinishQuote(price, 0, call[c].ledger)}
    /\ Reject(c, "success")
    /\ UNCHANGED <<activeChannelId, opened, closed, worldVars>>

-----------------------------------------------------------------------------

\* get_channel, then remaining_this_period, each a simulation of its moment.
ReadChannel(c) ==
    /\ InCall(c, "report", "get_channel") /\ call[c].id <= Len(channels)
    /\ Set(c, [at |-> "remaining", value |-> channels[call[c].id]])
    /\ OwnFields /\ UNCHANGED worldVars

ReadRemaining(c) ==
    /\ InCall(c, "report", "remaining")
    /\ LET channel == channels[call[c].id]
           report == [spent |-> call[c].value.spent, remaining |-> Limit - channel.spent,
                      start |-> call[c].value.start, ledger |-> now]
       IN Set(c, [at |-> "done", result |-> "success", value |-> report])
    /\ OwnFields /\ UNCHANGED worldVars

\* predictPayment reads the channel, the rate limit and the ledger at once:
\* the channel's amounts are base units, the caller's amount is not.  A
\* configured rate limit lacks the buckets predictPaymentOutcome sums up.
Rolled(channel) == now >= channel.start + Period
Predict(c, id, configured) ==
    /\ call[c].at = "new"
    /\ ChannelOr(id) \in 1..Len(channels)
    /\ LET channel == channels[ChannelOr(id)]
           spent == IF Rolled(channel) THEN 0 ELSE channel.spent
           allowed == channel.open /\ spent + Amount <= Limit
       IN IF configured
          THEN Set(c, [op |-> "predict", at |-> "done", result |-> "TypeError"])
          ELSE Set(c, [op |-> "predict", at |-> "done", id |-> ChannelOr(id),
                       result |-> "success",
                       value |-> [allowed |-> allowed, channel |-> channel, ledger |-> now]])
    /\ OwnFields /\ UNCHANGED worldVars

-----------------------------------------------------------------------------

\* pay, pay_with_route: the period rolls over, the limit holds.
Spends(id) ==
    LET channel == channels[id]
        rolled == [channel EXCEPT !.spent = IF Rolled(channel) THEN 0 ELSE @,
                                  !.start = IF Rolled(channel) THEN now ELSE @]
        paid == [rolled EXCEPT !.spent = @ + Amount * Scale]
    IN /\ channel.open /\ paid.spent <= Limit
       /\ channels' = [channels EXCEPT ![id] = paid]

Includable(c) == call[c].tx = "sent" \/ (call[c].at = "invoke" /\ call[c].tx = "none")

\* The transaction of the call is executed; value is what it returns.
Executed(c, value) ==
    /\ Set(c, [tx |-> "executed", value |-> value])
    /\ OwnFields /\ UNCHANGED <<price, now>>

ExecuteOpen(c) ==
    /\ call[c].op = "open" /\ Includable(c)
    /\ channels' = Append(channels, [open |-> TRUE, spent |-> 0, start |-> now])
    /\ Executed(c, <<Len(channels) + 1>>) /\ UNCHANGED jobs

ExecuteClose(c) ==
    /\ call[c].op = "close" /\ Includable(c) /\ call[c].id <= Len(channels)
    /\ channels[call[c].id].open
    /\ channels' = [channels EXCEPT ![call[c].id].open = FALSE]
    /\ Executed(c, <<>>) /\ UNCHANGED jobs

ExecutePay(c) ==
    /\ call[c].op = "pay" /\ Includable(c) /\ call[c].id <= Len(channels)
    /\ Spends(call[c].id)
    /\ Executed(c, <<>>) /\ UNCHANGED jobs

ExecuteRoute(c) ==
    /\ call[c].op = "route" /\ Includable(c) /\ call[c].id <= Len(channels)
    /\ now <= call[c].quote.until /\ price * Scale >= call[c].quote.minimum
    /\ Spends(call[c].id)
    /\ Executed(c, [received |-> price, ledger |-> now]) /\ UNCHANGED jobs

ExecuteJob(c) ==
    /\ call[c].op = "job" /\ Includable(c) /\ call[c].ledger > now
    /\ jobs' = Append(jobs, [deadline |-> call[c].ledger, created |-> now])
    /\ Executed(c, <<Len(jobs) + 1>>) /\ UNCHANGED channels

\* Closing any channel leaves the agent without one.
MutantResolve(c) ==
    /\ call[c].at = "invoke" /\ call[c].tx = "executed"
    /\ Reject(c, "success")
    /\ CASE call[c].op = "open" ->
              /\ activeChannelId' = call[c].value[1]
              /\ opened' = Append(opened, call[c].value[1]) /\ UNCHANGED closed
         [] call[c].op = "close" ->
              activeChannelId' = 0 /\ closed' = closed \cup {call[c].id} /\ UNCHANGED opened
         [] OTHER -> UNCHANGED <<activeChannelId, opened, closed>>
    /\ UNCHANGED <<quotes, worldVars>>

\* The call resolves; openChannel and closeChannel write the agent's field.
Resolve(c) ==
    /\ call[c].at = "invoke" /\ call[c].tx = "executed"
    /\ Reject(c, "success")
    /\ LET id == call[c].id IN
       CASE call[c].op = "open" ->
              /\ activeChannelId' = call[c].value[1]
              /\ opened' = Append(opened, call[c].value[1]) /\ UNCHANGED closed
         [] call[c].op = "close" ->
              /\ activeChannelId' = IF activeChannelId = id THEN 0 ELSE activeChannelId
              /\ closed' = closed \cup {id} /\ UNCHANGED opened
         [] OTHER -> UNCHANGED <<activeChannelId, opened, closed>>
    /\ UNCHANGED <<quotes, worldVars>>

\* The call ends with a timeout or a lost connection while its transaction
\* is pending or executed.
TimesOut(c) ==
    /\ call[c].at = "invoke"
    /\ Set(c, [at |-> "done", result |-> "TRANSACTION_TIMEOUT",
               tx |-> IF call[c].tx = "none" THEN "sent" ELSE call[c].tx])
    /\ OwnFields /\ UNCHANGED worldVars

CloseLedger ==
    /\ now < LastLedger /\ now' = now + 1
    /\ price' \in Price
    /\ UNCHANGED <<agentVars, channels, jobs>>

Ids == 0..Len(channels)
ApiStep(c) ==
    \/ GetLatestLedger(c) \/ PlanRoute(c) \/ QuoteFound(c)
    \/ ReadChannel(c) \/ ReadRemaining(c)
    \/ \E q \in quotes : ReviewedQuote(c, q) \/ ReviewedQuote(c, [q EXCEPT !.minimum = @ - 1])
    \/ \E expected \in Price, until \in {0, now} : OverrideRoute(c, expected, until)
    \/ Resolve(c) \/ Fails(c) \/ TimesOut(c)

Transaction(c) ==
    ExecuteOpen(c) \/ ExecuteClose(c) \/ ExecutePay(c) \/ ExecuteRoute(c) \/ ExecuteJob(c)

Ask(c) ==
    \/ OpenChannel(c) \/ Quote(c) \/ RequestWork(c)
    \/ \E id \in Ids :
         \/ CloseChannel(c, id) \/ PayForAPI(c, id) \/ GetSpendReport(c, id)
         \/ \E least \in Price \cup {0} : PayRouted(c, id, least)
         \/ \E configured \in BOOLEAN : Predict(c, id, configured)

ApiNext == CloseLedger \/ \E c \in Apps : Ask(c) \/ ApiStep(c) \/ Transaction(c)

ApiSpec == ApiInit /\ [][ApiNext]_apiVars

-----------------------------------------------------------------------------

(***************************************************************************)
(* The active channel is the one whose openChannel resolved last, unless   *)
(* that one was closed through the agent: overlapping opens and closes of  *)
(* other channels never take it away.                                      *)
(***************************************************************************)
ActiveIsLatest ==
    LET latest == opened[Len(opened)] IN
    IF opened = <<>> THEN activeChannelId = 0
    ELSE activeChannelId = latest \/ (activeChannelId = 0 /\ latest \in closed)

(***************************************************************************)
(* Every executed payment through a route kept all the terms it was        *)
(* agreed on: the caller's minimum, the slippage below what its quote      *)
(* promised, and the ledgers the quote was valid for; and every job that   *)
(* was created still has time, no more than was asked for.                 *)
(***************************************************************************)
TermsAreKept ==
    /\ \A i \in DOMAIN jobs : jobs[i].deadline - jobs[i].created \in 1..Offset
    /\ \A c \in Apps :
         call[c].op = "route" /\ call[c].tx = "executed" =>
           LET q == call[c].quote IN
           /\ call[c].value.received >= call[c].floor
           /\ call[c].value.received * Scale >= Floor(q.expected)
           /\ call[c].value.ledger <= q.at + QuoteValidity

(***************************************************************************)
(* "Get spend report for the current period": what is reported as spent    *)
(* was spent in the period of the ledger in which the report was made.     *)
(***************************************************************************)
ReportIsCurrent ==
    \A c \in Apps :
      call[c].op = "report" /\ call[c].result = "success" =>
        LET r == call[c].value IN
        r.spent > 0 => r.ledger < r.start + Period

(***************************************************************************)
(* predictPayment returns "whether the payment would block and why": while *)
(* the ledger and the channel are as they were read, a payment predicted   *)
(* to pass keeps the channel's limit.                                      *)
(***************************************************************************)
PredictionIsRight ==
    \A c \in Apps :
      call[c].op = "predict" /\ call[c].result = "success" =>
        LET v == call[c].value IN
        v.allowed =>
          (IF v.ledger >= v.channel.start + Period THEN 0 ELSE v.channel.spent)
            + Amount * Scale <= Limit
=============================================================================
