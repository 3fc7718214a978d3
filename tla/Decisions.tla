----------------------------- MODULE Decisions -----------------------------
(***************************************************************************)
(* The decisions of the core SDK on every small input: a quote for a       *)
(* payment (module Routing), a ranking of bids and its attestation, the    *)
(* prediction of a payment and an estimate of ledger times (math/).        *)
(* A behaviour asks one question; the answer is kept with it.              *)
(*                                                                         *)
(* Decimals are integers over a scale.  A digest stands for what is        *)
(* hashed, a signature for its key and what is signed.                     *)
(***************************************************************************)
EXTENDS Routing

CONSTANTS
    DivScale,         \* digits a division keeps (10^18)
    ScoreScale,       \* digits a score keeps (10^4)
    Ttl,              \* lifetime of an attestation (300 s)
    Pairs,          \* the pairs of the AMM venue, in its order
    Rates,          \* what a pair may give for 100 units, 0 if nothing
    PathOffers,     \* what the path-payment service may return
    CustomOffers,   \* what a caller's own provider may return
    Destinations, Allowances, HopLimits, CandidateLimits, Oracles,
    Bids, Weightings, Delays,
    ChannelStates, LimitStates, ProposedAmounts, Ledgers,
    Samples

-----------------------------------------------------------------------------
(* fixed-point.ts.  A decimal amount is an integer over DivScale.          *)

Clamp(v, least, most) == IF v < least THEN least ELSE IF v > most THEN most ELSE v

-----------------------------------------------------------------------------
(* bid.ts.  weights: percentages of price, reputation, latency and         *)
(* reliability; the rate of success is a percentage, too.                  *)

Largest(S) == CHOOSE m \in S : \A v \in S : v <= m
WeightsAreValid(w) == w.price + w.reputation + w.latency + w.reliability = 100

\* 100 * (1 - value / most), over DivScale; the division rounds down.
Cheapness(value, most) ==
    IF most = 0 THEN 100 * DivScale
    ELSE Clamp(100 * (DivScale - (value * DivScale) \div most), 0, 100 * DivScale)

ScoreBid(bid, maxBid, maxLatency, w) ==
    LET composite ==
          w.price * Cheapness(bid.price, maxBid)
          + w.reputation * Clamp(bid.reputation, 0, 100) * DivScale
          + w.latency * Cheapness(bid.latency, maxLatency)
          + w.reliability * Clamp(bid.rate, 0, 100) * DivScale
    IN [agent |-> bid.agent, score |-> (composite * ScoreScale) \div (100 * DivScale)]

\* Highest score first, ties by address.
RankBids(bids, w) ==
    LET prices == {bids[i].price : i \in DOMAIN bids}
        latencies == {bids[i].latency : i \in DOMAIN bids}
    IN IF bids = <<>> THEN <<>>
       ELSE SortSeq([i \in DOMAIN bids |->
                       ScoreBid(bids[i], Largest(prices), Largest(latencies), w)],
                    LAMBDA a, b : a.score > b.score \/ (a.score = b.score /\ a.agent < b.agent))

IsWithinSpendLimit(spent, limit, proposed) == spent + proposed <= limit

-----------------------------------------------------------------------------
(* attestation.ts                                                          *)

\* Bids are hashed in the order of their addresses, the result in its own.
Digest(bids, w, result) ==
    [bids |-> SortSeq(bids, LAMBDA a, b : a.agent < b.agent), weights |-> w, result |-> result]

Sign(header, key) == [header |-> header, signature |-> [key |-> key, over |-> header]]

AttestRankBids(bids, w, key, epoch, now) ==
    LET result == RankBids(bids, w)
    IN [result |-> result,
        attestation |-> Sign([epoch |-> epoch, key |-> key, weights |-> w, issuedAt |-> now,
                              expiresAt |-> now + Ttl, digest |-> Digest(bids, w, result)], key)]

\* directory: a sequence of [epoch, key, from, until].
VerifyBidAttestation(bids, result, a, directory, now) ==
    LET known == {i \in DOMAIN directory : directory[i].epoch = a.header.epoch}
        record == directory[CHOOSE i \in known : \A j \in known : i <= j]
    IN /\ known # {}
       /\ record.key = a.header.key
       /\ a.header.issuedAt >= record.from /\ a.header.issuedAt <= record.until
       /\ a.header.expiresAt >= now
       /\ a.signature = [key |-> a.header.key, over |-> a.header]
       /\ a.header.digest = Digest(bids, a.header.weights, result)
       /\ WeightsAreValid(a.header.weights)
       /\ RankBids(bids, a.header.weights) = result

-----------------------------------------------------------------------------
(* predict.ts                                                              *)

IsWindowExpired(start, length, ledger) == ledger >= start + length

\* What the buckets that still reach into the trailing window hold.
SumLiveBuckets(buckets, start, length, ledger) ==
    LET size == length \div Len(buckets)
    IN FoldFunctionOnSet(LAMBDA x, y : x + y, 0, buckets,
         {i \in DOMAIN buckets : ~IsWindowExpired(start + (i - 1) * size, length, ledger)})

\* channel and limit are None when they do not apply.
None == [none |-> TRUE]
PredictPaymentOutcome(channel, limit, amount, ledger) ==
    LET spent == IF IsWindowExpired(channel.start, channel.period, ledger) THEN 0
                 ELSE channel.spent
        Live(buckets, start, length) == SumLiveBuckets(buckets, start, length, ledger)
        When(condition, reason) == IF condition THEN {reason} ELSE {}
    IN When(amount <= 0, "invalid_amount")
       \cup (IF channel = None THEN {}
             ELSE IF ~channel.active THEN {"channel_inactive"}
             ELSE When(~IsWithinSpendLimit(spent, channel.limit, amount), "channel_spend_limit"))
       \cup (IF limit = None THEN {}
             ELSE When(amount > limit.maxPerTx, "rate_limit_per_tx")
                  \cup When(Live(limit.hourly, limit.hourStart, limit.hour) + amount
                              > limit.maxPerHour, "rate_limit_hourly")
                  \cup When(Live(limit.daily, limit.dayStart, limit.day) + amount
                              > limit.maxPerDay, "rate_limit_daily")
                  \cup When(Live(limit.txs, limit.hourStart, limit.hour)
                              >= limit.maxTxs, "rate_limit_tx_count"))

-----------------------------------------------------------------------------
(* ledgerTime.ts: samples is a sequence of [sequence, at]; the estimate is *)
(* a fraction [seconds, ledgers], or the fallback of 5 seconds.            *)

EstimateLedgerClose(samples) ==
    LET s == SortSeq(samples, LAMBDA a, b : a.sequence < b.sequence)
        used == {i \in 2..Len(s) : s[i].sequence > s[i - 1].sequence /\ s[i].at >= s[i - 1].at}
        Over(F(_)) == FoldFunctionOnSet(LAMBDA x, y : x + y, 0,
                        [i \in used |-> F(s[i]) - F(s[i - 1])], used)
    IN IF used = {} THEN [seconds |-> 5, ledgers |-> 1]
       ELSE [seconds |-> Over(LAMBDA e : e.at), ledgers |-> Over(LAMBDA e : e.sequence)]

LedgerCloseEstimate(samples) ==
    [currentLedger |-> Largest({samples[i].sequence : i \in DOMAIN samples}),
     average |-> EstimateLedgerClose(samples), observed |-> Len(samples) >= 2]

-----------------------------------------------------------------------------
VARIABLE case
caseVars == <<case>>

NoCase == [kind |-> "none"]
CasesInit == case = NoCase

AskQuote ==
    \E rates \in [DOMAIN Pairs -> Rates], path \in PathOffers, custom \in CustomOffers,
       to \in Destinations, allowed \in Allowances, maxHops \in HopLimits,
       most \in CandidateLimits, oracle \in Oracles :
        LET request == [from |-> 1, to |-> to, amount |-> 1000, allowed |-> allowed]
            proposals == <<Direct(request), Amm(request, Pairs, rates, maxHops, most),
                           PathPayment(request, path, maxHops, most), custom>>
        IN case' = [kind |-> "quote", request |-> request, rates |-> rates,
                    proposals |-> proposals, oracle |-> oracle, maxHops |-> maxHops,
                    most |-> most,
                    quote |-> PlanQuote(request, proposals, oracle, 10, maxHops, most)]

AskRanking ==
    \E bids \in Bids, w \in Weightings :
        case' = [kind |-> "ranking", bids |-> bids, w |-> w, result |-> RankBids(bids, w)]

AskPrediction ==
    \E channel \in {None} \cup ChannelStates, limit \in {None} \cup LimitStates,
       amount \in ProposedAmounts, ledger \in Ledgers :
        /\ None \in {channel, limit}
        /\ case' = [kind |-> "prediction", channel |-> channel, limit |-> limit,
                    amount |-> amount, ledger |-> ledger,
                    reasons |-> PredictPaymentOutcome(channel, limit, amount, ledger)]

AskLedgerTime ==
    \E samples \in Samples :
        case' = [kind |-> "time", samples |-> samples,
                 estimate |-> LedgerCloseEstimate(samples)]

CaseNext == case = NoCase /\ (AskQuote \/ AskRanking \/ AskPrediction \/ AskLedgerTime)

-----------------------------------------------------------------------------
(* Quotes.                                                                 *)

Offers(c) == Candidates(c.request, c.proposals, c.oracle, c.maxHops, c.most)

\* The paths from the asset to be paid with to the one to be received, over
\* pairs that have a quote, found by enumeration and not by search.
SimplePaths(c) ==
    LET maxLength == c.maxHops + 1
        Steps(p) == \A i \in 2..Len(p) : \E k \in DOMAIN Pairs :
                        Pairs[k] = <<p[i - 1], p[i]>> /\ c.rates[k] # 0
    IN {p \in UNION {[1..n -> 1..4] : n \in 2..maxLength} :
          /\ p[1] = c.request.from /\ p[Len(p)] = c.request.to
          /\ IsInjective(p) /\ Steps(p)
          /\ \A i \in 2..(Len(p) - 1) : Allows(c.request, p[i])}

\* The search of the AMM venue proposes every simple path within the hop
\* limit and no other, once each, unless it was cut at its limit
\* (routing/providers.ts, AmmRouteProvider).
WalkIsComplete ==
    case.kind = "quote" =>
        LET found == Field(case.proposals[2], LAMBDA hops : Assets(case.request, hops))
        IN /\ IsInjective(found)
           /\ ToSet(found) \subseteq SimplePaths(case)
           /\ Len(found) < case.most => ToSet(found) = SimplePaths(case)

\* A quoted route can be walked: its hops are connected, carry the amount
\* from one to the next, visit no asset twice and only allowed ones between,
\* stay within the hop limit, and the quote promises no more than the route
\* is expected to give, nor for longer than its reference price is valid
\* (routing/discovery.ts, normalizeRoute; routing/planner.ts, finishQuote).
RouteIsExecutable ==
    case.kind = "quote" /\ case.quote.error = "none" =>
        LET q == case.quote
            hops == q.route.hops
        IN /\ hops[1].from = case.request.from /\ hops[1].in = case.request.amount
           /\ hops[Len(hops)].to = case.request.to
           /\ hops[Len(hops)].out = q.route.expected
           /\ \A i \in 2..Len(hops) :
                hops[i].from = hops[i - 1].to /\ hops[i].in = hops[i - 1].out
           /\ Depth(hops) <= case.maxHops
           /\ LET assets == Assets(case.request, hops)
              IN Cardinality(ToSet(assets)) = Len(assets)
                 /\ ToSet(assets) \ {case.request.from, case.request.to} \subseteq case.request.allowed
           /\ q.minimum <= q.route.expected
           /\ q.until <= 10 + ValidityLedgers /\ q.until <= case.oracle.expires

\* The quote is for the best route: no other usable candidate ranks before
\* it, unless the same route was also offered with a better output, and
\* there is a quote whenever some route is eligible.  Discovery keeps the
\* first candidates by identifier, so this is so while all of them fit
\* (routing/planner.ts, quote).
BestRouteWins ==
    case.kind = "quote" /\ Cardinality(ToSet(Field(Offers(case), LAMBDA r : r.id))) <= case.most =>
        LET offers == ToSet(Offers(case))
            Standing(r) ==
                /\ Eligible(r) /\ r.expires >= 10
                /\ ~\E s \in offers : s.id = r.id /\ BetterQuote(s, r)
        IN \A r \in offers : Standing(r) =>
             /\ case.quote.error = "none"
             /\ ~RanksBefore(r, case.quote.route)

\* A quote is accepted by the payment it was made for at any ledger up to
\* its validity, and never after (StellarAgent.ts, payForAPI with a quote;
\* routing/planner.ts, quoteOverride).
QuoteSurvivesReview ==
    case.kind = "quote" /\ case.quote.error = "none" =>
        \A l \in 10..(11 + ValidityLedgers) :
            Review(case.request, case.quote, l)
              = IF l <= case.quote.until THEN "accepted" ELSE "QUOTE_EXPIRED"

-----------------------------------------------------------------------------
(* Bids.                                                                   *)

Permuted(s) == {[i \in DOMAIN s |-> s[p[i]]] : p \in SetToSeqs(DOMAIN s)}
NoWorse(a, b) ==
    a.price <= b.price /\ a.reputation >= b.reputation /\ a.latency <= b.latency
    /\ a.rate >= b.rate

\* A ranking does not depend on the order the bids came in, ranks every
\* bidder once, scores within 0 and 100, and never puts a bid before one
\* that is as good in every respect and cheaper, faster or better reputed,
\* unless their scores are equal (math/bid.ts, rankBids).
RankingIsFair ==
    case.kind = "ranking" =>
        LET r == case.result
            Score4(agent) == r[CHOOSE i \in DOMAIN r : r[i].agent = agent].score
        IN /\ \A bids \in Permuted(case.bids) : RankBids(bids, case.w) = r
           /\ {r[i].agent : i \in DOMAIN r} = {case.bids[i].agent : i \in DOMAIN case.bids}
           /\ \A i \in DOMAIN r : r[i].score \in 0..(100 * ScoreScale)
           /\ \A i, j \in DOMAIN case.bids :
                NoWorse(case.bids[i], case.bids[j])
                  => Score4(case.bids[i].agent) >= Score4(case.bids[j].agent)

\* An attestation verifies while it lives if its key was the epoch's when it
\* was issued, whatever the order the bids are presented in, and with one
\* bid, the weights' epoch, the order of the result or the signer changed it
\* does not (math/attestation.ts, verifyBidAttestation).
AttestationBindsRanking ==
    case.kind = "ranking" =>
        LET made == AttestRankBids(case.bids, case.w, "key", 1, 5)
            directory == <<[epoch |-> 2, key |-> "next", from |-> 6, until |-> 99],
                           [epoch |-> 1, key |-> "key", from |-> 0, until |-> 5]>>
            Verifies(bids, result, a, now) == VerifyBidAttestation(bids, result, a, directory, now)
            a == made.attestation
            n == Len(case.bids)
        IN /\ \A delay \in Delays : \A bids \in Permuted(case.bids) :
                Verifies(bids, made.result, a, 5 + delay) <=> delay <= Ttl
           /\ n > 0 => ~Verifies([case.bids EXCEPT ![n].price = @ + 1], made.result, a, 5)
           /\ n > 1 => ~Verifies(case.bids, Reverse(made.result), a, 5)
           /\ ~Verifies(case.bids, made.result, [a EXCEPT !.header.epoch = 2], 5)
           /\ ~Verifies(case.bids, made.result,
                        AttestRankBids(case.bids, case.w, "key", 1, 6).attestation, 6)
           /\ ~Verifies(case.bids, made.result,
                        AttestRankBids(case.bids, case.w, "stolen", 1, 5).attestation, 5)

-----------------------------------------------------------------------------
(* Predictions.                                                            *)

\* PaymentChannel::pay, as far as the channel's own record decides.
ContractRefuses(channel, amount, ledger) ==
    \/ amount <= 0 \/ ~channel.active
    \/ LET spent == IF ledger >= channel.start + channel.period THEN 0 ELSE channel.spent
       IN spent + amount > channel.limit

\* On a channel's own record, in its own units, the prediction blocks the
\* payments the contract refuses for its limit, and no other, at either side
\* of the end of a period; and under a channel's or a rate limiter's record,
\* whose buckets leave the window one by one, what is allowed now is allowed
\* later and in smaller parts (math/predict.ts, predictPaymentOutcome).
PredictionMatchesContract ==
    case.kind = "prediction" =>
        /\ case.channel # None =>
             (case.reasons # {}) = ContractRefuses(case.channel, case.amount, case.ledger)
        /\ \A later \in Ledgers, less \in ProposedAmounts :
             (later >= case.ledger /\ less \in 1..case.amount) =>
               PredictPaymentOutcome(case.channel, case.limit, less, later)
                 \subseteq case.reasons

\* The average close time of samples that only go forward is that between
\* the first and the last, in whatever order they came; stalled or reordered
\* samples never make it negative (ledgerTime.ts, estimateLedgerClose).
EstimateIsMean ==
    case.kind = "time" =>
        LET s == case.samples
            mean == case.estimate.average
            forward == \A i, j \in DOMAIN s : s[i].sequence < s[j].sequence => s[i].at <= s[j].at
            seqs == {s[i].sequence : i \in DOMAIN s}
            AtSeq(q) == s[CHOOSE i \in DOMAIN s : s[i].sequence = q].at
            high == Largest(seqs)
            low == CHOOSE m \in seqs : \A v \in seqs : m <= v
        IN /\ mean.seconds >= 0 /\ mean.ledgers > 0
           /\ (forward /\ Cardinality(seqs) = Len(s) /\ Len(s) > 1)
                => mean = [seconds |-> AtSeq(high) - AtSeq(low), ledgers |-> high - low]
=============================================================================
