------------------------------- MODULE Routing -------------------------------
(***************************************************************************)
(* Route discovery, ranking and quoting of the core SDK: the providers     *)
(* propose sequences of hops (routing/providers.ts), discovery normalizes  *)
(* them (routing/discovery.ts), the policy scores them (math/routing.ts)   *)
(* and the planner turns the winner into a quote (routing/planner.ts).     *)
(*                                                                         *)
(* Assets and venues are numbers, amounts are base units and the           *)
(* identifier of a route is the tuple of what its string spells out.       *)
(***************************************************************************)
EXTENDS Integers, Sequences, FiniteSets, SequencesExt

CONSTANTS
    Bps,              \* 10000, the scale of fees, slippage and weights
    Policy,           \* costWeight, slippageWeight, reliabilityWeight,
                      \* hopPenalty, maxSlippageBps, minReliabilityBps
    ValidityLedgers,  \* quoteValidityLedgers
    ToleranceBps      \* slippageToleranceBps

Never == 999999       \* expiresAtLedger undefined

Least(a, b) == IF a < b THEN a ELSE b
Most(a, b) == IF a < b THEN b ELSE a
Field(hops, F(_)) == [i \in DOMAIN hops |-> F(hops[i])]
Sum(s) == FoldSeq(LAMBDA x, y : x + y, 0, s)

Hop(venue, id, from, to, in, out, fee, slip, rel, path) ==
    [venue |-> venue, venueId |-> id, from |-> from, to |-> to, in |-> in,
     out |-> out, fee |-> fee, slip |-> slip, rel |-> rel, path |-> path]

-----------------------------------------------------------------------------
(* What the providers propose.                                             *)

Direct(request) ==
    IF request.from # request.to THEN <<>>
    ELSE <<<<Hop("direct", 0, request.from, request.to, request.amount,
                 request.amount, 0, 0, Bps, <<>>)>>>>

\* All assets are allowed when the request names none.
Allows(request, asset) == asset \in request.allowed

\* Depth-first over the pairs of one venue, in their order.  A pool gives
\* rates[i] for 100 units of the i-th pair, 0 where it has none or fails.
RECURSIVE Walk(_, _, _, _, _, _, _)
Walk(request, pairs, rates, asset, amount, hops, room) ==
    IF room = 0 THEN <<>>
    ELSE FlattenSeq([i \in DOMAIN pairs |->
        LET pair == pairs[i]
            visited == {request.from} \cup {hops[j].to : j \in DOMAIN hops}
            out == (amount * rates[i]) \div 100
            next == Append(hops, Hop("amm", 1, pair[1], pair[2], amount, out,
                                     30, 0, 9500, <<>>))
        IN IF pair[1] # asset \/ pair[2] \in visited \/ out = 0 THEN <<>>
           ELSE IF pair[2] = request.to THEN <<next>>
           ELSE IF ~Allows(request, pair[2]) THEN <<>>
           ELSE Walk(request, pairs, rates, pair[2], out, next, room - 1)])

Prefix(s, n) == SubSeq(s, 1, Least(n, Len(s)))

Amm(request, pairs, rates, maxHops, maxCandidates) ==
    IF request.from = request.to THEN <<>>
    ELSE Prefix(Walk(request, pairs, rates, request.from, request.amount, <<>>, maxHops),
                maxCandidates)

\* candidates: the paths with their output, as the path-payment service
\* returned them.
PathPayment(request, candidates, maxHops, maxCandidates) ==
    IF request.from = request.to THEN <<>>
    ELSE LET short == SelectSeq(candidates, LAMBDA c : Len(c.path) + 1 <= maxHops)
         IN Prefix([i \in DOMAIN short |->
                      <<Hop("path_payment", 2, request.from, request.to, request.amount,
                            short[i].out, 0, 0, 9000, short[i].path)>>], maxCandidates)

-----------------------------------------------------------------------------
(* Discovery.                                                              *)

Depth(hops) == Sum(Field(hops, LAMBDA h : 1 + Len(h.path)))
Identity(hops) == Len(hops) = 1 /\ hops[1].venue = "direct" /\ hops[1].from = hops[1].to
Assets(request, hops) ==
    IF Identity(hops) THEN <<request.from>>
    ELSE <<request.from>> \o FlattenSeq(Field(hops, LAMBDA h : Append(h.path, h.to)))

HopIsValid(h) ==
    /\ h.from # h.to \/ h.venue = "direct"
    /\ {h.fee, h.slip, h.rel} \subseteq 0..Bps
    /\ h.out > 0

\* Nobody looks whether a hop spends what the one before it gave.
MutantNormalizes(request, hops, maxHops) ==
    /\ hops # <<>> /\ Depth(hops) <= maxHops
    /\ \A i \in DOMAIN hops :
         HopIsValid(hops[i]) /\ hops[i].from = (IF i = 1 THEN request.from ELSE hops[i - 1].to)
    /\ IsInjective(Assets(request, hops)) /\ hops[Len(hops)].to = request.to

\* normalizeRoute throws unless all of this holds.
Normalizes(request, hops, maxHops) ==
    /\ hops # <<>> /\ Depth(hops) <= maxHops
    /\ \A i \in DOMAIN hops :
         /\ HopIsValid(hops[i])
         /\ hops[i].from = (IF i = 1 THEN request.from ELSE hops[i - 1].to)
         /\ hops[i].in = (IF i = 1 THEN request.amount ELSE hops[i - 1].out)
    /\ IsInjective(Assets(request, hops))
    /\ hops[Len(hops)].to = request.to
    /\ LET assets == Assets(request, hops) IN
       \A i \in 2..(Len(assets) - 1) : Allows(request, assets[i])

\* canonicalRouteId
RouteId(hops) ==
    <<hops[1].from>> \o FlattenSeq(Field(hops, LAMBDA h :
        <<CASE h.venue = "direct" -> 100 [] h.venue = "amm" -> 101 [] OTHER -> 102,
          h.venueId>> \o h.path \o <<h.to>>))

Normalized(request, hops) ==
    [id |-> RouteId(hops), from |-> request.from, to |-> request.to,
     amount |-> request.amount, expected |-> hops[Len(hops)].out,
     fee |-> Least(Bps, Sum(Field(hops, LAMBDA h : h.fee))),
     slip |-> Least(Bps, Sum(Field(hops, LAMBDA h : h.slip))),
     rel |-> FoldSeq(Least, Bps, Field(hops, LAMBDA h : h.rel)),
     depth |-> Depth(hops), hops |-> hops, expires |-> Never]

\* oracle: the reference, or NoOracle when there is none or it failed.
NoOracle == [fair |-> 0, rel |-> 0, expires |-> Never]
AgainstOracle(route, oracle) ==
    IF oracle = NoOracle THEN route
    ELSE LET shortfall == Most(0, oracle.fair - route.expected)
         IN [route EXCEPT !.slip = Most(@, (shortfall * Bps) \div oracle.fair),
                          !.rel = Least(@, oracle.rel),
                          !.expires = Least(@, oracle.expires)]

\* compareQuoteQuality(a, b) < 0
BetterQuote(a, b) ==
    \/ a.expected > b.expected
    \/ a.expected = b.expected /\ a.fee < b.fee
    \/ a.expected = b.expected /\ a.fee = b.fee /\ a.slip < b.slip

\* The order of the identifiers' bytes.
Before(a, b) ==
    \/ Len(a) < Len(b) /\ a = SubSeq(b, 1, Len(a))
    \/ \E i \in 1..Least(Len(a), Len(b)) :
         /\ SubSeq(a, 1, i - 1) = SubSeq(b, 1, i - 1)
         /\ a[i] < b[i]

\* Every usable candidate of every provider, in the providers' order.
\* proposals[p] is a sequence of hop sequences, <<>> if provider p failed.
Candidates(request, proposals, oracle, maxHops, maxCandidates) ==
    LET proposed == FlattenSeq([p \in DOMAIN proposals |-> Prefix(proposals[p], maxCandidates)])
        usable == SelectSeq(proposed, LAMBDA hops : Normalizes(request, hops, maxHops))
    IN [i \in DOMAIN usable |-> AgainstOracle(Normalized(request, usable[i]), oracle)]

\* One candidate for each identifier, the first of the best.
Unique(candidates) ==
    {candidates[i] : i \in {i \in DOMAIN candidates :
        \A j \in DOMAIN candidates :
          candidates[j].id = candidates[i].id =>
            /\ ~BetterQuote(candidates[j], candidates[i])
            /\ j < i => BetterQuote(candidates[i], candidates[j])}}

DiscoverRoutes(request, proposals, oracle, ledger, maxHops, maxCandidates) ==
    LET fresh == {r \in Unique(Candidates(request, proposals, oracle, maxHops, maxCandidates)) :
                    r.expires >= ledger}
    IN Prefix(SetToSortSeq(fresh, LAMBDA a, b : Before(a.id, b.id)), maxCandidates)

-----------------------------------------------------------------------------
(* Selection.                                                              *)

Eligible(route) ==
    route.slip <= Policy.maxSlippageBps /\ route.rel >= Policy.minReliabilityBps

Weighted(value, weight) == (value * weight) \div Bps
Score(route) ==
    Weighted(route.fee, Policy.costWeight) + Weighted(route.slip, Policy.slippageWeight)
    + Weighted(Bps - route.rel, Policy.reliabilityWeight)
    + (route.depth - 1) * Policy.hopPenalty

\* compareScoredRoutes(a, b) < 0
RanksBefore(a, b) ==
    LET keys == <<<<Score(a), Score(b)>>, <<b.expected, a.expected>>,
                  <<a.slip, b.slip>>, <<a.depth, b.depth>>>>
    IN \/ \E i \in DOMAIN keys : keys[i][1] < keys[i][2]
                                 /\ \A j \in 1..(i - 1) : keys[j][1] = keys[j][2]
       \/ (\A i \in DOMAIN keys : keys[i][1] = keys[i][2]) /\ Before(a.id, b.id)

RankRoutes(routes) ==
    SortSeq(SelectSeq(routes, Eligible), RanksBefore)

-----------------------------------------------------------------------------
(* Quotes.                                                                 *)

NoRoute == [error |-> "NO_ROUTE"]

Quoted(route, ledger) ==
    LET default == ledger + ValidityLedgers
        until == Least(route.expires, default)
    IN [error |-> "none", route |-> [route EXCEPT !.expires = until],
        minimum |-> (route.expected * (Bps - ToleranceBps)) \div Bps, until |-> until]

PlanQuote(request, proposals, oracle, ledger, maxHops, maxCandidates) ==
    LET ranked == RankRoutes(DiscoverRoutes(request, proposals, oracle, ledger,
                                            maxHops, maxCandidates))
    IN IF ranked = <<>> THEN NoRoute ELSE Quoted(ranked[1], ledger)

QuoteOverride(request, route, ledger) ==
    IF route.from # request.from \/ route.to # request.to \/ route.amount # request.amount
    THEN [error |-> "INVALID_ROUTE_OVERRIDE"]
    ELSE IF route.expires < ledger THEN [error |-> "QUOTE_EXPIRED"]
    ELSE IF ~Eligible(route) THEN [error |-> "INVALID_ROUTE_OVERRIDE"]
    ELSE Quoted(route, ledger)

\* What payForAPI makes of a PaymentQuote it is handed at a later ledger.
Review(request, quote, ledger) ==
    LET validated == QuoteOverride(request, quote.route, ledger)
    IN IF validated.error # "none" THEN validated.error
       ELSE IF ledger > quote.until THEN "QUOTE_EXPIRED"
       ELSE IF quote.minimum < validated.minimum THEN "INVALID_ROUTE_OVERRIDE"
       ELSE "accepted"
=============================================================================
