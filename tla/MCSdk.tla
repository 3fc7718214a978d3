------------------------------- MODULE MCSdk -------------------------------
(***************************************************************************)
(* A behaviour exercises one part of the SDK, chosen at the start: the     *)
(* calls of an agent, the submitters that share a transaction, calls that  *)
(* are cancelled and retried, or one decision of the routing, bidding and  *)
(* prediction code.                                                        *)
(***************************************************************************)
EXTENDS AgentApi, Cosigning, Decisions, AbortableCalls

CONSTANTS h1, h2, shared, own

VARIABLE mode
mcVars == <<mode, apiVars, cosignVars, caseVars, abortVars>>

-----------------------------------------------------------------------------
(* Inputs of the decisions.                                                *)

SomePolicy == [costWeight |-> 5000, slippageWeight |-> 3000, reliabilityWeight |-> 2000,
               hopPenalty |-> 5, maxSlippageBps |-> 1000, minReliabilityBps |-> 5000]
SomePairs == <<<<1, 2>>, <<2, 3>>, <<3, 2>>, <<2, 4>>, <<3, 4>>>>
SomePathOffers == {<<>>, <<[path |-> <<2>>, out |-> 1020], [path |-> <<>>, out |-> 990]>>}

AmmHop(from, to, in, out, slip) == Hop("amm", 1, from, to, in, out, 30, slip, 9500, <<>>)

\* Nothing; a route in two hops; one whose hops do not fit together, one over
\* a direct venue and an empty one.
SomeCustomOffers ==
    {<<>>, <<<<AmmHop(1, 2, 1000, 990, 0), AmmHop(2, 4, 990, 1100, 0)>>>>,
     <<<<AmmHop(1, 2, 1000, 990, 0), AmmHop(2, 4, 980, 1100, 0)>>,
       <<Hop("direct", 3, 1, 4, 1000, 1000, 0, 20, 9500, <<>>)>>, <<>>>>}

SomeOracles == {NoOracle, [fair |-> 1100, rel |-> 9000, expires |-> 12],
                [fair |-> 1000, rel |-> 9000, expires |-> 9]}

BidsOf(agents) ==
    [agents -> [price : {0, 2, 3}, reputation : {0, 60}, latency : {1, 3}, rate : {50, 100}]]
Bid(agent, b) == [agent |-> agent, price |-> b.price, reputation |-> b.reputation,
                  latency |-> b.latency, rate |-> b.rate]
SomeBids ==
    {<<>>} \cup {[i \in 1..2 |-> Bid(i, b[i])] : b \in BidsOf(1..2)}
    \cup {[i \in 1..3 |-> Bid(4 - i, b[i])] :
            b \in {b \in BidsOf(1..3) :
                     b[2].reputation = 0 /\ b[3].rate = 50 /\ b[1].latency = b[2].latency}}
SomeWeightings ==
    {[price |-> 25, reputation |-> 25, latency |-> 25, reliability |-> 25],
     [price |-> 70, reputation |-> 0, latency |-> 30, reliability |-> 0]}

SomeChannels == [active : BOOLEAN, spent : 0..3, limit : {1, 3}, start : {5}, period : {3}]
SomeLimits ==
    [maxPerTx : {2}, maxPerHour : {3}, maxPerDay : {4}, maxTxs : {2},
     hourly : [1..2 -> 0..2], hourStart : {5}, hour : {2},
     daily : [1..2 -> 0..2], dayStart : {3}, day : {4}, txs : [1..2 -> 0..1]]
SomeSamples == UNION {[1..n -> [sequence : 1..3, at : 0..4]] : n \in 1..3}

-----------------------------------------------------------------------------

MCInit ==
    /\ mode \in {"api", "cosign", "abort", "case"}
    /\ ApiInit /\ (mode = "api" \/ price = CHOOSE p \in Price : TRUE)
    /\ CosignInit /\ CasesInit /\ AbortInit

\* Applications are alike: the first begins first.  It opens a channel, asks
\* for a quote or creates a job; without a channel no other call does anything.
\* The last one alone pays through a route or predicts.
InOrder ==
    /\ \A c \in Apps : call'[c].at # "new" => \A d \in 1..(c - 1) : call'[d].at # "new"
    /\ call'[1].op \in {"none", "open", "quote", "job"}
    /\ \A c \in {1, 2} : call'[c].op \notin {"route", "predict"}

MCNext ==
    /\ UNCHANGED mode
    /\ \/ mode = "api" /\ ApiNext /\ InOrder /\ UNCHANGED <<cosignVars, caseVars, abortVars>>
       \/ mode = "cosign" /\ CosignNext /\ UNCHANGED <<apiVars, caseVars, abortVars>>
          /\ tx'[shared].kind # "own" /\ tx'[own].kind # "multisig"
       \/ mode = "abort" /\ AbortNext /\ UNCHANGED <<apiVars, cosignVars, caseVars>>
       \/ mode = "case" /\ CaseNext /\ UNCHANGED <<apiVars, cosignVars, abortVars>>

MCSpec == MCInit /\ [][MCNext]_mcVars

\* The agent's channel is the one opened last, payments keep what was quoted,
\* and a call that is cancelled leaves nothing behind.
CallsKeepTheirTerms == ActiveIsLatest /\ TermsAreKept /\ CancellationIsClean /\ AttemptsAreBounded

\* What the routing, the bidding and the prediction code promise.
Quotes == WalkIsComplete /\ RouteIsExecutable /\ BestRouteWins /\ QuoteSurvivesReview
Rankings == RankingIsFair /\ AttestationBindsRanking
Estimates == PredictionMatchesContract /\ EstimateIsMean

\* One decision at a time meets its reference definition.
Decisive == Quotes /\ Rankings /\ Estimates
============================================================================
