---------------------------- MODULE FeeStrategy ----------------------------
(***************************************************************************)
(* The fee bids of the SDK (fleet/feeStrategy.ts): callers ask one         *)
(* strategy concurrently; the recent-fee strategy keeps the network's      *)
(* statistics for a while and lets all callers share one request for them. *)
(* Time advances in units; a request takes at most LoadTime of them.       *)
(***************************************************************************)
EXTENDS Integers, FiniteSets

CONSTANTS
    Askers,
    Congestion,           \* fees the network may report
    BaseFee, MinimumFee, MaximumFee, FallbackFee,
    Percent,              \* the multiplier, in hundredths
    CacheTime, LoadTime, LastTime

ASSUME FeeAssumption ==
    /\ {BaseFee, MinimumFee, MaximumFee, FallbackFee, Percent} \subseteq Nat \ {0}
    /\ MinimumFee <= MaximumFee /\ Congestion \subseteq Nat \ {0}

VARIABLES
    clock,
    cached,     \* [expires, fee, seen]: statistics and when the network made them
    pending,    \* the request under way, [on, since]
    ask         \* ask[c]: [at, fee, seen, time]; seen = -1 for the fallback

feeVars == <<clock, cached, pending, ask>>

NoRequest == [on |-> FALSE, since |-> 0]
Unasked == [at |-> "idle", fee |-> 0, seen |-> -1, time |-> 0]

FeeInit ==
    /\ clock = 0 /\ cached = [expires |-> 0, fee |-> BaseFee, seen |-> 0]
    /\ pending = NoRequest /\ ask = [c \in Askers |-> Unasked]

MultiplyCeil(value) == (value * Percent + 99) \div 100
ClampToContext(fee) == IF fee < BaseFee THEN BaseFee ELSE fee
Bounded(fee) == IF fee < MinimumFee THEN MinimumFee ELSE IF fee > MaximumFee THEN MaximumFee ELSE fee
MutantFromNetwork(fee) == MultiplyCeil(Bounded(ClampToContext(fee)))
FromNetwork(fee) == ClampToContext(Bounded(MultiplyCeil(fee)))
Fallback == ClampToContext(Bounded(FallbackFee))

Bid(fee, seen) == [at |-> "done", fee |-> fee, seen |-> seen, time |-> clock]

\* getFee, up to the statistics it waits for.
GetFee(c) ==
    /\ ask[c].at \in {"idle", "done"}
    /\ IF cached.expires > clock
       THEN ask' = [ask EXCEPT ![c] = Bid(FromNetwork(cached.fee), cached.seen)] /\ UNCHANGED pending
       ELSE /\ ask' = [ask EXCEPT ![c] = [Unasked EXCEPT !.at = "waiting"]]
            /\ pending' = IF pending.on THEN pending ELSE [on |-> TRUE, since |-> clock]
    /\ UNCHANGED <<clock, cached>>

\* Answers all who wait; the network made the statistics while it was asked.
Loaded ==
    /\ pending.on /\ pending' = NoRequest
    /\ \E fee \in Congestion, seen \in pending.since..clock :
         /\ cached' = [expires |-> clock + CacheTime, fee |-> fee, seen |-> seen]
         /\ ask' = [c \in Askers |-> IF ask[c].at = "waiting" THEN Bid(FromNetwork(fee), seen) ELSE ask[c]]
    /\ UNCHANGED clock

LoadFails ==
    /\ pending.on /\ pending' = NoRequest
    /\ ask' = [c \in Askers |-> IF ask[c].at = "waiting" THEN Bid(Fallback, -1) ELSE ask[c]]
    /\ UNCHANGED <<clock, cached>>

Pass ==
    /\ clock < LastTime /\ (pending.on => clock < pending.since + LoadTime)
    /\ clock' = clock + 1 /\ UNCHANGED <<cached, pending, ask>>

FeeNext == (\E c \in Askers : GetFee(c)) \/ Loaded \/ LoadFails \/ Pass

FeeSpec == FeeInit /\ [][FeeNext]_feeVars

\* Times are numbers of units.
SoundTimes == {CacheTime, LoadTime} \subseteq Nat

\* A bid rests on statistics no older than the time they may be kept and the
\* time one request takes, however many callers share them, and is within
\* the configured bounds or the network's minimum; without statistics it is
\* the fallback, not multiplied (feeStrategy.ts, RecentFeeStrategy).
FeeIsRecent ==
    \A c \in Askers : ask[c].at = "done" =>
        /\ ask[c].fee >= BaseFee
        /\ ask[c].fee <= IF BaseFee > MaximumFee THEN BaseFee ELSE MaximumFee
        /\ IF ask[c].seen = -1 THEN ask[c].fee = Fallback
           ELSE ask[c].time - ask[c].seen < CacheTime + LoadTime \/ ask[c].time - ask[c].seen <= LoadTime
=============================================================================
