------------------------------ MODULE MCFleet ------------------------------
(***************************************************************************)
(* A behaviour exercises one thing, chosen at the start: calls of an agent *)
(* with a fleet, the pool alone with all its operations, the queue alone   *)
(* with ordering keys, aborts and retries, or the fee strategy.            *)
(***************************************************************************)
EXTENDS Fleet, FeeStrategy

CONSTANTS a1, a2, c1, c2, c3, key

VARIABLE mode

\* c1 and c2 share an ordering key.  Calls of an agent have none: its two
\* callers are c2 and c3, for whom a key nobody shares changes nothing.
Key(t) == IF t = c3 THEN NoKey ELSE key
agentCalls == {c2, c3}

mcVars == <<mode, fleetVars, feeVars>>
callVars == <<queueVars, inv, networkVars>>

RetryingQueue == INSTANCE SubmissionQueue WITH MaxAttempts <- 2
FaultlessPool == INSTANCE ChannelPool WITH ReclaimMayFail <- FALSE

\* After resize(1) on a pool of two accounts: either just called, or done.
ResizedInit ==
    /\ leased = {} /\ retire = {}
    /\ waiters = <<>> /\ creating = 0 /\ discarding = 0
    /\ targetSize = 1 /\ poolClosed = FALSE
    /\ \/ /\ mode = "resize" /\ entries = InitialAccounts
          /\ resizing = [NoResize EXCEPT !.at = "growing", !.size = 1]
       \/ /\ mode = "agent" /\ entries = {CHOOSE a \in InitialAccounts : TRUE}
          /\ resizing = NoResize
    /\ lease = [c \in Callers |-> NoLease]

MCInit ==
    /\ mode \in {"agent", "resize", "pool", "queue", "fee"}
    /\ CallsInit
    /\ PoolInit \/ ResizedInit
    /\ FeeInit

\* The factory of the agents is slow (in mode pool it answers), and the pool
\* being resized serves one call.
MCNext ==
    /\ UNCHANGED mode
    /\ \/ /\ UNCHANGED feeVars
          /\ \/ mode \in {"agent", "resize"} /\ FleetNext
                /\ taskState'[c1] = "new" /\ creating' >= creating
                /\ (mode = "resize" => taskState'[c2] = "new")
             \/ mode = "pool" /\ FaultlessPool!PoolNext /\ UNCHANGED callVars
             \/ mode = "queue" /\ RetryingQueue!QueueNext
                /\ UNCHANGED <<poolVars, inv, networkVars>>
       \/ mode = "fee" /\ FeeNext /\ UNCHANGED fleetVars

MCSpec ==
    /\ MCInit /\ [][MCNext]_mcVars
    /\ \A c \in agentCalls :
         WF_mcVars(mode \in {"agent", "resize"} /\ (Step(c) \/ LeaseTimeout(c))
                   /\ UNCHANGED <<mode, feeVars>>)

\* What is asked of one mode: agents shut down in order, the pool on its own
\* strands nobody, and a bid rests on statistics within their cache time.
ModesAreSafe ==
    /\ mode \in {"agent", "resize"} => ShutdownIsOrderly
    /\ mode = "pool" => NoneStranded
    /\ FeeIsRecent
\* c2 and c3 are alike, so one of them is enough for EveryCallIsAnswered.
AgentsAreAnswered == mode \in {"agent", "resize"} => Answered(c3)
============================================================================
