----------------------------- MODULE ChannelPool -----------------------------
(***************************************************************************)
(* The pool of channel accounts of the core SDK (fleet/channelPool.ts): an *)
(* account is leased to one caller at a time, the pool grows when leases   *)
(* wait, shrinks on resize and gives accounts back to a factory.           *)
(*                                                                         *)
(* JavaScript runs a handler up to its next await without interruption, so *)
(* one action is the code between two awaits.  Which idle account a lease  *)
(* gets, and in which order a resize visits the accounts, is left open     *)
(* (the code takes the least recently used one).                           *)
(***************************************************************************)
EXTENDS Naturals, Sequences, FiniteSets, Functions

CONSTANTS
    Accounts,        \* the addresses the factory may hand out
    InitialAccounts, \* options.accounts
    Callers,         \* the clients of the pool, each with at most one lease
    NoAccount,
    MaxSize,         \* options.maxSize
    Factory,         \* whether options.factory is given
    ReclaimMayFail   \* whether factory.reclaim may reject

ASSUME PoolAssumption ==
    /\ IsFiniteSet(Accounts) /\ IsFiniteSet(Callers)
    /\ InitialAccounts \subseteq Accounts
    /\ NoAccount \notin Accounts
    /\ MaxSize \in Nat \ {0} /\ Cardinality(InitialAccounts) <= MaxSize
    /\ Factory \in BOOLEAN /\ ReclaimMayFail \in BOOLEAN

VARIABLES
    entries,     \* the accounts in the pool
    leased,      \* entries whose leased flag is set
    retire,      \* entries whose retire flag is set
    waiters,     \* the queue of callers without an account
    creating,    \* calls of the factory under way
    discarding,  \* those that give back an account nobody needs any more
    targetSize, poolClosed,
    resizing,    \* the resize under way
    lease        \* each caller's lease and how far it is

poolVars == <<entries, leased, retire, waiters, creating, discarding,
              targetSize, poolClosed, resizing, lease>>

NoLease == [at |-> "none", account |-> NoAccount]
Held(a) == [at |-> "held", account |-> a]
Returning(a) == [at |-> "returning", account |-> a]   \* reclaim is awaited
Waiting == [at |-> "waiting", account |-> NoAccount]
Refused == [at |-> "refused", account |-> NoAccount]  \* the promise rejected

NoResize == [at |-> "none", size |-> 0, mine |-> 0, todo |-> {}, excess |-> 0]

PoolInit ==
    /\ entries = InitialAccounts
    /\ leased = {} /\ retire = {}
    /\ waiters = <<>>
    /\ creating = 0 /\ discarding = 0
    /\ targetSize = Cardinality(InitialAccounts)
    /\ poolClosed = FALSE
    /\ resizing = NoResize
    /\ lease = [c \in Callers |-> NoLease]

-----------------------------------------------------------------------------

Larger(m, n) == IF m < n THEN n ELSE m
Smaller(m, n) == IF m < n THEN m ELSE n

AvailableIn(es, ls) == (es \ ls) \ retire
Available == AvailableIn(entries, leased)

\* #removeWaiter: the waiter is looked up and spliced out of the queue.
Position(c) == CHOOSE i \in DOMAIN waiters : waiters[i] = c
Without(c) == SubSeq(waiters, 1, Position(c) - 1)
                \o SubSeq(waiters, Position(c) + 1, Len(waiters))

\* The accounts being created are forgotten.
MutantGrowth(size, demand, n) ==
    IF Factory /\ demand > n /\ size < MaxSize
    THEN Smaller(demand - n, MaxSize - size)
    ELSE 0

(***************************************************************************)
(* #dispatch, from the state the caller of it has just made: entries es,   *)
(* leased flags ls, waiters ws, n creations under way, leases L.  Waiting  *)
(* leases get the idle accounts in order; the rest of the demand starts    *)
(* creations, as far as there is room, and raises the target with them.    *)
(***************************************************************************)
Growth(size, demand, n) ==
    IF Factory /\ demand > n /\ size + n < MaxSize
    THEN Smaller(demand - n, MaxSize - (size + n))
    ELSE 0

Dispatch(es, ls, ws, n, L) ==
    LET idle == AvailableIn(es, ls)
        k == Smaller(Cardinality(idle), Len(ws))
        size == Cardinality(es)
        growth == Growth(size, Len(ws) - k, n)
    IN  \E give \in Injection(1 .. k, idle) :
          /\ entries' = es
          /\ leased' = ls \cup {give[i] : i \in 1 .. k}
          /\ waiters' = SubSeq(ws, k + 1, Len(ws))
          /\ lease' = [c \in Callers |->
                         IF \E i \in 1 .. k : ws[i] = c
                         THEN Held(give[CHOOSE i \in 1 .. k : ws[i] = c])
                         ELSE L[c]]
          /\ creating' = n + growth
          /\ targetSize' = IF growth = 0 THEN targetSize
                           ELSE Larger(targetSize, size + n + growth)

-----------------------------------------------------------------------------

\* lease(): refused, served at once, or queued behind the others.
Lease(c) ==
    /\ lease[c] = NoLease
    /\ \/ /\ poolClosed \/ (entries = {} /\ creating = 0 /\ ~Factory)
          /\ lease' = [lease EXCEPT ![c] = Refused]
          /\ UNCHANGED <<entries, leased, waiters, creating, targetSize>>
       \/ /\ ~poolClosed
          /\ \E a \in Available :
               /\ leased' = leased \cup {a}
               /\ lease' = [lease EXCEPT ![c] = Held(a)]
          /\ UNCHANGED <<entries, waiters, creating, targetSize>>
       \/ /\ ~poolClosed
          /\ Available = {}
          /\ entries # {} \/ creating > 0 \/ Factory
          /\ Dispatch(entries, leased, Append(waiters, c), creating,
                      [lease EXCEPT ![c] = Waiting])
    /\ UNCHANGED <<retire, discarding, poolClosed, resizing>>

\* The timer of a waiting lease, or its abort signal, removes the waiter.
Abandon(c) ==
    /\ lease[c] = Waiting
    /\ waiters' = Without(c)
    /\ lease' = [lease EXCEPT ![c] = Refused]
    /\ UNCHANGED <<entries, leased, retire, creating, discarding, targetSize,
                   poolClosed, resizing>>

\* The caller has seen the rejection.
Forget(c) ==
    /\ lease[c] = Refused
    /\ lease' = [lease EXCEPT ![c] = NoLease]
    /\ UNCHANGED <<entries, leased, retire, waiters, creating, discarding,
                   targetSize, poolClosed, resizing>>

Unneeded(a) == a \in retire \/ poolClosed \/ Cardinality(entries) > targetSize

\* release(): an unneeded account leaves the pool first, and the other
\* waiting leases are looked at only when its reclamation has answered.
Release(c) ==
    /\ lease[c].at = "held"
    /\ LET a == lease[c].account IN
         \/ /\ ~Unneeded(a)
            /\ Dispatch(entries, leased \ {a}, waiters, creating,
                        [lease EXCEPT ![c] = NoLease])
            /\ UNCHANGED retire
         \/ /\ Unneeded(a)
            /\ entries' = entries \ {a}
            /\ leased' = leased \ {a}
            /\ retire' = retire \ {a}
            /\ lease' = [lease EXCEPT ![c] = Returning(a)]
            /\ UNCHANGED <<waiters, creating, targetSize>>
    /\ UNCHANGED <<discarding, poolClosed, resizing>>

\* The reclamation a release waits for: when it rejects, release() does too
\* and #dispatch is not reached.
Reclaimed(c) ==
    /\ lease[c].at = "returning"
    /\ \/ Dispatch(entries, leased, waiters, creating,
                   [lease EXCEPT ![c] = NoLease])
       \/ /\ ReclaimMayFail
          /\ lease' = [lease EXCEPT ![c] = Refused]
          /\ UNCHANGED <<entries, leased, waiters, creating, targetSize>>
    /\ UNCHANGED <<retire, discarding, poolClosed, resizing>>

-----------------------------------------------------------------------------

\* A creation of a resize counts down what that resize awaits; one that
\* fails rejects the resize.
CreationOf(own, ok) ==
    /\ IF own THEN resizing.mine > 0 ELSE creating > resizing.mine
    /\ resizing' = CASE own /\ ok  -> [resizing EXCEPT !.mine = @ - 1]
                     [] own /\ ~ok -> NoResize
                     [] OTHER      -> resizing

\* #startCreate after factory.create() answered with an account.
Create(own) ==
    /\ creating > discarding
    /\ \E a \in Accounts \ entries :
         \/ /\ ~poolClosed /\ Cardinality(entries) < targetSize
            /\ CreationOf(own, TRUE)
            /\ Dispatch(entries \cup {a}, leased, waiters, creating - 1, lease)
            /\ UNCHANGED discarding
         \/ /\ poolClosed \/ Cardinality(entries) >= targetSize
            /\ discarding' = discarding + 1
            /\ UNCHANGED <<entries, leased, waiters, creating, targetSize,
                           lease, resizing>>
    /\ UNCHANGED <<retire, poolClosed>>

FirstRejected == IF waiters = <<>> THEN lease
                 ELSE [lease EXCEPT ![Head(waiters)] = Refused]
AfterFirst == IF waiters = <<>> THEN waiters ELSE Tail(waiters)

\* #startCreate when the factory rejected: the oldest waiter is told.
CreateFails(own) ==
    /\ creating > discarding
    /\ CreationOf(own, FALSE)
    /\ Dispatch(entries, leased, AfterFirst, creating - 1, FirstRejected)
    /\ UNCHANGED <<retire, discarding, poolClosed>>

\* The unneeded new account has been given back, or that failed.
Discard(own, ok) ==
    /\ discarding > 0
    /\ ok \/ ReclaimMayFail
    /\ discarding' = discarding - 1
    /\ CreationOf(own, ok)
    /\ IF ok THEN Dispatch(entries, leased, waiters, creating - 1, lease)
             ELSE Dispatch(entries, leased, AfterFirst, creating - 1, FirstRejected)
    /\ UNCHANGED <<retire, poolClosed>>

-----------------------------------------------------------------------------

\* resize(): the target changes at once, missing accounts are created.
Resize(size) ==
    /\ resizing = NoResize /\ ~poolClosed
    /\ size <= MaxSize
    /\ LET known == Cardinality(entries) + creating
           grow == IF size > known THEN size - known ELSE 0 IN
         /\ grow > 0 => Factory
         /\ targetSize' = size
         /\ creating' = creating + grow
         /\ resizing' = [NoResize EXCEPT !.at = "growing", !.size = size,
                                         !.mine = grow]
    /\ UNCHANGED <<entries, leased, retire, waiters, discarding, poolClosed, lease>>

\* Once its creations are done it measures the excess of that moment.
Measure ==
    /\ resizing.at = "growing" /\ resizing.mine = 0
    /\ resizing' = IF Cardinality(entries) <= resizing.size THEN NoResize
                   ELSE [resizing EXCEPT !.at = "shrinking", !.todo = entries,
                          !.excess = Cardinality(entries) - resizing.size]
    /\ UNCHANGED <<entries, leased, retire, waiters, creating, discarding,
                   targetSize, poolClosed, lease>>

Visited(a) == IF resizing.excess = 1 THEN NoResize
              ELSE [resizing EXCEPT !.excess = @ - 1, !.todo = @ \ {a}]

\* ... and visits that many accounts: a busy one is marked, an idle one goes.
Shrink(a) ==
    /\ resizing.at = "shrinking" /\ a \in resizing.todo
    /\ \/ /\ a \in leased
          /\ retire' = retire \cup {a}
          /\ resizing' = Visited(a)
          /\ UNCHANGED entries
       \/ /\ a \notin leased
          /\ entries' = entries \ {a}
          /\ retire' = retire \ {a}
          /\ \/ resizing' = Visited(a)
             \/ ReclaimMayFail /\ a \in entries /\ resizing' = NoResize
    /\ UNCHANGED <<leased, waiters, creating, discarding, targetSize,
                   poolClosed, lease>>

\* close(): waiters are refused, idle accounts go, busy ones on release.
Close ==
    /\ ~poolClosed
    /\ poolClosed' = TRUE
    /\ targetSize' = 0
    /\ waiters' = <<>>
    /\ lease' = [c \in Callers |->
                   IF lease[c] = Waiting THEN Refused ELSE lease[c]]
    /\ entries' = entries \cap leased
    /\ retire' = entries \cap leased
    /\ UNCHANGED <<leased, creating, discarding, resizing>>

-----------------------------------------------------------------------------

\* What the factory and a resize do on their own.
PoolStep ==
    \/ \E own \in BOOLEAN :
          \/ Create(own) \/ CreateFails(own)
          \/ \E ok \in BOOLEAN : Discard(own, ok)
    \/ Measure
    \/ \E a \in Accounts : Shrink(a)

PoolNext ==
    \/ \E c \in Callers :
          Lease(c) \/ Abandon(c) \/ Forget(c) \/ Release(c) \/ Reclaimed(c)
    \/ \E size \in 0 .. MaxSize : Resize(size)
    \/ PoolStep
    \/ Close

PoolSpec == PoolInit /\ [][PoolNext]_poolVars

-----------------------------------------------------------------------------

PoolTypeOK ==
    /\ entries \subseteq Accounts /\ leased \subseteq entries
    /\ retire \subseteq leased
    /\ waiters \in Seq(Callers)
    /\ creating \in Nat /\ discarding \in Nat
    /\ targetSize \in Nat /\ poolClosed \in BOOLEAN
    /\ resizing \in [at : {"none", "growing", "shrinking"}, size : Nat,
                     mine : Nat, todo : SUBSET Accounts, excess : Nat]
    /\ lease \in [Callers ->
                    [at : {"none", "waiting", "held", "returning", "refused"},
                     account : Accounts \cup {NoAccount}]]

(***************************************************************************)
(* An account is leased to one caller at a time: the leased flags are      *)
(* exactly the accounts of the leases that are out, no two of them share   *)
(* one, and none has been given back to the factory (makeLease, release,   *)
(* resize and close each clear or test these flags).                       *)
(***************************************************************************)
Exclusive ==
    /\ \A c \in Callers : lease[c].at = "held" => lease[c].account \in leased
    /\ \A c, d \in Callers :
          /\ lease[c].at = "held" /\ lease[d].at = "held"
          /\ lease[c].account = lease[d].account
          => c = d
    /\ \A a \in leased :
          \E c \in Callers : lease[c].at = "held" /\ lease[c].account = a

(***************************************************************************)
(* maxSize bounds the accounts of the pool together with those being       *)
(* created, whatever mixes of demand and resize start creations.           *)
(***************************************************************************)
WithinMax == Cardinality(entries) + creating <= MaxSize

(***************************************************************************)
(* No lease waits beside an account it could have, and every lease that    *)
(* waits is in the queue: each handler that frees or adds an account       *)
(* dispatches before it gives up control.                                  *)
(***************************************************************************)
NoIdleWhileWaiting ==
    /\ waiters # <<>> => Available = {}
    /\ \A c \in Callers :
          lease[c] = Waiting <=> \E i \in DOMAIN waiters : waiters[i] = c

\* The pool's promises together.
PoolSafe == Exclusive /\ WithinMax /\ NoIdleWhileWaiting

(***************************************************************************)
(* While leases wait and the pool may still grow, somebody who will        *)
(* dispatch is under way: a creation, a lease that is out or a reclamation.*)
(* lease() promises to grow "when every existing account is busy".         *)
(***************************************************************************)
NoneStranded ==
    waiters # <<>> =>
      \/ creating > 0
      \/ \E c \in Callers : lease[c].at \in {"held", "returning"}
=============================================================================
