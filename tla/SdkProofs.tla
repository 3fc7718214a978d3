------------------------------ MODULE SdkProofs ------------------------------
(***************************************************************************)
(* The core SDK, for any accounts, callers, sizes and bounds.  The pool:   *)
(* no account has two holders, and no lease waits beside an account it     *)
(* could have.  The queue: tasks of one key neither overlap nor overtake   *)
(* each other.  The calls that use both: none is executed twice, what a    *)
(* caller is told is what the ledger says, and a shutdown cuts no call     *)
(* off.  The sponsor: its records say what the ledger says.  Cancellation  *)
(* and retries: a call that ends leaves nothing behind.  The agent: its    *)
(* channel is the one it opened last, and its payments keep their terms.   *)
(* The fee strategy: a bid rests on recent statistics, within the bounds.  *)
(***************************************************************************)
EXTENDS Fleet, Sponsorship, AbortableCalls, AgentApi, FeeStrategy,
        FiniteSetTheorems, SequenceTheorems, WellFoundedInduction, TLAPS

Leases ==
  {NoLease, Waiting, Refused}
    \cup {Held(a) : a \in Accounts} \cup {Returning(a) : a \in Accounts}

\* The flags ls are those of the leases L that are out, each of one caller.
Owned(ls, L) ==
  /\ \A c \in Callers : L[c].at = "held" => L[c].account \in ls
  /\ \A c, d \in Callers :
        /\ L[c].at = "held" /\ L[d].at = "held"
        /\ L[c].account = L[d].account
        => c = d
  /\ \A a \in ls : \E c \in Callers : L[c].at = "held" /\ L[c].account = a

\* The queue ws holds the waiting leases of L, each once.
Queued(ws, L) ==
  /\ ws \in Seq(Callers)
  /\ \A i, j \in 1..Len(ws) : ws[i] = ws[j] => i = j
  /\ \A c \in Callers : L[c] = Waiting <=> \E i \in 1..Len(ws) : ws[i] = c

CountsAreSound ==
  /\ creating \in Nat /\ discarding \in Nat /\ discarding <= creating
  /\ targetSize \in Nat
  /\ poolClosed \in BOOLEAN
  /\ WithinMax

ResizeIsSound ==
  /\ resizing \in [at : {"none", "growing", "shrinking"}, size : Nat,
                   mine : Nat, todo : SUBSET Accounts, excess : Nat]
  /\ resizing.at = "shrinking" => resizing.excess > 0

\* With a factory whose reclamations succeed.
Served == Factory /\ ~ReclaimMayFail => NoneStranded

PoolInv ==
  /\ entries \subseteq Accounts /\ leased \subseteq entries
  /\ retire \subseteq leased
  /\ lease \in [Callers -> Leases]
  /\ Owned(leased, lease)
  /\ Queued(waiters, lease)
  /\ waiters # <<>> => Available = {}
  /\ CountsAreSound
  /\ ResizeIsSound
  /\ Served

-----------------------------------------------------------------------------
(* What each kind of lease is.                                             *)

LEMMA LeaseKinds ==
  /\ \A a \in Accounts : /\ Held(a) \in Leases /\ Returning(a) \in Leases
                         /\ Held(a).at = "held" /\ Held(a).account = a
                         /\ Returning(a).at = "returning"
                         /\ Held(a) # Waiting /\ Returning(a) # Waiting
  /\ {NoLease, Waiting, Refused} \subseteq Leases
  /\ NoLease.at = "none" /\ Waiting.at = "waiting" /\ Refused.at = "refused"
  /\ NoLease # Waiting /\ Refused # Waiting
  /\ \A l \in Leases : l.at = "held" => l.account \in Accounts
  /\ \A l \in Leases :
       /\ l.at \in {"none", "waiting", "held", "returning", "refused"}
       /\ l.account \in Accounts \cup {NoAccount}
<1>1. \A a \in Accounts : /\ Held(a) \in Leases /\ Returning(a) \in Leases
                         /\ Held(a).at = "held" /\ Held(a).account = a
                         /\ Returning(a).at = "returning"
  BY DEF Leases, Held, Returning
<1>2. {NoLease, Waiting, Refused} \subseteq Leases
  BY DEF Leases
<1>3. NoLease.at = "none" /\ Waiting.at = "waiting" /\ Refused.at = "refused"
  BY DEF NoLease, Waiting, Refused
<1>4. ASSUME NEW l \in Leases
      PROVE  /\ l.at = "held" => l.account \in Accounts
             /\ l.at \in {"none", "waiting", "held", "returning", "refused"}
             /\ l.account \in Accounts \cup {NoAccount}
  BY <1>4 DEF Leases, Held, Returning, NoLease, Waiting, Refused
<1>5. NoLease # Waiting /\ Refused # Waiting
  BY <1>3
<1>6. \A a \in Accounts : Held(a) # Waiting /\ Returning(a) # Waiting
  BY <1>1, <1>3
<1> QED
  BY <1>1, <1>2, <1>3, <1>4, <1>5, <1>6

LEMMA GrowthFacts ==
  ASSUME NEW size \in Nat, NEW demand \in Nat, NEW n \in Nat,
         size + n <= MaxSize
  PROVE  /\ Growth(size, demand, n) \in Nat
         /\ size + n + Growth(size, demand, n) <= MaxSize
         /\ Factory /\ demand > 0 =>
              \/ n + Growth(size, demand, n) > 0
              \/ size >= MaxSize
<1>1. MaxSize \in Nat
  BY PoolAssumption
<1>2. CASE Factory /\ demand > n /\ size + n < MaxSize
  BY <1>1, <1>2 DEF Growth, Smaller
<1>3. CASE ~(Factory /\ demand > n /\ size + n < MaxSize)
  <2>1. Growth(size, demand, n) = 0
    BY <1>3 DEF Growth
  <2> QED
    BY <1>1, <1>3, <2>1
<1> QED
  BY <1>2, <1>3

LEMMA SubsetOfAccounts ==
  ASSUME NEW S \in SUBSET Accounts
  PROVE  IsFiniteSet(S) /\ Cardinality(S) \in Nat
BY PoolAssumption, FS_Subset, FS_CardinalityType

-----------------------------------------------------------------------------
(* #dispatch.  It leaves the state it gets exclusive and its queue in      *)
(* order, and what still waits waits because no account is idle.           *)

LEMMA DispatchEffect ==
  ASSUME NEW es \in SUBSET Accounts, NEW ls \in SUBSET es, NEW ws,
         NEW n \in Nat, NEW L \in [Callers -> Leases],
         Owned(ls, L), Queued(ws, L),
         Cardinality(es) + n <= MaxSize, targetSize \in Nat,
         Dispatch(es, ls, ws, n, L)
  PROVE  /\ entries' = es
         /\ leased' \subseteq es /\ ls \subseteq leased'
         /\ lease' \in [Callers -> Leases]
         /\ Owned(leased', lease')
         /\ Queued(waiters', lease')
         /\ waiters' # <<>> => AvailableIn(es, leased') = {}
         /\ creating' \in Nat /\ creating' >= n
         /\ Cardinality(es) + creating' <= MaxSize
         /\ targetSize' \in Nat
         /\ Factory /\ waiters' # <<>> =>
              creating' > 0 \/ Cardinality(es) >= MaxSize
<1> DEFINE idle == AvailableIn(es, ls)
           k == Smaller(Cardinality(idle), Len(ws))
           growth == Growth(Cardinality(es), Len(ws) - k, n)
<1>1. /\ idle \subseteq es /\ idle \cap ls = {}
      /\ IsFiniteSet(idle) /\ Cardinality(idle) \in Nat
      /\ Cardinality(es) \in Nat
  BY SubsetOfAccounts DEF AvailableIn
<1>2. /\ Len(ws) \in Nat
      /\ \A i \in 1..Len(ws) : ws[i] \in Callers
  BY DEF Queued
<1>3. /\ k \in Nat /\ k <= Len(ws) /\ k <= Cardinality(idle)
      /\ k < Len(ws) => k = Cardinality(idle)
  BY <1>1, <1>2 DEF Smaller
<1>4. PICK give \in Injection(1 .. k, idle) :
          /\ entries' = es
          /\ leased' = ls \cup {give[i] : i \in 1 .. k}
          /\ waiters' = SubSeq(ws, k + 1, Len(ws))
          /\ lease' = [c \in Callers |->
                         IF \E i \in 1 .. k : ws[i] = c
                         THEN Held(give[CHOOSE i \in 1 .. k : ws[i] = c])
                         ELSE L[c]]
          /\ creating' = n + growth
          /\ targetSize' = IF growth = 0 THEN targetSize
                           ELSE Larger(targetSize, Cardinality(es) + n + growth)
  BY DEF Dispatch
<1> HIDE DEF idle, k, growth
<1>5. /\ give \in [1..k -> idle]
      /\ \A i, j \in 1..k : give[i] = give[j] => i = j
  BY DEF Injection, IsInjective
<1>6. \A i \in 1..k : lease'[ws[i]] = Held(give[i])
  <2> TAKE i \in 1..k
  <2>1. i \in 1..Len(ws) /\ ws[i] \in Callers
    BY <1>2, <1>3
  <2>2. (CHOOSE j \in 1..k : ws[j] = ws[i]) = i
    BY <1>2, <1>3, <2>1 DEF Queued
  <2> QED
    BY <1>4, <2>1, <2>2
<1>7. \A c \in Callers : (\A i \in 1..k : ws[i] # c) => lease'[c] = L[c]
  BY <1>4
<1>8. \A i \in 1..k : L[ws[i]] = Waiting /\ ws[i] \in Callers
  BY <1>2, <1>3 DEF Queued
<1>9. lease' \in [Callers -> Leases]
  <2>1. \A c \in Callers : lease'[c] \in Leases
    <3> TAKE c \in Callers
    <3>1. CASE \E i \in 1..k : ws[i] = c
      <4> PICK i \in 1..k : ws[i] = c
        BY <3>1
      <4>1. give[i] \in Accounts
        BY <1>1, <1>5
      <4> QED
        BY <1>6, <4>1, LeaseKinds
    <3>2. CASE \A i \in 1..k : ws[i] # c
      BY <1>7, <3>2
    <3> QED
      BY <3>1, <3>2
  <2>2. lease' = [c \in Callers |-> lease'[c]]
    BY <1>4
  <2> QED
    BY <2>1, <2>2
<1>10. leased' \subseteq es /\ ls \subseteq leased'
  BY <1>1, <1>4, <1>5
<1>11. Owned(leased', lease')
  <2>1. \A c \in Callers : lease'[c].at = "held" =>
          \/ \E i \in 1..k : ws[i] = c /\ lease'[c].account = give[i]
          \/ /\ \A i \in 1..k : ws[i] # c
             /\ lease'[c] = L[c]
    BY <1>1, <1>5, <1>6, <1>7, LeaseKinds
  <2>2. ASSUME NEW c \in Callers, lease'[c].at = "held"
        PROVE  lease'[c].account \in leased'
    <3>1. CASE \E i \in 1..k : ws[i] = c /\ lease'[c].account = give[i]
      BY <1>4, <3>1
    <3>2. CASE lease'[c] = L[c]
      BY <1>10, <2>2, <3>2 DEF Owned
    <3> QED
      BY <2>1, <2>2, <3>1, <3>2
  <2>3. ASSUME NEW c \in Callers, NEW d \in Callers,
               lease'[c].at = "held", lease'[d].at = "held",
               lease'[c].account = lease'[d].account
        PROVE  c = d
    <3>1. \A i \in 1..k : give[i] \notin ls
      BY <1>1, <1>5
    <3> QED
      BY <1>5, <2>1, <2>3, <3>1 DEF Owned
  <2>4. ASSUME NEW a \in leased'
        PROVE  \E c \in Callers : lease'[c].at = "held" /\ lease'[c].account = a
    <3>1. CASE a \in ls
      <4>1. PICK c \in Callers : L[c].at = "held" /\ L[c].account = a
        BY <3>1 DEF Owned
      <4>2. \A i \in 1..k : ws[i] # c
        BY <1>8, <4>1, LeaseKinds
      <4> QED
        BY <1>7, <4>1, <4>2
    <3>2. CASE \E i \in 1..k : a = give[i]
      <4>1. PICK i \in 1..k : a = give[i]
        BY <3>2
      <4>2. a \in Accounts
        BY <1>1, <1>5, <4>1
      <4> QED
        BY <1>6, <1>8, <4>1, <4>2, LeaseKinds
    <3> QED
      BY <1>4, <3>1, <3>2
  <2> QED
    BY <2>2, <2>3, <2>4 DEF Owned
<1>12. /\ waiters' \in Seq(Callers)
       /\ Len(waiters') = Len(ws) - k
       /\ \A i \in 1..Len(waiters') : waiters'[i] = ws[k + i]
  <2>1. /\ k + 1 \in Int /\ Len(ws) \in Int
        /\ \A i \in (k + 1)..Len(ws) : ws[i] \in Callers
    BY <1>2, <1>3
  <2>2. /\ waiters' \in Seq(Callers)
        /\ Len(waiters') = IF k + 1 <= Len(ws) THEN Len(ws) - (k + 1) + 1 ELSE 0
        /\ \A i \in 1 .. Len(ws) - (k + 1) + 1 : waiters'[i] = ws[(k + 1) + i - 1]
    BY <1>4, <2>1, SubSeqProperties
  <2>3. Len(waiters') = Len(ws) - k
    BY <1>2, <1>3, <2>2
  <2>4. ASSUME NEW i \in 1..Len(waiters') PROVE waiters'[i] = ws[k + i]
    <3>1. i \in 1 .. Len(ws) - (k + 1) + 1 /\ (k + 1) + i - 1 = k + i
      BY <1>2, <1>3, <2>3, <2>4
    <3> QED
      BY <2>2, <3>1
  <2> QED
    BY <2>2, <2>3, <2>4
<1>13. Queued(waiters', lease')
  <2>1. \A i, j \in 1..Len(waiters') : waiters'[i] = waiters'[j] => i = j
    <3> SUFFICES ASSUME NEW i \in 1..Len(waiters'), NEW j \in 1..Len(waiters'),
                        waiters'[i] = waiters'[j]
                 PROVE  i = j
      OBVIOUS
    <3>1. k + i \in 1..Len(ws) /\ k + j \in 1..Len(ws)
      BY <1>2, <1>3, <1>12
    <3>2. ws[k + i] = ws[k + j]
      BY <1>12
    <3>3. k + i = k + j
      BY <3>1, <3>2 DEF Queued
    <3> QED
      BY <1>3, <3>3
  <2>2. ASSUME NEW c \in Callers
        PROVE  lease'[c] = Waiting <=> \E i \in 1..Len(waiters') : waiters'[i] = c
    <3>1. CASE \E i \in 1..k : ws[i] = c
      <4>1. PICK i \in 1..k : ws[i] = c
        BY <3>1
      <4>2. lease'[c] # Waiting
        BY <1>1, <1>5, <1>6, <4>1, LeaseKinds
      <4>3. \A j \in 1..Len(waiters') : waiters'[j] # c
        <5> SUFFICES ASSUME NEW j \in 1..Len(waiters'), waiters'[j] = c
                     PROVE  FALSE
          OBVIOUS
        <5>1. /\ k + j \in 1..Len(ws) /\ i \in 1..Len(ws)
              /\ k + j # i
          BY <1>2, <1>3, <1>12
        <5>2. ws[k + j] = ws[i]
          BY <1>12, <4>1
        <5> QED
          BY <5>1, <5>2 DEF Queued
      <4> QED
        BY <4>2, <4>3
    <3>2. CASE \A i \in 1..k : ws[i] # c
      <4>1. L[c] = Waiting <=> \E i \in 1..Len(ws) : ws[i] = c
        BY DEF Queued
      <4>2. ASSUME NEW i \in 1..Len(ws), ws[i] = c
            PROVE  \E j \in 1..Len(waiters') : waiters'[j] = c
        <5>1. i - k \in 1..Len(waiters') /\ k + (i - k) = i
          BY <1>2, <1>3, <1>12, <3>2, <4>2
        <5> QED
          BY <1>12, <4>2, <5>1
      <4>3. ASSUME NEW j \in 1..Len(waiters'), waiters'[j] = c
            PROVE  \E i \in 1..Len(ws) : ws[i] = c
        <5>1. k + j \in 1..Len(ws)
          BY <1>2, <1>3, <1>12
        <5> QED
          BY <1>12, <4>3, <5>1
      <4> QED
        BY <1>7, <3>2, <4>1, <4>2, <4>3
    <3> QED
      BY <3>1, <3>2
  <2> QED
    BY <1>12, <2>1, <2>2 DEF Queued
<1>14. ASSUME waiters' # <<>>
       PROVE  AvailableIn(es, leased') = {} /\ Len(ws) - k > 0
  <2>1. Len(waiters') # 0
    BY <1>12, <1>14
  <2>2. k < Len(ws) /\ k = Cardinality(idle)
    BY <1>2, <1>3, <1>12, <2>1
  <2>3. Cardinality(1..k) = k
    BY <1>3, FS_Interval
  <2>4. give \in Surjection(1..k, idle)
    BY <1>1, <2>2, <2>3, FS_Injection
  <2>5. \A a \in idle : \E i \in 1..k : give[i] = a
    BY <2>4 DEF Surjection
  <2>6. idle \subseteq leased'
    BY <1>4, <2>5
  <2>7. AvailableIn(es, leased') = {}
    BY <1>10, <2>6 DEF AvailableIn, idle
  <2>8. Len(ws) - k > 0
    BY <1>2, <1>3, <2>2
  <2> QED
    BY <2>7, <2>8
<1>15. /\ growth \in Nat
       /\ Cardinality(es) + n + growth <= MaxSize
       /\ Factory /\ Len(ws) - k > 0 => n + growth > 0 \/ Cardinality(es) >= MaxSize
  <2>1. Len(ws) - k \in Nat
    BY <1>2, <1>3
  <2> QED
    BY <1>1, <2>1, GrowthFacts DEF growth
<1>16. targetSize' \in Nat
  BY <1>1, <1>4, <1>15 DEF Larger
<1>17. entries' = es /\ creating' = n + growth
  BY <1>4
<1>18. /\ creating' \in Nat /\ creating' >= n
       /\ Cardinality(es) + creating' <= MaxSize
  BY <1>1, <1>15, <1>17
<1>19. Factory /\ waiters' # <<>> => creating' > 0 \/ Cardinality(es) >= MaxSize
  BY <1>14, <1>15, <1>17
<1> QED
  BY <1>9, <1>10, <1>11, <1>13, <1>14, <1>16, <1>17, <1>18, <1>19

(* A handler that ends with #dispatch keeps the invariant, if the state it *)
(* has made is exclusive and its queue in order.                           *)
LEMMA DispatchInv ==
  ASSUME NEW es \in SUBSET Accounts, NEW ls \in SUBSET es, NEW ws,
         NEW n \in Nat, NEW L \in [Callers -> Leases],
         Owned(ls, L), Queued(ws, L),
         Cardinality(es) + n <= MaxSize, targetSize \in Nat,
         retire \subseteq ls, poolClosed \in BOOLEAN,
         Dispatch(es, ls, ws, n, L),
         UNCHANGED <<retire, poolClosed>>,
         discarding' \in Nat, discarding' <= n, ResizeIsSound'
  PROVE  PoolInv'
<1>1. /\ entries' = es
      /\ leased' \subseteq es /\ ls \subseteq leased'
      /\ lease' \in [Callers -> Leases]
      /\ Owned(leased', lease')
      /\ Queued(waiters', lease')
      /\ waiters' # <<>> => AvailableIn(es, leased') = {}
      /\ creating' \in Nat /\ creating' >= n
      /\ Cardinality(es) + creating' <= MaxSize
      /\ targetSize' \in Nat
      /\ Factory /\ waiters' # <<>> =>
           creating' > 0 \/ Cardinality(es) >= MaxSize
  BY DispatchEffect
<1>2. waiters' # <<>> => Available' = {}
  BY <1>1 DEF Available, AvailableIn
<1>3. CountsAreSound'
  BY <1>1 DEF CountsAreSound, WithinMax
<1>4. Served'
  <2> SUFFICES ASSUME Factory, waiters' # <<>>, ~(creating' > 0)
               PROVE  \E c \in Callers : lease'[c].at = "held"
    BY DEF Served, NoneStranded
  <2>1. Cardinality(es) >= MaxSize /\ MaxSize > 0 /\ MaxSize \in Nat
    BY <1>1, PoolAssumption
  <2>2. es # {}
    <3>1. Cardinality({}) = 0
      BY FS_EmptySet
    <3>2. Cardinality(es) # 0
      BY <2>1
    <3> QED
      BY <3>1, <3>2
  <2>3. es \subseteq leased'
    BY <1>1 DEF AvailableIn
  <2> QED
    BY <1>1, <2>2, <2>3 DEF Owned
<1> QED
  BY <1>1, <1>2, <1>3, <1>4 DEF PoolInv

-----------------------------------------------------------------------------
(* What happens to one lease.                                              *)

LEMMA OwnedElsewhere ==
  ASSUME NEW ls, NEW L \in [Callers -> Leases], Owned(ls, L),
         NEW c \in Callers, L[c].at # "held", NEW v \in Leases, v.at # "held"
  PROVE  Owned(ls, [L EXCEPT ![c] = v])
<1> DEFINE M == [L EXCEPT ![c] = v]
<1>1. M[c] = v /\ \A d \in Callers : d # c => M[d] = L[d]
  OBVIOUS
<1> HIDE DEF M
<1>2. Owned(ls, M)
  BY <1>1 DEF Owned
<1> QED
  BY <1>2 DEF M

LEMMA OwnedReleased ==
  ASSUME NEW ls, NEW L \in [Callers -> Leases], Owned(ls, L),
         NEW c \in Callers, L[c].at = "held", NEW v \in Leases, v.at # "held"
  PROVE  Owned(ls \ {L[c].account}, [L EXCEPT ![c] = v])
<1> DEFINE M == [L EXCEPT ![c] = v]
<1>1. M[c] = v /\ \A d \in Callers : d # c => M[d] = L[d]
  OBVIOUS
<1> HIDE DEF M
<1>2. Owned(ls \ {L[c].account}, M)
  BY <1>1 DEF Owned
<1> QED
  BY <1>2 DEF M

LEMMA OwnedGranted ==
  ASSUME NEW ls, NEW L \in [Callers -> Leases], Owned(ls, L),
         NEW c \in Callers, L[c].at # "held", NEW a \in Accounts, a \notin ls
  PROVE  Owned(ls \cup {a}, [L EXCEPT ![c] = Held(a)])
<1> DEFINE M == [L EXCEPT ![c] = Held(a)]
<1>1. M[c] = Held(a) /\ \A d \in Callers : d # c => M[d] = L[d]
  OBVIOUS
<1>2. Held(a).at = "held" /\ Held(a).account = a
  BY LeaseKinds
<1> HIDE DEF M
<1>3. Owned(ls \cup {a}, M)
  BY <1>1, <1>2 DEF Owned
<1> QED
  BY <1>3 DEF M

LEMMA QueuedElsewhere ==
  ASSUME NEW ws, NEW L \in [Callers -> Leases], Queued(ws, L),
         NEW c \in Callers, L[c] # Waiting, NEW v \in Leases, v # Waiting
  PROVE  Queued(ws, [L EXCEPT ![c] = v])
<1> DEFINE M == [L EXCEPT ![c] = v]
<1>1. M[c] = v /\ \A d \in Callers : d # c => M[d] = L[d]
  OBVIOUS
<1> HIDE DEF M
<1>2. Queued(ws, M)
  BY <1>1 DEF Queued
<1> QED
  BY <1>2 DEF M

LEMMA QueuedLast ==
  ASSUME NEW ws, NEW L \in [Callers -> Leases], Queued(ws, L),
         NEW c \in Callers, L[c] # Waiting
  PROVE  Queued(Append(ws, c), [L EXCEPT ![c] = Waiting])
<1> DEFINE M == [L EXCEPT ![c] = Waiting]
           new == Append(ws, c)
<1>1. M[c] = Waiting /\ \A d \in Callers : d # c => M[d] = L[d]
  OBVIOUS
<1>2. /\ new \in Seq(Callers) /\ Len(new) = Len(ws) + 1
      /\ \A i \in 1..Len(ws) : new[i] = ws[i]
      /\ new[Len(ws) + 1] = c
      /\ Len(ws) \in Nat
  BY AppendProperties, LenProperties DEF Queued
<1> HIDE DEF M, new
<1>3. \A i \in 1..Len(ws) : ws[i] # c
  BY DEF Queued
<1>4. \A i \in 1..Len(new) : i \in 1..Len(ws) \/ i = Len(ws) + 1
  BY <1>2
<1>5. \A i, j \in 1..Len(new) : new[i] = new[j] => i = j
  BY <1>2, <1>3, <1>4 DEF Queued
<1>6. ASSUME NEW d \in Callers
      PROVE  M[d] = Waiting <=> \E i \in 1..Len(new) : new[i] = d
  <2>1. CASE d = c
    <3>1. Len(ws) + 1 \in 1..Len(new)
      BY <1>2
    <3> QED
      BY <1>1, <1>2, <2>1, <3>1
  <2>2. CASE d # c
    <3>1. L[d] = Waiting <=> \E i \in 1..Len(ws) : ws[i] = d
      BY DEF Queued
    <3>2. 1..Len(ws) \subseteq 1..Len(new)
      BY <1>2
    <3> QED
      BY <1>1, <1>2, <1>4, <2>2, <3>1, <3>2
  <2> QED
    BY <2>1, <2>2
<1>7. Queued(new, M)
  BY <1>2, <1>5, <1>6 DEF Queued
<1> QED
  BY <1>7 DEF new, M

(* An element is taken out of a sequence, wherever it stands.              *)
LEMMA Removal ==
  ASSUME NEW S, NEW s \in Seq(S), NEW p \in 1..Len(s)
  PROVE  LET new == SubSeq(s, 1, p - 1) \o SubSeq(s, p + 1, Len(s))
         IN  /\ new \in Seq(S)
             /\ Len(new) = Len(s) - 1
             /\ \A i \in 1..Len(new) : new[i] = s[IF i < p THEN i ELSE i + 1]
<1> DEFINE front == SubSeq(s, 1, p - 1)
           back == SubSeq(s, p + 1, Len(s))
           new == front \o back
<1>1. /\ Len(s) \in Nat /\ p \in Nat /\ p >= 1 /\ p <= Len(s)
      /\ \A i \in 1..Len(s) : s[i] \in S
  BY LenProperties
<1>2. /\ front \in Seq(S) /\ Len(front) = p - 1
      /\ \A i \in 1..(p - 1) : front[i] = s[i]
  <2>1. /\ 1 \in Int /\ p - 1 \in Int
        /\ \A i \in 1..(p - 1) : s[i] \in S
    BY <1>1
  <2>2. /\ front \in Seq(S)
        /\ Len(front) = IF 1 <= p - 1 THEN (p - 1) - 1 + 1 ELSE 0
        /\ \A i \in 1 .. (p - 1) - 1 + 1 : front[i] = s[1 + i - 1]
    BY <2>1, SubSeqProperties
  <2> QED
    BY <1>1, <2>2
<1>3. /\ back \in Seq(S) /\ Len(back) = Len(s) - p
      /\ \A i \in 1..(Len(s) - p) : back[i] = s[p + i]
  <2>1. /\ p + 1 \in Int /\ Len(s) \in Int
        /\ \A i \in (p + 1)..Len(s) : s[i] \in S
    BY <1>1
  <2>2. /\ back \in Seq(S)
        /\ Len(back) = IF p + 1 <= Len(s) THEN Len(s) - (p + 1) + 1 ELSE 0
        /\ \A i \in 1 .. Len(s) - (p + 1) + 1 : back[i] = s[(p + 1) + i - 1]
    BY <2>1, SubSeqProperties
  <2> QED
    BY <1>1, <2>2
<1> HIDE DEF front, back
<1>4. /\ new \in Seq(S) /\ Len(new) = Len(s) - 1
      /\ \A i \in 1..Len(new) : new[i] = s[IF i < p THEN i ELSE i + 1]
  <2>1. /\ new \in Seq(S) /\ Len(new) = Len(front) + Len(back)
        /\ \A i \in 1 .. Len(front) + Len(back) :
             new[i] = IF i <= Len(front) THEN front[i] ELSE back[i - Len(front)]
    BY <1>2, <1>3, ConcatProperties
  <2>2. Len(new) = Len(s) - 1
    BY <1>1, <1>2, <1>3, <2>1
  <2>3. ASSUME NEW i \in 1..Len(new)
        PROVE  new[i] = s[IF i < p THEN i ELSE i + 1]
    <3>1. CASE i < p
      BY <1>1, <1>2, <2>1, <2>2, <3>1
    <3>2. CASE i >= p
      <4>1. new[i] = back[i - (p - 1)]
        BY <1>1, <1>2, <1>3, <2>1, <2>2, <3>2
      <4>2. i - (p - 1) \in 1..(Len(s) - p) /\ p + (i - (p - 1)) = i + 1
        BY <1>1, <2>2, <3>2
      <4> QED
        BY <1>1, <1>3, <3>2, <4>1, <4>2
    <3> QED
      BY <1>1, <3>1, <3>2
  <2> QED
    BY <2>1, <2>2, <2>3
<1> QED
  BY <1>4 DEF new, front, back

(* What is left of a sequence without repetitions keeps its order.         *)
In(t, s) == \E i \in 1..Len(s) : s[i] = t
Distinct(s) == \A i, j \in 1..Len(s) : s[i] = s[j] => i = j

LEMMA WithoutOne ==
  ASSUME NEW S, NEW s \in Seq(S), Distinct(s), NEW p \in 1..Len(s)
  PROVE  LET new == RemoveIndex(s, p)
         IN  /\ new \in Seq(S) /\ Len(new) = Len(s) - 1
             /\ Distinct(new)
             /\ \A t : In(t, new) <=> In(t, s) /\ t # s[p]
             /\ \A i, j \in 1..Len(new) : i < j =>
                  \E k, l \in 1..Len(s) : k < l /\ new[i] = s[k] /\ new[j] = s[l]
<1> DEFINE new == RemoveIndex(s, p)
           from(i) == IF i < p THEN i ELSE i + 1
<1>1. Len(s) \in Nat /\ p \in Nat /\ p >= 1 /\ p <= Len(s)
  BY LenProperties
<1>2. /\ new \in Seq(S) /\ Len(new) = Len(s) - 1
      /\ \A i \in 1..Len(new) : new[i] = s[from(i)]
  BY Removal DEF RemoveIndex
<1> HIDE DEF new
<1>3. \A i \in 1..Len(new) : from(i) \in 1..Len(s) /\ from(i) # p
  BY <1>1, <1>2
<1>4. \A i \in 1..Len(s) : i # p => \E j \in 1..Len(new) : from(j) = i
  <2> TAKE i \in 1..Len(s)
  <2>1. CASE i < p
    BY <1>1, <1>2, <2>1
  <2>2. CASE i > p
    <3>1. i - 1 \in 1..Len(new) /\ from(i - 1) = i
      BY <1>1, <1>2, <2>2
    <3> QED
      BY <3>1
  <2> QED
    BY <1>1, <2>1, <2>2
<1>5. \A i, j \in 1..Len(new) : /\ from(i) = from(j) => i = j
                                /\ i < j => from(i) < from(j)
  BY <1>1, <1>2
<1> HIDE DEF from
<1>6. Distinct(new)
  BY <1>2, <1>3, <1>5 DEF Distinct
<1>7. ASSUME NEW t
      PROVE  In(t, new) <=> In(t, s) /\ t # s[p]
  <2>1. ASSUME NEW i \in 1..Len(new), new[i] = t
        PROVE  In(t, s) /\ t # s[p]
    BY <1>2, <1>3, <2>1 DEF In, Distinct
  <2>2. ASSUME NEW i \in 1..Len(s), s[i] = t, t # s[p]
        PROVE  In(t, new)
    BY <1>2, <1>4, <2>2 DEF In
  <2> QED
    BY <2>1, <2>2 DEF In
<1>8. ASSUME NEW i \in 1..Len(new), NEW j \in 1..Len(new), i < j
      PROVE  \E k, l \in 1..Len(s) : k < l /\ new[i] = s[k] /\ new[j] = s[l]
  BY <1>2, <1>3, <1>5, <1>8
<1> QED
  BY <1>2, <1>6, <1>7, <1>8 DEF new

(* One waiter is taken out of the queue, wherever it stands.               *)
LEMMA QueuedWithout ==
  ASSUME NEW ws, NEW L \in [Callers -> Leases], Queued(ws, L),
         NEW p \in 1..Len(ws), NEW v \in Leases, v # Waiting
  PROVE  Queued(RemoveIndex(ws, p), [L EXCEPT ![ws[p]] = v])
<1> DEFINE c == ws[p]
           M == [L EXCEPT ![c] = v]
           new == RemoveIndex(ws, p)
<1>1. ws \in Seq(Callers) /\ Distinct(ws)
  BY DEF Queued, Distinct
<1>2. c \in Callers /\ M[c] = v /\ \A d \in Callers : d # c => M[d] = L[d]
  BY <1>1
<1>3. /\ new \in Seq(Callers) /\ Distinct(new)
      /\ \A t : In(t, new) <=> In(t, ws) /\ t # c
  BY <1>1, WithoutOne
<1> HIDE DEF c, M, new
<1>4. \A d \in Callers : M[d] = Waiting <=> In(d, new)
  BY <1>2, <1>3 DEF Queued, In
<1>5. Queued(new, M)
  BY <1>3, <1>4 DEF Queued, In, Distinct
<1> QED
  BY <1>5 DEF new, M, c

-----------------------------------------------------------------------------
(* The pool starts and stays sound.                                        *)

LEMMA PoolInitInv == PoolInit => PoolInv
<1> SUFFICES ASSUME PoolInit PROVE PoolInv
  OBVIOUS
<1>1. /\ entries \subseteq Accounts /\ leased \subseteq entries
      /\ retire \subseteq leased
  BY PoolAssumption DEF PoolInit
<1>2. lease \in [Callers -> Leases] /\ \A c \in Callers : lease[c] = NoLease
  BY LeaseKinds DEF PoolInit
<1>3. Owned(leased, lease)
  BY <1>2, LeaseKinds DEF PoolInit, Owned
<1>4. Queued(waiters, lease)
  BY <1>2, LeaseKinds DEF PoolInit, Queued
<1>5. CountsAreSound
  <2>1. Cardinality(InitialAccounts) \in Nat
    BY PoolAssumption, SubsetOfAccounts
  <2> QED
    <3>1. /\ entries = InitialAccounts /\ creating = 0 /\ discarding = 0
          /\ targetSize = Cardinality(InitialAccounts) /\ poolClosed = FALSE
      BY DEF PoolInit
    <3>2. Cardinality(entries) + creating <= MaxSize
      BY <2>1, <3>1, PoolAssumption
    <3>3. creating \in Nat /\ discarding \in Nat /\ discarding <= creating
      BY <3>1
    <3>4. targetSize \in Nat /\ poolClosed \in BOOLEAN
      BY <2>1, <3>1
    <3> QED
      BY <3>2, <3>3, <3>4 DEF CountsAreSound, WithinMax
<1>6. ResizeIsSound
  BY DEF PoolInit, ResizeIsSound, NoResize
<1>7. waiters = <<>>
  BY DEF PoolInit
<1> QED
  BY <1>1, <1>2, <1>3, <1>4, <1>5, <1>6, <1>7 DEF PoolInv, Served, NoneStranded

(* What every handler may rely on.                                         *)
LEMMA PoolFacts ==
  ASSUME PoolInv
  PROVE  /\ entries \in SUBSET Accounts /\ leased \in SUBSET entries
         /\ lease \in [Callers -> Leases]
         /\ Owned(leased, lease) /\ Queued(waiters, lease)
         /\ Cardinality(entries) \in Nat
         /\ creating \in Nat /\ discarding \in Nat /\ discarding <= creating
         /\ targetSize \in Nat /\ poolClosed \in BOOLEAN
         /\ Cardinality(entries) + creating <= MaxSize
         /\ retire \subseteq leased
BY SubsetOfAccounts DEF PoolInv, CountsAreSound, WithinMax

LEMMA LeaseInv ==
  ASSUME PoolInv, NEW c \in Callers, Lease(c)
  PROVE  PoolInv'
<1>1. lease[c] = NoLease
  BY DEF Lease
<1>2. lease[c].at # "held" /\ lease[c] # Waiting
  BY <1>1, LeaseKinds
<1>3. UNCHANGED <<retire, discarding, poolClosed, resizing>>
  BY DEF Lease
<1>4. CASE /\ lease' = [lease EXCEPT ![c] = Refused]
           /\ UNCHANGED <<entries, leased, waiters, creating, targetSize>>
  <2>1. lease' \in [Callers -> Leases]
    BY <1>4, LeaseKinds, PoolFacts
  <2>2. Owned(leased', lease') /\ Queued(waiters', lease')
    BY <1>2, <1>4, LeaseKinds, PoolFacts, OwnedElsewhere, QueuedElsewhere
  <2>3. Served'
    <3>1. \A d \in Callers : lease[d].at \in {"held", "returning"} =>
            lease'[d] = lease[d]
      BY <1>1, <1>4, LeaseKinds, PoolFacts
    <3> QED
      BY <1>4, <3>1 DEF PoolInv, Served, NoneStranded
  <2> QED
    BY <1>3, <1>4, <2>1, <2>2, <2>3
       DEF PoolInv, Available, AvailableIn, CountsAreSound, WithinMax,
           ResizeIsSound
<1>5. ASSUME NEW a \in Available,
             leased' = leased \cup {a},
             lease' = [lease EXCEPT ![c] = Held(a)],
             UNCHANGED <<entries, waiters, creating, targetSize>>
      PROVE  PoolInv'
  <2>1. a \in entries /\ a \notin leased /\ a \in Accounts
    BY PoolFacts DEF Available, AvailableIn
  <2>2. waiters' = <<>>
    BY <1>5 DEF PoolInv
  <2>3. lease' \in [Callers -> Leases]
    BY <1>5, <2>1, LeaseKinds, PoolFacts
  <2>4. Owned(leased', lease') /\ Queued(waiters', lease')
    BY <1>2, <1>5, <2>1, LeaseKinds, PoolFacts, OwnedGranted, QueuedElsewhere
  <2> QED
    BY <1>3, <1>5, <2>1, <2>2, <2>3, <2>4, PoolFacts
       DEF PoolInv, Served, NoneStranded, CountsAreSound, WithinMax,
           ResizeIsSound
<1>6. ASSUME Dispatch(entries, leased, Append(waiters, c), creating,
                      [lease EXCEPT ![c] = Waiting])
      PROVE  PoolInv'
  <2> DEFINE L == [lease EXCEPT ![c] = Waiting]
             ws == Append(waiters, c)
  <2>1. L \in [Callers -> Leases]
    BY LeaseKinds, PoolFacts
  <2>2. Owned(leased, L) /\ Queued(ws, L)
    BY <1>2, LeaseKinds, PoolFacts, OwnedElsewhere, QueuedLast
  <2>3. ResizeIsSound'
    BY <1>3 DEF PoolInv, ResizeIsSound
  <2>4. Dispatch(entries, leased, ws, creating, L)
    BY <1>6
  <2> HIDE DEF L, ws
  <2> QED
    BY <1>3, <2>1, <2>2, <2>3, <2>4, PoolFacts, DispatchInv
<1> QED
  BY <1>4, <1>5, <1>6 DEF Lease

LEMMA AbandonInv ==
  ASSUME PoolInv, NEW c \in Callers, Abandon(c)
  PROVE  PoolInv'
<1>1. /\ lease[c] = Waiting
      /\ waiters' = Without(c)
      /\ lease' = [lease EXCEPT ![c] = Refused]
      /\ UNCHANGED <<entries, leased, retire, creating, discarding,
                     targetSize, poolClosed, resizing>>
  BY DEF Abandon
<1>2. /\ DOMAIN waiters = 1..Len(waiters)
      /\ \E i \in 1..Len(waiters) : waiters[i] = c
  BY <1>1, PoolFacts, LenProperties DEF Queued
<1>3. /\ Position(c) \in 1..Len(waiters)
      /\ waiters[Position(c)] = c
  BY <1>2 DEF Position
<1>4. Queued(waiters', lease')
  <2>1. Queued(SubSeq(waiters, 1, Position(c) - 1)
                 \o SubSeq(waiters, Position(c) + 1, Len(waiters)),
               [lease EXCEPT ![waiters[Position(c)]] = Refused])
    BY <1>3, LeaseKinds, PoolFacts, QueuedWithout DEF RemoveIndex
  <2> QED
    BY <1>1, <1>3, <2>1 DEF Without
<1>5. lease' \in [Callers -> Leases] /\ Owned(leased', lease')
  BY <1>1, LeaseKinds, PoolFacts, OwnedElsewhere
<1>6. waiters # <<>>
  BY <1>2
<1>7. Served'
  <2>1. \A d \in Callers : lease[d].at \in {"held", "returning"} =>
          lease'[d] = lease[d]
    BY <1>1, LeaseKinds, PoolFacts
  <2> QED
    BY <1>1, <1>6, <2>1 DEF PoolInv, Served, NoneStranded
<1> QED
  BY <1>1, <1>4, <1>5, <1>6, <1>7
     DEF PoolInv, Available, AvailableIn, CountsAreSound, WithinMax,
         ResizeIsSound

LEMMA ForgetInv ==
  ASSUME PoolInv, NEW c \in Callers, Forget(c)
  PROVE  PoolInv'
<1>1. /\ lease[c] = Refused
      /\ lease' = [lease EXCEPT ![c] = NoLease]
      /\ UNCHANGED <<entries, leased, retire, waiters, creating, discarding,
                     targetSize, poolClosed, resizing>>
  BY DEF Forget
<1>2. lease' \in [Callers -> Leases] /\ Owned(leased', lease')
  BY <1>1, LeaseKinds, PoolFacts, OwnedElsewhere
<1>3. Queued(waiters', lease')
  BY <1>1, LeaseKinds, PoolFacts, QueuedElsewhere
<1>4. Served'
  <2>1. \A d \in Callers : lease[d].at \in {"held", "returning"} =>
          lease'[d] = lease[d]
    BY <1>1, LeaseKinds, PoolFacts
  <2> QED
    BY <1>1, <2>1 DEF PoolInv, Served, NoneStranded
<1> QED
  BY <1>1, <1>2, <1>3, <1>4
     DEF PoolInv, Available, AvailableIn, CountsAreSound, WithinMax,
         ResizeIsSound

LEMMA ReleaseInv ==
  ASSUME PoolInv, NEW c \in Callers, Release(c)
  PROVE  PoolInv'
<1> DEFINE a == lease[c].account
<1>1. /\ lease[c].at = "held"
      /\ UNCHANGED <<discarding, poolClosed, resizing>>
  BY DEF Release
<1>2. a \in Accounts /\ a \in leased /\ a \in entries /\ lease[c] # Waiting
  BY <1>1, LeaseKinds, PoolFacts DEF Owned
<1>3. ResizeIsSound'
  BY <1>1 DEF PoolInv, ResizeIsSound
<1>4. ASSUME ~Unneeded(a),
             Dispatch(entries, leased \ {a}, waiters, creating,
                      [lease EXCEPT ![c] = NoLease]),
             UNCHANGED retire
      PROVE  PoolInv'
  <2> DEFINE L == [lease EXCEPT ![c] = NoLease]
             ls == leased \ {a}
  <2>1. L \in [Callers -> Leases]
    BY LeaseKinds, PoolFacts
  <2>2. Owned(ls, L) /\ Queued(waiters, L)
    BY <1>1, <1>2, LeaseKinds, PoolFacts, OwnedReleased, QueuedElsewhere
  <2>3. ls \in SUBSET entries /\ retire \subseteq ls
    BY <1>4, PoolFacts DEF Unneeded
  <2>4. Dispatch(entries, ls, waiters, creating, L)
    BY <1>4
  <2> HIDE DEF L, ls
  <2> QED
    BY <1>1, <1>3, <1>4, <2>1, <2>2, <2>3, <2>4, PoolFacts, DispatchInv
<1>5. ASSUME entries' = entries \ {a},
             leased' = leased \ {a},
             retire' = retire \ {a},
             lease' = [lease EXCEPT ![c] = Returning(a)],
             UNCHANGED <<waiters, creating, targetSize>>
      PROVE  PoolInv'
  <2>1. lease' \in [Callers -> Leases] /\ lease'[c] = Returning(a)
    BY <1>2, <1>5, LeaseKinds, PoolFacts
  <2>2. Owned(leased', lease') /\ Queued(waiters', lease')
    BY <1>1, <1>2, <1>5, LeaseKinds, PoolFacts, OwnedReleased, QueuedElsewhere
  <2>3. Available' = Available
    BY <1>2, <1>5 DEF Available, AvailableIn
  <2>4. CountsAreSound'
    <3>1. Cardinality(entries \ {a}) <= Cardinality(entries)
          /\ Cardinality(entries \ {a}) \in Nat
      BY PoolFacts, SubsetOfAccounts, FS_Subset
    <3> QED
      <4>1. Cardinality(entries') + creating' <= MaxSize
        <5>1. /\ Cardinality(entries) \in Nat /\ creating \in Nat /\ MaxSize \in Nat
              /\ Cardinality(entries) + creating <= MaxSize
          BY PoolFacts, PoolAssumption
        <5> QED
          BY <1>5, <3>1, <5>1
      <4> QED
        BY <1>1, <1>5, <4>1, PoolFacts DEF CountsAreSound, WithinMax
  <2>5. Served'
    BY <1>2, <2>1, LeaseKinds DEF Served, NoneStranded
  <2> QED
    BY <1>3, <1>5, <2>1, <2>2, <2>3, <2>4, <2>5, PoolFacts DEF PoolInv
<1> QED
  BY <1>4, <1>5 DEF Release

LEMMA ReclaimedInv ==
  ASSUME PoolInv, NEW c \in Callers, Reclaimed(c)
  PROVE  PoolInv'
<1>1. /\ lease[c].at = "returning"
      /\ UNCHANGED <<retire, discarding, poolClosed, resizing>>
  BY DEF Reclaimed
<1>2. lease[c] # Waiting /\ lease[c].at # "held"
  BY <1>1, LeaseKinds
<1>3. ResizeIsSound'
  BY <1>1 DEF PoolInv, ResizeIsSound
<1>4. ASSUME Dispatch(entries, leased, waiters, creating,
                      [lease EXCEPT ![c] = NoLease])
      PROVE  PoolInv'
  <2> DEFINE L == [lease EXCEPT ![c] = NoLease]
  <2>1. L \in [Callers -> Leases]
    BY LeaseKinds, PoolFacts
  <2>2. Owned(leased, L) /\ Queued(waiters, L)
    BY <1>2, LeaseKinds, PoolFacts, OwnedElsewhere, QueuedElsewhere
  <2>3. Dispatch(entries, leased, waiters, creating, L)
    BY <1>4
  <2> HIDE DEF L
  <2> QED
    BY <1>1, <1>3, <2>1, <2>2, <2>3, PoolFacts, DispatchInv
<1>5. ASSUME ReclaimMayFail,
             lease' = [lease EXCEPT ![c] = Refused],
             UNCHANGED <<entries, leased, waiters, creating, targetSize>>
      PROVE  PoolInv'
  <2>1. lease' \in [Callers -> Leases]
    BY <1>5, LeaseKinds, PoolFacts
  <2>2. Owned(leased', lease') /\ Queued(waiters', lease')
    BY <1>2, <1>5, LeaseKinds, PoolFacts, OwnedElsewhere, QueuedElsewhere
  <2>3. Served'
    BY <1>5 DEF Served
  <2> QED
    BY <1>1, <1>3, <1>5, <2>1, <2>2, <2>3
       DEF PoolInv, Available, AvailableIn, CountsAreSound, WithinMax
<1> QED
  BY <1>4, <1>5 DEF Reclaimed

-----------------------------------------------------------------------------
(* What the factory and a resize do.                                       *)

LEMMA CreationOfInv ==
  ASSUME PoolInv, NEW own \in BOOLEAN, NEW ok \in BOOLEAN, CreationOf(own, ok)
  PROVE  ResizeIsSound'
<1>1. /\ resizing \in [at : {"none", "growing", "shrinking"}, size : Nat,
                       mine : Nat, todo : SUBSET Accounts, excess : Nat]
      /\ resizing.at = "shrinking" => resizing.excess > 0
  BY DEF PoolInv, ResizeIsSound
<1>2. CASE own /\ ok
  <2>1. resizing.mine - 1 \in Nat
    BY <1>1, <1>2 DEF CreationOf
  <2>2. resizing' = [resizing EXCEPT !.mine = @ - 1]
    BY <1>2 DEF CreationOf
  <2> QED
    BY <1>1, <2>1, <2>2 DEF ResizeIsSound
<1>3. CASE own /\ ~ok
  <2>1. resizing' = NoResize
    BY <1>3 DEF CreationOf
  <2> QED
    BY <2>1 DEF ResizeIsSound, NoResize
<1>4. CASE ~own
  <2>1. resizing' = resizing
    BY <1>4 DEF CreationOf
  <2> QED
    BY <1>1, <2>1 DEF ResizeIsSound
<1> QED
  BY <1>2, <1>3, <1>4

LEMMA CreateInv ==
  ASSUME PoolInv, NEW own \in BOOLEAN, Create(own)
  PROVE  PoolInv'
<1>1. PICK a \in Accounts \ entries :
         \/ /\ CreationOf(own, TRUE)
            /\ Dispatch(entries \cup {a}, leased, waiters, creating - 1, lease)
            /\ UNCHANGED discarding
         \/ /\ discarding' = discarding + 1
            /\ UNCHANGED <<entries, leased, waiters, creating, targetSize,
                           lease, resizing>>
  BY DEF Create
<1>2. creating > discarding /\ UNCHANGED <<retire, poolClosed>>
  BY DEF Create
<1>3. CASE /\ CreationOf(own, TRUE)
           /\ Dispatch(entries \cup {a}, leased, waiters, creating - 1, lease)
           /\ UNCHANGED discarding
  <2> DEFINE es == entries \cup {a}
             n == creating - 1
  <2>1. es \in SUBSET Accounts /\ leased \in SUBSET es
    BY PoolFacts
  <2>2. Cardinality(es) = Cardinality(entries) + 1
    BY PoolFacts, SubsetOfAccounts, FS_AddElement
  <2>3. n \in Nat /\ Cardinality(es) + n <= MaxSize /\ discarding <= n
    BY <1>2, <2>2, PoolFacts, PoolAssumption
  <2>4. ResizeIsSound'
    BY <1>3, CreationOfInv
  <2>5. Dispatch(es, leased, waiters, n, lease)
    BY <1>3
  <2> HIDE DEF es, n
  <2> QED
    BY <1>2, <1>3, <2>1, <2>3, <2>4, <2>5, PoolFacts, DispatchInv
<1>4. CASE /\ discarding' = discarding + 1
           /\ UNCHANGED <<entries, leased, waiters, creating, targetSize,
                          lease, resizing>>
  <2>1. CountsAreSound'
    BY <1>2, <1>4, PoolFacts DEF CountsAreSound, WithinMax
  <2> QED
    BY <1>2, <1>4, <2>1
       DEF PoolInv, Available, AvailableIn, ResizeIsSound, Served, NoneStranded
<1> QED
  BY <1>1, <1>3, <1>4

(* The oldest waiter is told that the creation it waited for failed.       *)
LEMMA FirstIsRejected ==
  ASSUME PoolInv
  PROVE  /\ FirstRejected \in [Callers -> Leases]
         /\ Owned(leased, FirstRejected)
         /\ Queued(AfterFirst, FirstRejected)
<1>1. CASE waiters = <<>>
  BY <1>1, PoolFacts DEF FirstRejected, AfterFirst
<1>2. CASE waiters # <<>>
  <2>1. /\ waiters \in Seq(Callers) /\ Len(waiters) \in Nat /\ Len(waiters) # 0
        /\ Head(waiters) = waiters[1]
    BY <1>2, PoolFacts, LenProperties DEF Queued
  <2>2. 1 \in 1..Len(waiters) /\ waiters[1] \in Callers
    BY <2>1
  <2>3. lease[waiters[1]] = Waiting
    BY <2>2, PoolFacts DEF Queued
  <2>4. FirstRejected = [lease EXCEPT ![waiters[1]] = Refused]
    BY <1>2, <2>1 DEF FirstRejected
  <2>5. Queued(SubSeq(waiters, 1, 1 - 1) \o SubSeq(waiters, 1 + 1, Len(waiters)),
               [lease EXCEPT ![waiters[1]] = Refused])
    BY <2>2, LeaseKinds, PoolFacts, QueuedWithout DEF RemoveIndex
  <2>6. SubSeq(waiters, 1, 1 - 1) \o SubSeq(waiters, 1 + 1, Len(waiters))
          = AfterFirst
    <3>1. SubSeq(waiters, 1, 1 - 1) = <<>>
      BY SubSeqEmpty
    <3>2. SubSeq(waiters, 1 + 1, Len(waiters)) = Tail(waiters)
      BY <1>2, <2>1, TailIsSubSeq
    <3>3. Tail(waiters) \in Seq(Callers)
      BY <1>2, <2>1, HeadTailProperties
    <3> QED
      BY <1>2, <3>1, <3>2, <3>3, ConcatEmptySeq DEF AfterFirst
  <2>7. Owned(leased, FirstRejected)
    BY <2>2, <2>3, <2>4, LeaseKinds, PoolFacts, OwnedElsewhere
  <2> QED
    BY <2>4, <2>5, <2>6, <2>7, LeaseKinds, PoolFacts
<1> QED
  BY <1>1, <1>2

LEMMA CreateFailsInv ==
  ASSUME PoolInv, NEW own \in BOOLEAN, CreateFails(own)
  PROVE  PoolInv'
<1> DEFINE n == creating - 1
<1>1. /\ creating > discarding
      /\ CreationOf(own, FALSE)
      /\ UNCHANGED <<retire, discarding, poolClosed>>
      /\ Dispatch(entries, leased, AfterFirst, n, FirstRejected)
  BY DEF CreateFails
<1>2. n \in Nat /\ Cardinality(entries) + n <= MaxSize /\ discarding <= n
  BY <1>1, PoolFacts, PoolAssumption
<1>3. ResizeIsSound'
  BY <1>1, CreationOfInv
<1> HIDE DEF n
<1> QED
  BY <1>1, <1>2, <1>3, PoolFacts, FirstIsRejected, DispatchInv

LEMMA DiscardInv ==
  ASSUME PoolInv, NEW own \in BOOLEAN, NEW ok \in BOOLEAN, Discard(own, ok)
  PROVE  PoolInv'
<1> DEFINE n == creating - 1
<1>1. /\ discarding > 0 /\ discarding' = discarding - 1
      /\ CreationOf(own, ok)
      /\ UNCHANGED <<retire, poolClosed>>
      /\ IF ok THEN Dispatch(entries, leased, waiters, n, lease)
               ELSE Dispatch(entries, leased, AfterFirst, n, FirstRejected)
  BY DEF Discard
<1>2. /\ n \in Nat /\ Cardinality(entries) + n <= MaxSize
      /\ discarding' \in Nat /\ discarding' <= n
  BY <1>1, PoolFacts, PoolAssumption
<1>3. ResizeIsSound'
  BY <1>1, CreationOfInv
<1> HIDE DEF n
<1>4. CASE ok
  BY <1>1, <1>2, <1>3, <1>4, PoolFacts, DispatchInv
<1>5. CASE ~ok
  BY <1>1, <1>2, <1>3, <1>5, PoolFacts, FirstIsRejected, DispatchInv
<1> QED
  BY <1>4, <1>5

LEMMA ResizeInv ==
  ASSUME PoolInv, NEW size \in 0..MaxSize, Resize(size)
  PROVE  PoolInv'
<1> DEFINE known == Cardinality(entries) + creating
           grow == IF size > known THEN size - known ELSE 0
<1>1. /\ targetSize' = size
      /\ creating' = creating + grow
      /\ resizing' = [NoResize EXCEPT !.at = "growing", !.size = size,
                                      !.mine = grow]
      /\ UNCHANGED <<entries, leased, retire, waiters, discarding, poolClosed,
                     lease>>
  BY DEF Resize
<1>2. size \in Nat /\ size <= MaxSize /\ MaxSize \in Nat
  BY PoolAssumption
<1>3. grow \in Nat /\ known + grow <= MaxSize
  BY <1>2, PoolFacts
<1>4. Cardinality(entries) + (creating + grow) <= MaxSize
  BY <1>3, PoolFacts
<1> HIDE DEF grow, known
<1>5. CountsAreSound'
  BY <1>1, <1>2, <1>3, <1>4, PoolFacts DEF CountsAreSound, WithinMax
<1>6. ResizeIsSound'
  BY <1>1, <1>2, <1>3 DEF ResizeIsSound, NoResize
<1>7. Served'
  BY <1>1, <1>3, PoolFacts DEF PoolInv, Served, NoneStranded
<1> QED
  BY <1>1, <1>5, <1>6, <1>7 DEF PoolInv, Available, AvailableIn

LEMMA MeasureInv ==
  ASSUME PoolInv, Measure
  PROVE  PoolInv'
<1>1. UNCHANGED <<entries, leased, retire, waiters, creating, discarding,
                  targetSize, poolClosed, lease>>
  BY DEF Measure
<1>2. ResizeIsSound'
  <2>1. resizing \in [at : {"none", "growing", "shrinking"}, size : Nat,
                      mine : Nat, todo : SUBSET Accounts, excess : Nat]
    BY DEF PoolInv, ResizeIsSound
  <2>2. CASE Cardinality(entries) <= resizing.size
    BY <2>2 DEF Measure, ResizeIsSound, NoResize
  <2>3. CASE Cardinality(entries) > resizing.size
    <3> DEFINE excess == Cardinality(entries) - resizing.size
    <3>1. excess \in Nat /\ excess > 0
      BY <2>1, <2>3, PoolFacts
    <3>2. resizing' = [resizing EXCEPT !.at = "shrinking", !.todo = entries,
                                       !.excess = excess]
      BY <2>1, <2>3, PoolFacts DEF Measure
    <3> HIDE DEF excess
    <3> QED
      BY <2>1, <3>1, <3>2, PoolFacts DEF ResizeIsSound
  <2> QED
    BY <2>1, <2>2, <2>3, PoolFacts
<1> QED
  BY <1>1, <1>2
     DEF PoolInv, Available, AvailableIn, CountsAreSound, WithinMax, Served,
         NoneStranded

LEMMA ShrinkInv ==
  ASSUME PoolInv, NEW a \in Accounts, Shrink(a)
  PROVE  PoolInv'
<1>1. /\ resizing.at = "shrinking"
      /\ UNCHANGED <<leased, waiters, creating, discarding, targetSize,
                     poolClosed, lease>>
  BY DEF Shrink
<1>2. ResizeIsSound'
  <2>1. /\ resizing \in [at : {"none", "growing", "shrinking"}, size : Nat,
                         mine : Nat, todo : SUBSET Accounts, excess : Nat]
        /\ resizing.excess > 0
    BY <1>1 DEF PoolInv, ResizeIsSound
  <2>2. resizing' = Visited(a) \/ resizing' = NoResize
    BY DEF Shrink
  <2>3. CASE resizing' = NoResize
    BY <2>3 DEF ResizeIsSound, NoResize
  <2>4. CASE resizing' # NoResize
    <3>1. /\ resizing.excess # 1
          /\ resizing' = [resizing EXCEPT !.excess = @ - 1, !.todo = @ \ {a}]
      BY <2>2, <2>4 DEF Visited
    <3>2. resizing.excess - 1 \in Nat /\ resizing.excess - 1 > 0
      BY <2>1, <3>1
    <3>3. resizing.todo \ {a} \in SUBSET Accounts
      BY <2>1
    <3> QED
      BY <2>1, <3>1, <3>2, <3>3 DEF ResizeIsSound
  <2> QED
    BY <2>3, <2>4
<1>3. \/ a \in leased /\ retire' = retire \cup {a} /\ entries' = entries
      \/ a \notin leased /\ retire' = retire \ {a} /\ entries' = entries \ {a}
  BY DEF Shrink
<1>4. /\ entries' \subseteq entries /\ leased' \subseteq entries'
      /\ retire' \subseteq leased'
      /\ Available' \subseteq Available
  BY <1>1, <1>3, PoolFacts DEF Available, AvailableIn
<1>5. CountsAreSound'
  <2>1. Cardinality(entries') \in Nat /\ Cardinality(entries') <= Cardinality(entries)
    BY <1>4, PoolFacts, SubsetOfAccounts, FS_Subset
  <2>2. Cardinality(entries') + creating <= MaxSize
    BY <2>1, PoolFacts, PoolAssumption
  <2> QED
    BY <1>1, <2>2, PoolFacts DEF CountsAreSound, WithinMax
<1> QED
  BY <1>1, <1>2, <1>4, <1>5 DEF PoolInv, Served, NoneStranded

LEMMA CloseInv ==
  ASSUME PoolInv, Close
  PROVE  PoolInv'
<1>1. /\ poolClosed' = TRUE /\ targetSize' = 0 /\ waiters' = <<>>
      /\ lease' = [c \in Callers |->
                     IF lease[c] = Waiting THEN Refused ELSE lease[c]]
      /\ entries' = entries \cap leased /\ retire' = entries \cap leased
      /\ UNCHANGED <<leased, creating, discarding, resizing>>
  BY DEF Close
<1>2. /\ lease' \in [Callers -> Leases]
      /\ \A c \in Callers : lease'[c] # Waiting
      /\ \A c \in Callers : lease'[c].at = "held" <=> lease[c].at = "held"
      /\ \A c \in Callers : lease[c].at = "held" => lease'[c] = lease[c]
  BY <1>1, LeaseKinds, PoolFacts
<1>3. Owned(leased', lease') /\ Queued(waiters', lease')
  <2>1. Owned(leased', lease')
    BY <1>1, <1>2, PoolFacts DEF Owned
  <2>2. Queued(waiters', lease')
    BY <1>1, <1>2 DEF Queued
  <2> QED
    BY <2>1, <2>2
<1>4. CountsAreSound'
  <2>1. Cardinality(entries') \in Nat /\ Cardinality(entries') <= Cardinality(entries)
    BY <1>1, PoolFacts, SubsetOfAccounts, FS_Subset
  <2>2. Cardinality(entries') + creating <= MaxSize
    BY <2>1, PoolFacts, PoolAssumption
  <2> QED
    BY <1>1, <2>2, PoolFacts DEF CountsAreSound, WithinMax
<1>5. /\ entries' \subseteq Accounts /\ leased' \subseteq entries'
      /\ retire' \subseteq leased'
  BY <1>1, PoolFacts
<1> QED
  BY <1>1, <1>2, <1>3, <1>4, <1>5
     DEF PoolInv, ResizeIsSound, Served, NoneStranded

LEMMA PoolNextInv == PoolInv /\ [PoolNext]_poolVars => PoolInv'
<1> SUFFICES ASSUME PoolInv, [PoolNext]_poolVars PROVE PoolInv'
  OBVIOUS
<1>1. ASSUME NEW c \in Callers,
             Lease(c) \/ Abandon(c) \/ Forget(c) \/ Release(c) \/ Reclaimed(c)
      PROVE  PoolInv'
  BY <1>1, LeaseInv, AbandonInv, ForgetInv, ReleaseInv, ReclaimedInv
<1>2. ASSUME NEW size \in 0..MaxSize, Resize(size)
      PROVE  PoolInv'
  BY <1>2, ResizeInv
<1>3. ASSUME NEW own \in BOOLEAN, Create(own) \/ CreateFails(own)
      PROVE  PoolInv'
  BY <1>3, CreateInv, CreateFailsInv
<1>4. ASSUME NEW own \in BOOLEAN, NEW ok \in BOOLEAN, Discard(own, ok)
      PROVE  PoolInv'
  BY <1>4, DiscardInv
<1>5. ASSUME NEW a \in Accounts, Shrink(a)
      PROVE  PoolInv'
  BY <1>5, ShrinkInv
<1>6. CASE PoolStep
  BY <1>3, <1>4, <1>5, <1>6, MeasureInv DEF PoolStep
<1>7. CASE UNCHANGED poolVars
  BY <1>7
     DEF poolVars, PoolInv, Available, AvailableIn, CountsAreSound, WithinMax,
         ResizeIsSound, Served, NoneStranded
<1> QED
  BY <1>1, <1>2, <1>6, <1>7, CloseInv DEF PoolNext

LEMMA PoolInvHolds == PoolSpec => []PoolInv
BY PoolInitInv, PoolNextInv, PTL DEF PoolSpec

(* The pool keeps its promises for any accounts, callers and bounds, with  *)
(* and without a factory: an account has one holder, maxSize is kept, and  *)
(* no lease waits beside an account it could have.                         *)
THEOREM PoolIsSafe == PoolSpec => []PoolSafe
<1>1. PoolInv => PoolSafe
  <2> SUFFICES ASSUME PoolInv PROVE PoolSafe
    OBVIOUS
  <2>1. Exclusive
    BY DEF PoolInv, Owned, Exclusive
  <2>2. DOMAIN waiters = 1..Len(waiters)
    BY LenProperties DEF PoolInv, Queued
  <2>3. NoIdleWhileWaiting
    BY <2>2 DEF PoolInv, Queued, NoIdleWhileWaiting
  <2> QED
    BY <2>1, <2>3 DEF PoolInv, CountsAreSound, PoolSafe
<1> QED
  BY <1>1, PoolInvHolds, PTL

(* With a factory whose reclamations succeed, whenever leases wait somebody *)
(* who will dispatch is under way, resizes and closing included.           *)
THEOREM NobodyIsStranded ==
  ASSUME Factory, ~ReclaimMayFail
  PROVE  PoolSpec => []NoneStranded
<1>1. PoolInv => NoneStranded
  BY DEF PoolInv, Served
<1> QED
  BY <1>1, PoolInvHolds, PTL
(* A non-empty set of numbers has a least element, so a set that holds 0   *)
(* and the successor of each of its elements holds every number.           *)
LEMMA LeastNumber ==
  ASSUME NEW S \in SUBSET Nat, S # {}
  PROVE  \E i \in S : \A j \in S : i <= j
<1>1. \E i \in S : \A j \in S : ~(<<j, i>> \in OpToRel(<, Nat))
  BY NatLessThanWellFounded, WFMin
<1>2. \A i, j \in Nat : j < i => <<j, i>> \in OpToRel(<, Nat)
  BY DEF OpToRel
<1>3. PICK i \in S : \A j \in S : ~(<<j, i>> \in OpToRel(<, Nat))
  BY <1>1
<1>4. \A j \in S : ~(j < i)
  BY <1>2, <1>3
<1> QED
  BY <1>4

LEMMA Counting ==
  ASSUME NEW S, 0 \in S, \A n \in Nat : n \in S => n + 1 \in S
  PROVE  Nat \subseteq S
<1> SUFFICES ASSUME Nat \ S # {} PROVE FALSE
  OBVIOUS
<1>1. PICK i \in Nat \ S : \A j \in Nat \ S : i <= j
  BY LeastNumber
<1>2. i # 0 /\ i - 1 \in Nat /\ i - 1 < i
  BY <1>1
<1>3. i - 1 \in S
  BY <1>1, <1>2
<1> QED
  BY <1>1, <1>2, <1>3

(* #schedule takes up to Concurrency turns, one after the other.           *)
Turn(q) == IF CanStart(q) THEN StartFirst(q) ELSE q

LEMMA ScheduleTakesTurns ==
  ASSUME NEW q
  PROVE  \E turn : /\ turn[0] = q
                   /\ \A n \in 1..Concurrency : turn[n] = Turn(turn[n - 1])
                   /\ Schedule(q) = turn[Concurrency]
<1> DEFINE Is(f, N) == f = [n \in 0..N |-> IF n = 0 THEN q ELSE Turn(f[n - 1])]
           S == {N \in Nat : \E f : Is(f, N)}
<1>1. 0 \in S
  <2>1. Is([n \in 0..0 |-> q], 0)
    OBVIOUS
  <2> QED
    BY <2>1
<1>2. ASSUME NEW N \in Nat, N \in S
      PROVE  N + 1 \in S
  <2>1. PICK f : Is(f, N)
    BY <1>2
  <2>2. \A n \in 0..N : f[n] = IF n = 0 THEN q ELSE Turn(f[n - 1])
    BY <2>1
  <2> DEFINE g == [n \in 0..(N + 1) |-> IF n <= N THEN f[n] ELSE Turn(f[N])]
  <2>3. \A n \in 0..N : g[n] = f[n]
    OBVIOUS
  <2>4. g[N + 1] = Turn(f[N])
    OBVIOUS
  <2>5. \A n \in 0..(N + 1) : g[n] = IF n = 0 THEN q ELSE Turn(g[n - 1])
    <3> TAKE n \in 0..(N + 1)
    <3>1. CASE n = 0
      BY <2>2, <2>3, <3>1
    <3>2. CASE n \in 1..N
      <4>1. n \in 0..N /\ n - 1 \in 0..N /\ n # 0
        BY <3>2
      <4>2. g[n] = f[n] /\ g[n - 1] = f[n - 1] /\ f[n] = Turn(f[n - 1])
        BY <2>2, <2>3, <4>1
      <4> HIDE DEF g
      <4> QED
        BY <4>1, <4>2
    <3>3. CASE n = N + 1
      <4>1. N \in 0..N /\ n - 1 = N /\ n # 0
        BY <3>3
      <4>2. g[N] = f[N]
        BY <2>3, <4>1
      <4> HIDE DEF g
      <4> QED
        BY <2>4, <3>3, <4>1, <4>2
    <3> QED
      BY <3>1, <3>2, <3>3
  <2>6. Is(g, N + 1)
    <3>1. g = [n \in 0..(N + 1) |-> g[n]]
      OBVIOUS
    <3> HIDE DEF g
    <3> QED
      BY <2>5, <3>1
  <2> HIDE DEF g
  <2>7. \E h : Is(h, N + 1)
    BY <2>6
  <2> QED
    BY <2>7
<1>3. Nat \subseteq S
  <2> HIDE DEF S
  <2> QED
    BY <1>1, <1>2, Counting
<1>4. Concurrency \in Nat
  BY QueueAssumption
<1>5. \E f : Is(f, Concurrency)
  BY <1>3, <1>4
<1> DEFINE turn == CHOOSE f : f = [n \in 0..Concurrency |->
                                     IF n = 0 THEN q
                                     ELSE IF CanStart(f[n - 1]) THEN StartFirst(f[n - 1])
                                     ELSE f[n - 1]]
<1>6. Schedule(q) = turn[Concurrency]
  BY DEF Schedule
<1>7. turn = [n \in 0..Concurrency |-> IF n = 0 THEN q
                                     ELSE IF CanStart(turn[n - 1]) THEN StartFirst(turn[n - 1])
                                     ELSE turn[n - 1]]
  BY <1>5 DEF Turn
<1> HIDE DEF turn
<1>8. \A n \in 0..Concurrency : turn[n] = IF n = 0 THEN q ELSE Turn(turn[n - 1])
  BY <1>7 DEF Turn
<1>9. turn[0] = q /\ \A n \in 1..Concurrency : turn[n] = Turn(turn[n - 1])
  BY <1>4, <1>8
<1> QED
  BY <1>6, <1>9

-----------------------------------------------------------------------------
(* What #schedule keeps from turn to turn.                                 *)

KeysApart(rs) ==
  \A t, u \in rs : KeyOf(t) = KeyOf(u) /\ KeyOf(t) # NoKey => t = u

QueueStates == [pending : Seq(Tasks), running : SUBSET Tasks,
                activeKeys : SUBSET {KeyOf(t) : t \in Tasks}]

QueueSound(q) ==
  /\ q \in QueueStates
  /\ Distinct(q.pending)
  /\ \A t \in q.running : ~In(t, q.pending)
  /\ KeysApart(q.running)
  /\ q.activeKeys = {KeyOf(t) : t \in q.running} \ {NoKey}
  /\ Cardinality(q.running) <= Concurrency

\* The tasks of s stand in the order ord.
Sorted(s, ord) ==
  \A i, j \in 1..Len(s) : \A k, l \in 1..Len(ord) :
    i < j /\ ord[k] = s[i] /\ ord[l] = s[j] => k < l

SameKey(t, u) == KeyOf(t) = KeyOf(u) /\ KeyOf(t) # NoKey

\* While a task is in s, so are the later ones of its key, except for the
\* withdrawn ones W.
KeyWaits(s, ord, W) ==
  \A k, l \in 1..Len(ord) :
    k < l /\ SameKey(ord[k], ord[l]) /\ In(ord[k], s) => In(ord[l], s) \/ ord[l] \in W

InTurn(q, ord, W) == Sorted(q.pending, ord) /\ KeyWaits(q.pending, ord, W)

LEMMA SubsetOfTasks ==
  ASSUME NEW S \in SUBSET Tasks
  PROVE  IsFiniteSet(S) /\ Cardinality(S) \in Nat
BY QueueAssumption, FS_Subset, FS_CardinalityType

LEMMA StartedFirst ==
  ASSUME NEW q, QueueSound(q), CanStart(q)
  PROVE  \E i \in 1..Len(q.pending) :
           LET t == q.pending[i] IN
           /\ StartFirst(q) = [pending    |-> RemoveIndex(q.pending, i),
                               running    |-> q.running \cup {t},
                               activeKeys |-> q.activeKeys \cup ({KeyOf(t)} \ {NoKey})]
           /\ ~Blocked(t, q.activeKeys)
           /\ \A j \in 1..Len(q.pending) : j < i => Blocked(q.pending[j], q.activeKeys)
<1>1. q.pending \in Seq(Tasks)
  BY DEF QueueSound, QueueStates
<1>2. DOMAIN q.pending = 1..Len(q.pending) /\ Len(q.pending) \in Nat
  BY <1>1, LenProperties
<1>3. Startable(q) \subseteq 1..Len(q.pending) /\ Startable(q) # {}
  BY <1>2 DEF Startable, CanStart
<1>4. \E i \in Startable(q) : \A j \in Startable(q) : i <= j
  BY <1>2, <1>3, LeastNumber
<1> DEFINE i == FirstOf(Startable(q))
<1>5. i \in Startable(q) /\ \A j \in Startable(q) : i <= j
  BY <1>4 DEF FirstOf
<1>6. /\ i \in 1..Len(q.pending)
      /\ ~Blocked(q.pending[i], q.activeKeys)
      /\ \A j \in 1..Len(q.pending) : j < i => Blocked(q.pending[j], q.activeKeys)
  <2> HIDE DEF i
  <2>1. \A j \in 1..Len(q.pending) : ~Blocked(q.pending[j], q.activeKeys) => j \in Startable(q)
    BY <1>2 DEF Startable
  <2>2. ~Blocked(q.pending[i], q.activeKeys)
    BY <1>5 DEF Startable
  <2>3. \A j \in 1..Len(q.pending) : j < i => j \notin Startable(q)
    BY <1>2, <1>3, <1>5
  <2> QED
    BY <1>3, <1>5, <2>1, <2>2, <2>3
<1>7. StartFirst(q) = [pending    |-> RemoveIndex(q.pending, i),
                       running    |-> q.running \cup {q.pending[i]},
                       activeKeys |-> q.activeKeys \cup ({KeyOf(q.pending[i])} \ {NoKey})]
  BY DEF StartFirst
<1> HIDE DEF i
<1> QED
  BY <1>6, <1>7

(* One turn.  A task starts before the later ones of its key because they  *)
(* stand behind it and an earlier one would not be blocked either.         *)
LEMMA TurnKeeps ==
  ASSUME NEW q, QueueSound(q), CanStart(q), NEW ord \in Seq(Tasks), NEW W
  PROVE  LET r == StartFirst(q) IN
         /\ QueueSound(r)
         /\ InTurn(q, ord, W) => InTurn(r, ord, W)
         /\ Len(r.pending) = Len(q.pending) - 1
         /\ Cardinality(r.running) = Cardinality(q.running) + 1
         /\ q.running \subseteq r.running
         /\ \A t : In(t, r.pending) \/ t \in r.running <=> In(t, q.pending) \/ t \in q.running
<1> DEFINE r == StartFirst(q)
<1>1. PICK i \in 1..Len(q.pending) :
         /\ r = [pending    |-> RemoveIndex(q.pending, i),
                 running    |-> q.running \cup {q.pending[i]},
                 activeKeys |-> q.activeKeys \cup ({KeyOf(q.pending[i])} \ {NoKey})]
         /\ ~Blocked(q.pending[i], q.activeKeys)
         /\ \A j \in 1..Len(q.pending) : j < i => Blocked(q.pending[j], q.activeKeys)
  BY StartedFirst
<1> DEFINE t == q.pending[i]
<1>2. /\ q.pending \in Seq(Tasks) /\ q.running \in SUBSET Tasks
      /\ q.activeKeys \in SUBSET {KeyOf(u) : u \in Tasks}
      /\ Distinct(q.pending)
      /\ t \in Tasks
  BY DEF QueueSound, QueueStates
<1>3. /\ r.pending \in Seq(Tasks) /\ Len(r.pending) = Len(q.pending) - 1
      /\ Distinct(r.pending)
      /\ \A u : In(u, r.pending) <=> In(u, q.pending) /\ u # t
      /\ \A j, k \in 1..Len(r.pending) : j < k =>
           \E m, n \in 1..Len(q.pending) :
              m < n /\ r.pending[j] = q.pending[m] /\ r.pending[k] = q.pending[n]
  <2> DEFINE s == q.pending
             new == RemoveIndex(s, i)
  <2>1. r.pending = new
    BY <1>1
  <2>2. s \in Seq(Tasks) /\ Distinct(s) /\ i \in 1..Len(s)
    BY <1>2
  <2> HIDE DEF s
  <2>3. /\ new \in Seq(Tasks) /\ Len(new) = Len(s) - 1
        /\ Distinct(new)
        /\ \A u : In(u, new) <=> In(u, s) /\ u # s[i]
        /\ \A j, k \in 1..Len(new) : j < k =>
             \E m, n \in 1..Len(s) : m < n /\ new[j] = s[m] /\ new[k] = s[n]
    BY <2>2, WithoutOne
  <2> HIDE DEF r, new, t
  <2>4. s = q.pending /\ s[i] = t
    BY DEF s, t
  <2>5. /\ r.pending \in Seq(Tasks) /\ Len(r.pending) = Len(q.pending) - 1
        /\ Distinct(r.pending)
        /\ \A u : In(u, r.pending) <=> In(u, q.pending) /\ u # t
    BY <2>1, <2>3, <2>4
  <2> DEFINE Embeds(a, b) == \A j, k \in 1..Len(a) : j < k =>
                               \E m, n \in 1..Len(b) : m < n /\ a[j] = b[m] /\ a[k] = b[n]
  <2>6. Embeds(new, s)
    BY <2>3
  <2> HIDE DEF Embeds
  <2>7. Embeds(r.pending, q.pending)
    BY <2>1, <2>4, <2>6
  <2> QED
    BY <2>5, <2>7 DEF Embeds
<1>4. In(t, q.pending) /\ t \notin q.running
  BY DEF QueueSound, In
<1>5. /\ r.running = q.running \cup {t}
      /\ r.activeKeys = q.activeKeys \cup ({KeyOf(t)} \ {NoKey})
  BY <1>1
<1>6. r \in QueueStates
  <2>1. r = [pending |-> r.pending, running |-> r.running, activeKeys |-> r.activeKeys]
    BY <1>1
  <2>2. r.running \in SUBSET Tasks /\ r.activeKeys \in SUBSET {KeyOf(u) : u \in Tasks}
    BY <1>2, <1>5
  <2> HIDE DEF r
  <2> QED
    BY <1>3, <2>1, <2>2 DEF QueueStates
<1> HIDE DEF r
<1>7. Cardinality(r.running) = Cardinality(q.running) + 1
  BY <1>2, <1>4, <1>5, SubsetOfTasks, FS_AddElement
<1>8. Cardinality(r.running) <= Concurrency
  BY <1>2, <1>7, SubsetOfTasks, QueueAssumption DEF CanStart
<1>9. KeysApart(r.running) /\ r.activeKeys = {KeyOf(u) : u \in r.running} \ {NoKey}
  <2>1. \A u \in q.running : ~SameKey(u, t)
    BY <1>1 DEF QueueSound, Blocked, SameKey
  <2>2. KeysApart(r.running)
    BY <1>5, <2>1 DEF QueueSound, KeysApart, SameKey
  <2>3. r.activeKeys = {KeyOf(u) : u \in r.running} \ {NoKey}
    BY <1>5 DEF QueueSound
  <2> QED
    BY <2>2, <2>3
<1>10. \A u \in r.running : ~In(u, r.pending)
  BY <1>3, <1>5 DEF QueueSound
<1>11. QueueSound(r)
  BY <1>3, <1>6, <1>8, <1>9, <1>10 DEF QueueSound
<1>12. ASSUME InTurn(q, ord, W)
       PROVE  InTurn(r, ord, W)
  <2>0. Sorted(q.pending, ord)
    BY <1>12 DEF InTurn
  <2>1. Sorted(r.pending, ord)
    <3> SUFFICES ASSUME NEW i1 \in 1..Len(r.pending), NEW i2 \in 1..Len(r.pending),
                        NEW k \in 1..Len(ord), NEW l \in 1..Len(ord),
                        i1 < i2, ord[k] = r.pending[i1], ord[l] = r.pending[i2]
                 PROVE  k < l
      BY DEF Sorted
    <3>1. PICK m \in 1..Len(q.pending), n \in 1..Len(q.pending) :
             m < n /\ r.pending[i1] = q.pending[m] /\ r.pending[i2] = q.pending[n]
      BY <1>3
    <3> QED
      BY <2>0, <3>1 DEF Sorted
  <2>2. ASSUME NEW k \in 1..Len(ord), NEW l \in 1..Len(ord), k < l,
               SameKey(ord[k], ord[l]), In(ord[k], r.pending)
        PROVE  In(ord[l], r.pending) \/ ord[l] \in W
    <3>1. In(ord[k], q.pending) /\ ord[k] # t
      BY <1>3, <2>2
    <3>2. In(ord[l], q.pending) \/ ord[l] \in W
      BY <1>12, <2>2, <3>1 DEF InTurn, KeyWaits
    <3>3. ASSUME ord[l] = t
          PROVE  FALSE
      <4>1. PICK j \in 1..Len(q.pending) : q.pending[j] = ord[k]
        BY <3>1 DEF In
      <4>2. ~(i < j)
        BY <1>12, <2>2, <3>3, <4>1, LenProperties DEF InTurn, Sorted
      <4>3. j # i
        BY <3>1, <4>1
      <4>4. Blocked(q.pending[j], q.activeKeys)
        BY <1>1, <1>2, <4>2, <4>3, LenProperties
      <4>5. KeyOf(t) \in q.activeKeys /\ KeyOf(t) # NoKey
        BY <2>2, <3>3, <4>1, <4>4 DEF Blocked, SameKey
      <4> QED
        BY <1>1, <4>5 DEF Blocked
    <3> QED
      BY <1>3, <3>2, <3>3
  <2> QED
    BY <2>1, <2>2 DEF InTurn, KeyWaits
<1>13. \A u : In(u, r.pending) \/ u \in r.running <=> In(u, q.pending) \/ u \in q.running
  BY <1>3, <1>4, <1>5
<1> QED
  BY <1>3, <1>5, <1>7, <1>11, <1>12, <1>13 DEF r

(* All turns: they stop when every slot is taken or nothing can start.     *)
LEMMA ScheduleEffect ==
  ASSUME NEW q, QueueSound(q), NEW ord \in Seq(Tasks), NEW W, InTurn(q, ord, W)
  PROVE  LET r == Schedule(q) IN
         /\ QueueSound(r) /\ InTurn(r, ord, W)
         /\ ~CanStart(r)
         /\ Len(r.pending) <= Len(q.pending)
         /\ CanStart(q) => Len(r.pending) < Len(q.pending)
         /\ q.running \subseteq r.running
         /\ \A t : In(t, r.pending) \/ t \in r.running <=> In(t, q.pending) \/ t \in q.running
<1>1. PICK turn : /\ turn[0] = q
                  /\ \A n \in 1..Concurrency : turn[n] = Turn(turn[n - 1])
                  /\ Schedule(q) = turn[Concurrency]
  BY ScheduleTakesTurns
<1> DEFINE Kept(r, n) ==
             /\ QueueSound(r) /\ InTurn(r, ord, W)
             /\ n = 0 => r = q
             /\ CanStart(r) => Cardinality(r.running) >= n
             /\ Len(r.pending) <= Len(q.pending)
             /\ n > 0 /\ CanStart(q) => Len(r.pending) < Len(q.pending)
             /\ q.running \subseteq r.running
             /\ \A t : In(t, r.pending) \/ t \in r.running
                         <=> In(t, q.pending) \/ t \in q.running
           S == {n \in Nat : n <= Concurrency => Kept(turn[n], n)}
<1>2. ASSUME NEW r, QueueSound(r)
      PROVE  Len(r.pending) \in Nat /\ Cardinality(r.running) \in Nat
  <2>1. r.pending \in Seq(Tasks) /\ r.running \in SUBSET Tasks
    BY <1>2 DEF QueueSound, QueueStates
  <2> QED
    BY <2>1, LenProperties, SubsetOfTasks
<1>3. 0 \in S
  <2>1. Len(q.pending) <= Len(q.pending) /\ Cardinality(q.running) >= 0
    BY <1>2
  <2> QED
    BY <1>1, <2>1
<1>4. Concurrency \in Nat
  BY QueueAssumption
<1>5. ASSUME NEW n \in Nat, n + 1 <= Concurrency, NEW p, Kept(p, n)
      PROVE  Kept(Turn(p), n + 1)
  <2>1. CASE CanStart(p)
    <3>1. Turn(p) = StartFirst(p)
      BY <2>1 DEF Turn
    <3> DEFINE r == StartFirst(p)
    <3>2. /\ QueueSound(r) /\ InTurn(r, ord, W)
          /\ Len(r.pending) = Len(p.pending) - 1
          /\ Cardinality(r.running) = Cardinality(p.running) + 1
          /\ p.running \subseteq r.running
          /\ \A t : In(t, r.pending) \/ t \in r.running
                      <=> In(t, p.pending) \/ t \in p.running
      BY <1>5, <2>1, TurnKeeps
    <3> HIDE DEF r
    <3>3. Cardinality(r.running) >= n + 1
      BY <1>2, <1>5, <2>1, <3>2
    <3>4. Len(r.pending) < Len(q.pending)
      BY <1>2, <1>5, <3>2
    <3>5. Len(r.pending) <= Len(q.pending)
      BY <1>2, <3>2, <3>4
    <3>6. Kept(r, n + 1)
      BY <1>5, <3>2, <3>3, <3>4, <3>5
    <3> QED
      BY <3>1, <3>6 DEF r
  <2>2. CASE ~CanStart(p)
    <3>1. Turn(p) = p
      BY <2>2 DEF Turn
    <3>2. CanStart(q) => Len(p.pending) < Len(q.pending)
      <4>1. CASE n = 0
        BY <1>5, <2>2, <4>1
      <4>2. CASE n > 0
        BY <1>5, <4>2
      <4> QED
        BY <4>1, <4>2
    <3> QED
      BY <1>5, <2>2, <3>1, <3>2
  <2> QED
    BY <2>1, <2>2
<1>6. ASSUME NEW n \in Nat, n \in S
      PROVE  n + 1 \in S
  <2> SUFFICES ASSUME n + 1 <= Concurrency PROVE Kept(turn[n + 1], n + 1)
    OBVIOUS
  <2>1. Kept(turn[n], n)
    BY <1>4, <1>6
  <2>2. turn[n + 1] = Turn(turn[n])
    BY <1>1, <1>4
  <2> HIDE DEF Kept
  <2> QED
    BY <1>5, <2>1, <2>2
<1>7. Concurrency \in S
  <2> HIDE DEF S
  <2> QED
    BY <1>3, <1>4, <1>6, Counting
<1>8. Kept(turn[Concurrency], Concurrency)
  BY <1>4, <1>7
<1>9. ~CanStart(turn[Concurrency])
  BY <1>2, <1>4, <1>8 DEF CanStart
<1> QED
  BY <1>1, <1>4, <1>8, <1>9, QueueAssumption

-----------------------------------------------------------------------------
(* The queue starts and stays sound.                                       *)

States == {"new", "pending", "running", "sleeping", "completed", "failed", "refused"}
Begun == {"running", "sleeping", "completed", "failed"}
Withdrawn(states) == {t \in Tasks : states[t] = "refused"}

\* The states st of the tasks agree with the queue q, their attempts at and
\* the order ord of their promises.
TasksAgree(q, st, at, ord) ==
  /\ st \in [Tasks -> States] /\ at \in [Tasks -> Nat]
  /\ \A t \in Tasks :
        /\ In(t, q.pending) <=> st[t] = "pending"
        /\ t \in q.running <=> st[t] \in {"running", "sleeping"}
        /\ at[t] > 0 <=> st[t] \in Begun
        /\ at[t] <= MaxAttempts
        /\ st[t] = "sleeping" => at[t] < MaxAttempts
        /\ In(t, ord) => st[t] # "new"

QueueInv ==
  /\ QueueSound(queue) /\ ~CanStart(queue)
  /\ Len(queue.pending) <= MaxQueueSize
  /\ queueClosed \in BOOLEAN
  /\ order \in Seq(Tasks)
  /\ InTurn(queue, order, Withdrawn(taskState))
  /\ TasksAgree(queue, taskState, attempt, order)

(* A task joins the end of a queue and of the order.                       *)
LEMMA Joining ==
  ASSUME NEW s \in Seq(Tasks), NEW ord \in Seq(Tasks), NEW W, NEW t \in Tasks,
         Sorted(s, ord), KeyWaits(s, ord, W), Distinct(s),
         ~In(t, s), ~In(t, ord)
  PROVE  LET new == Append(s, t)  next == Append(ord, t)
         IN  /\ new \in Seq(Tasks) /\ next \in Seq(Tasks)
             /\ Len(new) = Len(s) + 1 /\ Distinct(new)
             /\ \A u : In(u, new) <=> In(u, s) \/ u = t
             /\ \A u : In(u, next) <=> In(u, ord) \/ u = t
             /\ Sorted(new, next) /\ KeyWaits(new, next, W)
<1> DEFINE new == Append(s, t)
           next == Append(ord, t)
<1>1. /\ Len(s) \in Nat /\ Len(ord) \in Nat
      /\ new \in Seq(Tasks) /\ Len(new) = Len(s) + 1
      /\ \A i \in 1..Len(s) : new[i] = s[i]
      /\ new[Len(s) + 1] = t
      /\ next \in Seq(Tasks) /\ Len(next) = Len(ord) + 1
      /\ \A i \in 1..Len(ord) : next[i] = ord[i]
      /\ next[Len(ord) + 1] = t
  BY AppendProperties, LenProperties
<1> HIDE DEF new, next
<1>2. /\ \A i \in 1..Len(new) : i \in 1..Len(s) \/ i = Len(s) + 1
      /\ \A i \in 1..Len(next) : i \in 1..Len(ord) \/ i = Len(ord) + 1
      /\ 1..Len(s) \subseteq 1..Len(new) /\ Len(s) + 1 \in 1..Len(new)
      /\ 1..Len(ord) \subseteq 1..Len(next) /\ Len(ord) + 1 \in 1..Len(next)
  BY <1>1
<1>3. /\ \A i \in 1..Len(s) : s[i] # t
      /\ \A i \in 1..Len(ord) : ord[i] # t
  BY DEF In
<1>4. Distinct(new)
  BY <1>1, <1>2, <1>3 DEF Distinct
<1>5. \A u : In(u, new) <=> In(u, s) \/ u = t
  BY <1>1, <1>2 DEF In
<1>6. \A u : In(u, next) <=> In(u, ord) \/ u = t
  BY <1>1, <1>2 DEF In
<1>7. ASSUME NEW i \in 1..Len(new), NEW j \in 1..Len(new),
             NEW k \in 1..Len(next), NEW l \in 1..Len(next),
             i < j, next[k] = new[i], next[l] = new[j]
      PROVE  k < l
  <2>1. i \in 1..Len(s)
    BY <1>1, <1>2, <1>7
  <2>2. k \in 1..Len(ord) /\ ord[k] = s[i]
    BY <1>1, <1>2, <1>3, <1>7, <2>1
  <2>3. CASE j \in 1..Len(s)
    <3>1. l \in 1..Len(ord) /\ ord[l] = s[j]
      BY <1>1, <1>2, <1>3, <1>7, <2>3
    <3> QED
      BY <1>7, <2>1, <2>2, <2>3, <3>1 DEF Sorted
  <2>4. CASE j = Len(s) + 1
    <3>1. l = Len(ord) + 1
      BY <1>1, <1>2, <1>3, <1>7, <2>4
    <3> QED
      BY <1>1, <2>2, <3>1
  <2> QED
    BY <1>2, <2>3, <2>4
<1>8. ASSUME NEW k \in 1..Len(next), NEW l \in 1..Len(next), k < l,
             SameKey(next[k], next[l]), In(next[k], new)
      PROVE  In(next[l], new) \/ next[l] \in W
  <2>1. CASE l = Len(ord) + 1
    BY <1>1, <1>5, <2>1
  <2>2. CASE l \in 1..Len(ord)
    <3>1. k \in 1..Len(ord)
      BY <1>1, <1>8, <2>2
    <3>2. next[k] = ord[k] /\ next[l] = ord[l] /\ ord[k] # t
      BY <1>1, <1>3, <2>2, <3>1
    <3>3. SameKey(ord[k], ord[l]) /\ In(ord[k], s)
      BY <1>5, <1>8, <3>2
    <3> QED
      BY <1>5, <1>8, <2>2, <3>1, <3>2, <3>3 DEF KeyWaits
  <2> QED
    BY <1>2, <2>1, <2>2
<1>9. Sorted(new, next)
  BY <1>7 DEF Sorted
<1>10. KeyWaits(new, next, W)
  BY <1>8 DEF KeyWaits
<1> QED
  BY <1>1, <1>4, <1>5, <1>6, <1>9, <1>10 DEF new, next

LEMMA ScheduledInv ==
  ASSUME QueueInv, NEW q, NEW states, Scheduled(q, states),
         QueueSound(q),
         \/ Len(q.pending) <= MaxQueueSize
         \/ CanStart(q) /\ Len(q.pending) <= MaxQueueSize + 1,
         q.running \subseteq queue.running,
         \A t \in queue.running : ~In(t, q.pending),
         queueClosed' \in BOOLEAN, order' \in Seq(Tasks),
         InTurn(q, order', Withdrawn(states)),
         TasksAgree(q, states, attempt, order')
  PROVE  /\ QueueInv'
         /\ \A t \in Tasks :
              \/ taskState'[t] = states[t] /\ attempt'[t] = attempt[t]
              \/ states[t] = "pending" /\ taskState'[t] = "running" /\ attempt'[t] = 1
<1> DEFINE r == Schedule(q)
           W == Withdrawn(states)
           ord == order'
<1>1. /\ QueueSound(r) /\ InTurn(r, ord, W)
      /\ ~CanStart(r)
      /\ Len(r.pending) <= Len(q.pending)
      /\ CanStart(q) => Len(r.pending) < Len(q.pending)
      /\ q.running \subseteq r.running
      /\ \A t : In(t, r.pending) \/ t \in r.running <=> In(t, q.pending) \/ t \in q.running
  <2> HIDE DEF W, ord, r
  <2>1. ord \in Seq(Tasks) /\ InTurn(q, ord, W)
    BY DEF ord, W
  <2> QED
    BY <2>1, ScheduleEffect DEF r
<1>2. queue' = r
  BY DEF Scheduled
<1> HIDE DEF r
<1>3. \A t \in r.running : ~In(t, r.pending)
  BY <1>1 DEF QueueSound
<1>4. \A t : t \in r.running \ queue.running <=> In(t, q.pending) /\ ~In(t, r.pending)
  BY <1>1, <1>3
<1>5. \A t \in Tasks : taskState'[t] = IF t \in r.running \ queue.running
                                       THEN "running" ELSE states[t]
  BY <1>2 DEF Scheduled
<1>6. \A t \in Tasks : attempt'[t] = IF t \in r.running \ queue.running
                                     THEN 1 ELSE attempt[t]
  BY <1>2 DEF Scheduled
<1>7. /\ taskState' \in [Tasks -> States]
      /\ attempt' \in [Tasks -> Nat]
  <2>1. /\ taskState' = [t \in Tasks |-> taskState'[t]]
        /\ attempt' = [t \in Tasks |-> attempt'[t]]
    BY DEF Scheduled
  <2>2. \A t \in Tasks : taskState'[t] \in States /\ attempt'[t] \in Nat
    BY <1>5, <1>6 DEF TasksAgree, States
  <2> QED
    BY <2>1, <2>2
<1>8. ASSUME NEW t \in Tasks
      PROVE  /\ In(t, r.pending) <=> taskState'[t] = "pending"
             /\ t \in r.running <=> taskState'[t] \in {"running", "sleeping"}
             /\ attempt'[t] > 0 <=> taskState'[t] \in Begun
             /\ attempt'[t] <= MaxAttempts
             /\ taskState'[t] = "sleeping" => attempt'[t] < MaxAttempts
             /\ In(t, ord) => taskState'[t] # "new"
             /\ \/ taskState'[t] = states[t] /\ attempt'[t] = attempt[t]
                \/ states[t] = "pending" /\ taskState'[t] = "running" /\ attempt'[t] = 1
             /\ taskState'[t] = "refused" <=> states[t] = "refused"
  <2>1. /\ In(t, q.pending) <=> states[t] = "pending"
        /\ t \in q.running <=> states[t] \in {"running", "sleeping"}
        /\ attempt[t] > 0 <=> states[t] \in Begun
        /\ attempt[t] <= MaxAttempts
        /\ states[t] = "sleeping" => attempt[t] < MaxAttempts
        /\ In(t, ord) => states[t] # "new"
    BY DEF TasksAgree
  <2> HIDE DEF ord
  <2>2. CASE t \in r.running \ queue.running
    <3>1. taskState'[t] = "running" /\ attempt'[t] = 1
      BY <1>5, <1>6, <2>2
    <3>2. states[t] = "pending"
      BY <1>4, <2>1, <2>2
    <3> QED
      BY <1>3, <2>1, <2>2, <3>1, <3>2, QueueAssumption DEF Begun
  <2>3. CASE t \notin r.running \ queue.running
    <3>1. taskState'[t] = states[t] /\ attempt'[t] = attempt[t]
      BY <1>5, <1>6, <2>3
    <3>2. /\ In(t, r.pending) <=> In(t, q.pending)
          /\ t \in r.running <=> t \in q.running
      BY <1>1, <1>3, <1>4, <2>3
    <3> QED
      BY <2>1, <3>1, <3>2
  <2> QED
    BY <2>2, <2>3
<1>9. Withdrawn(taskState)' = W
  BY <1>8 DEF Withdrawn
<1>10. TasksAgree(r, taskState', attempt', order')
  BY <1>7, <1>8 DEF TasksAgree
<1>11. Len(r.pending) <= MaxQueueSize
  <2>1. Len(r.pending) \in Nat /\ Len(q.pending) \in Nat /\ MaxQueueSize \in Nat
    BY <1>1, LenProperties, QueueAssumption DEF QueueSound, QueueStates
  <2> QED
    BY <1>1, <2>1
<1>12. QueueInv'
  <2> HIDE DEF W
  <2>1. InTurn(r, order', Withdrawn(taskState)')
    BY <1>1, <1>9
  <2> QED
    BY <1>1, <1>2, <1>10, <1>11, <2>1
       DEF QueueInv, CanStart, Startable, Blocked, QueueSound, InTurn, TasksAgree
<1> QED
  BY <1>8, <1>12

LEMMA QueueFacts ==
  ASSUME QueueInv
  PROVE  /\ queue \in QueueStates
         /\ queue = [pending |-> queue.pending, running |-> queue.running,
                     activeKeys |-> queue.activeKeys]
         /\ queue.pending \in Seq(Tasks) /\ Len(queue.pending) \in Nat
         /\ queue.running \in SUBSET Tasks
         /\ Distinct(queue.pending)
         /\ taskState \in [Tasks -> States] /\ attempt \in [Tasks -> Nat]
         /\ MaxQueueSize \in Nat /\ MaxAttempts \in Nat \ {0}
  BY LenProperties, QueueAssumption DEF QueueInv, QueueSound, QueueStates, TasksAgree

LEMMA PendingUpdated ==
  ASSUME NEW q \in QueueStates, NEW x
  PROVE  [q EXCEPT !.pending = x] =
            [pending |-> x, running |-> q.running, activeKeys |-> q.activeKeys]
BY DEF QueueStates

LEMMA QueueInitInv == QueueInit => QueueInv
<1> SUFFICES ASSUME QueueInit PROVE QueueInv
  OBVIOUS
<1>1. queue = [pending |-> <<>>, running |-> {}, activeKeys |-> {}]
  BY DEF QueueInit
<1>2. /\ <<>> \in Seq(Tasks) /\ Len(<<>>) = 0 /\ 1..0 = {} /\ DOMAIN <<>> = {}
  OBVIOUS
<1>3. Cardinality({}) = 0
  BY FS_EmptySet
<1>4. QueueSound(queue)
  BY <1>1, <1>2, <1>3, QueueAssumption
     DEF QueueSound, QueueStates, Distinct, In, KeysApart
<1>5. ~CanStart(queue)
  BY <1>1, <1>2 DEF CanStart, Startable
<1>6. InTurn(queue, order, Withdrawn(taskState))
  BY <1>1, <1>2 DEF InTurn, Sorted, KeyWaits, In, QueueInit
<1>7. TasksAgree(queue, taskState, attempt, order)
  <2>1. \A t : ~In(t, <<>>)
    BY <1>2 DEF In
  <2> QED
    BY <1>1, <2>1, QueueAssumption DEF TasksAgree, States, Begun, QueueInit
<1>8. Len(queue.pending) <= MaxQueueSize
  BY <1>1, <1>2, QueueAssumption
<1>9. order \in Seq(Tasks) /\ queueClosed \in BOOLEAN
  BY <1>2 DEF QueueInit
<1> QED
  BY <1>4, <1>5, <1>6, <1>7, <1>8, <1>9 DEF QueueInv

LEMMA SubmitInv ==
  ASSUME QueueInv, NEW t \in Tasks, Submit(t)
  PROVE  /\ QueueInv' /\ taskState[t] = "new" /\ attempt[t] = 0
         /\ \A u \in Tasks :
              \/ taskState'[u] = taskState[u] /\ attempt'[u] = attempt[u]
              \/ u = t /\ attempt'[u] = attempt[u] /\ taskState'[u] \in {"pending", "refused"}
              \/ /\ taskState[u] = "pending" \/ u = t
                 /\ taskState'[u] = "running" /\ attempt'[u] = 1
<1>1. /\ taskState[t] = "new" /\ queueClosed' = queueClosed
      /\ attempt[t] = 0 /\ ~In(t, order) /\ ~In(t, queue.pending)
      /\ t \notin queue.running
  <2>1. taskState[t] = "new" /\ queueClosed' = queueClosed
    BY DEF Submit
  <2> QED
    BY <2>1 DEF QueueInv, TasksAgree, Begun
<1> DEFINE startsNow == Cardinality(queue.running) < Concurrency
                          /\ ~Blocked(t, queue.activeKeys)
<1>2. CASE /\ taskState' = [taskState EXCEPT ![t] = "refused"]
           /\ UNCHANGED <<queue, attempt, order>>
  <2>1. /\ taskState' \in [Tasks -> States] /\ taskState'[t] = "refused"
        /\ \A u \in Tasks : u # t => taskState'[u] = taskState[u]
    BY <1>2, QueueFacts DEF States
  <2>2. Withdrawn(taskState) \subseteq Withdrawn(taskState')
    BY <2>1, <1>1 DEF Withdrawn
  <2>3. InTurn(queue, order, Withdrawn(taskState'))
    BY <2>2 DEF QueueInv, InTurn, KeyWaits
  <2>4. TasksAgree(queue, taskState', attempt, order)
    BY <1>1, <2>1 DEF QueueInv, TasksAgree, Begun
  <2>5. QueueSound(queue)' /\ ~CanStart(queue)'
    BY <1>2 DEF QueueInv
  <2>6. Withdrawn(taskState)' = Withdrawn(taskState')
    BY DEF Withdrawn
  <2>7. QueueInv'
    BY <1>1, <1>2, <2>3, <2>4, <2>5, <2>6 DEF QueueInv, InTurn, TasksAgree
  <2> QED
    BY <1>1, <1>2, <2>1, <2>7
<1>3. CASE /\ startsNow \/ Len(queue.pending) < MaxQueueSize
           /\ Scheduled([queue EXCEPT !.pending = Append(@, t)],
                        [taskState EXCEPT ![t] = "pending"])
           /\ order' = Append(order, t)
  <2> DEFINE s == queue.pending
             new == Append(s, t)
             next == Append(order, t)
             q == [queue EXCEPT !.pending = Append(@, t)]
             states == [taskState EXCEPT ![t] = "pending"]
             W == Withdrawn(taskState)
  <2>1. /\ q.pending = new /\ q.running = queue.running
        /\ q.activeKeys = queue.activeKeys
        /\ q = [pending |-> q.pending, running |-> q.running,
                activeKeys |-> q.activeKeys]
    <3>1. q = [pending |-> new, running |-> queue.running,
               activeKeys |-> queue.activeKeys]
      BY QueueFacts, PendingUpdated
    <3> HIDE DEF q, new
    <3> QED
      BY <3>1
  <2>2. /\ states \in [Tasks -> States] /\ states[t] = "pending"
        /\ \A u \in Tasks : u # t => states[u] = taskState[u]
    BY QueueFacts DEF States
  <2>3. s \in Seq(Tasks) /\ order \in Seq(Tasks) /\ Distinct(s)
        /\ Sorted(s, order) /\ KeyWaits(s, order, W)
        /\ ~In(t, s) /\ ~In(t, order)
    BY <1>1, QueueFacts DEF QueueInv, InTurn
  <2> HIDE DEF s, q, states, W
  <2>4. /\ new \in Seq(Tasks) /\ next \in Seq(Tasks)
        /\ Len(new) = Len(s) + 1 /\ Distinct(new)
        /\ \A u : In(u, new) <=> In(u, s) \/ u = t
        /\ \A u : In(u, next) <=> In(u, order) \/ u = t
        /\ Sorted(new, next) /\ KeyWaits(new, next, W)
    BY <2>3, Joining
  <2> HIDE DEF new, next
  <2>5. QueueSound(q)
    <3>1. q \in QueueStates
      BY <2>1, <2>4, QueueFacts DEF QueueStates
    <3>2. \A u \in q.running : ~In(u, q.pending)
      BY <1>1, <2>1, <2>4 DEF QueueInv, QueueSound, s
    <3> QED
      BY <2>1, <2>4, <3>1, <3>2 DEF QueueInv, QueueSound
  <2>6. \/ Len(q.pending) <= MaxQueueSize
        \/ CanStart(q) /\ Len(q.pending) <= MaxQueueSize + 1
    <3>1. Len(s) \in Nat /\ MaxQueueSize \in Nat /\ Len(s) <= MaxQueueSize
      BY QueueFacts DEF QueueInv, s
    <3>2. CASE Len(queue.pending) < MaxQueueSize
      BY <2>1, <2>4, <3>1, <3>2 DEF s
    <3>3. CASE startsNow
      <4>1. Len(new) \in DOMAIN new /\ new[Len(new)] = t
        BY <2>3, AppendProperties, LenProperties DEF new
      <4>2. Len(new) \in Startable(q)
        BY <2>1, <3>3, <4>1 DEF Startable
      <4>3. CanStart(q)
        BY <2>1, <3>3, <4>2 DEF CanStart
      <4> QED
        BY <2>1, <2>4, <3>1, <4>3
    <3> QED
      BY <1>3, <3>2, <3>3
  <2>7. Withdrawn(states) = W
    BY <1>1, <2>2 DEF Withdrawn, W
  <2>8. InTurn(q, order', Withdrawn(states))
    BY <1>3, <2>1, <2>4, <2>7 DEF InTurn, next
  <2>9. TasksAgree(q, states, attempt, order')
    <3> SUFFICES ASSUME NEW u \in Tasks
                 PROVE  /\ In(u, q.pending) <=> states[u] = "pending"
                        /\ u \in q.running <=> states[u] \in {"running", "sleeping"}
                        /\ attempt[u] > 0 <=> states[u] \in Begun
                        /\ attempt[u] <= MaxAttempts
                        /\ states[u] = "sleeping" => attempt[u] < MaxAttempts
                        /\ In(u, order') => states[u] # "new"
      BY <2>2, QueueFacts DEF TasksAgree
    <3>1. order' = next
      BY <1>3 DEF next
    <3>2. CASE u = t
      BY <1>1, <2>1, <2>2, <2>4, <3>2, QueueFacts DEF Begun
    <3>3. CASE u # t
      <4>1. states[u] = taskState[u]
        BY <2>2, <3>3
      <4>2. (In(u, q.pending) <=> In(u, s)) /\ (In(u, order') <=> In(u, order))
        BY <2>1, <2>4, <3>1, <3>3
      <4> QED
        BY <2>1, <4>1, <4>2 DEF QueueInv, TasksAgree, s
    <3> QED
      BY <3>2, <3>3
  <2>10. Scheduled(q, states)
    BY <1>3 DEF q, states
  <2>11. \A u \in queue.running : ~In(u, q.pending)
    BY <2>1, <2>5 DEF QueueSound
  <2>12. queueClosed' \in BOOLEAN /\ order' \in Seq(Tasks)
    BY <1>1, <1>3, <2>4 DEF QueueInv, next
  <2>13. /\ QueueInv'
         /\ \A u \in Tasks :
              \/ taskState'[u] = states[u] /\ attempt'[u] = attempt[u]
              \/ states[u] = "pending" /\ taskState'[u] = "running" /\ attempt'[u] = 1
    BY <2>1, <2>5, <2>6, <2>8, <2>9, <2>10, <2>11, <2>12, ScheduledInv
  <2>14. \A u \in Tasks : u # t /\ states[u] = "pending" => taskState[u] = "pending"
    BY <2>2
  <2> QED
    BY <1>1, <2>2, <2>13, <2>14
<1> QED
  BY <1>2, <1>3 DEF Submit

LEMMA AbortPendingInv ==
  ASSUME QueueInv, NEW t \in Tasks, AbortPending(t)
  PROVE  QueueInv'
<1> DEFINE s == queue.pending
<1>1. PICK i \in 1..Len(s) : /\ s[i] = t
                             /\ queue' = [queue EXCEPT !.pending = RemoveIndex(@, i)]
  BY QueueFacts, LenProperties DEF AbortPending
<1>2. /\ taskState[t] = "pending" /\ taskState' = [taskState EXCEPT ![t] = "refused"]
      /\ UNCHANGED <<attempt, queueClosed, order>>
  BY DEF AbortPending
<1>3. s \in Seq(Tasks) /\ Distinct(s) /\ Len(s) \in Nat
  BY QueueFacts, LenProperties
<1> DEFINE new == RemoveIndex(s, i)
<1>4. /\ queue'.pending = new /\ queue'.running = queue.running
      /\ queue'.activeKeys = queue.activeKeys
      /\ queue' = [pending |-> new, running |-> queue.running,
                   activeKeys |-> queue.activeKeys]
  <2>1. queue' = [pending |-> new, running |-> queue.running,
                  activeKeys |-> queue.activeKeys]
    BY <1>1, QueueFacts
  <2> HIDE DEF new
  <2> QED
    BY <2>1
<1> HIDE DEF s
<1>5. /\ new \in Seq(Tasks) /\ Len(new) = Len(s) - 1 /\ Distinct(new)
      /\ \A u : In(u, new) <=> In(u, s) /\ u # t
      /\ \A j, k \in 1..Len(new) : j < k =>
           \E m, n \in 1..Len(s) : m < n /\ new[j] = s[m] /\ new[k] = s[n]
  <2>1. /\ new \in Seq(Tasks) /\ Len(new) = Len(s) - 1 /\ Distinct(new)
        /\ \A u : In(u, new) <=> In(u, s) /\ u # s[i]
        /\ \A j, k \in 1..Len(new) : j < k =>
             \E m, n \in 1..Len(s) : m < n /\ new[j] = s[m] /\ new[k] = s[n]
    BY <1>3, WithoutOne
  <2> HIDE DEF new
  <2> QED
    BY <1>1, <2>1
<1> HIDE DEF new
<1>6. /\ taskState' \in [Tasks -> States] /\ taskState'[t] = "refused"
      /\ \A u \in Tasks : u # t => taskState'[u] = taskState[u]
  BY <1>2, QueueFacts DEF States
<1>7. Withdrawn(taskState)' = Withdrawn(taskState) \cup {t}
  BY <1>2, <1>6 DEF Withdrawn
<1>8. QueueSound(queue')
  <2>1. queue' \in QueueStates
    BY <1>4, <1>5, QueueFacts DEF QueueStates
  <2> QED
    BY <1>4, <1>5, <2>1 DEF QueueInv, QueueSound, s
<1>9. ~CanStart(queue')
  <2> SUFFICES ASSUME Cardinality(queue.running) < Concurrency,
                      NEW j \in DOMAIN new, ~Blocked(new[j], queue.activeKeys)
               PROVE  FALSE
    BY <1>4 DEF CanStart, Startable
  <2>1. In(new[j], new)
    BY <1>5, LenProperties DEF In
  <2>2. PICK k \in 1..Len(s) : s[k] = new[j]
    BY <1>5, <2>1 DEF In
  <2>3. k \in Startable(queue)
    BY <1>3, <2>2, LenProperties DEF Startable, s
  <2> QED
    BY <2>3 DEF QueueInv, CanStart
<1>10. Len(new) <= MaxQueueSize
  BY <1>3, <1>5, QueueFacts DEF QueueInv, s
<1>11. InTurn(queue', order, Withdrawn(taskState)')
  <2>1. Sorted(new, order)
    <3>1. Sorted(s, order)
      BY DEF QueueInv, InTurn, s
    <3> SUFFICES ASSUME NEW j \in 1..Len(new), NEW k \in 1..Len(new), j < k,
                        NEW p \in 1..Len(order), NEW q \in 1..Len(order),
                        order[p] = new[j], order[q] = new[k]
                 PROVE  p < q
      BY DEF Sorted
    <3>2. PICK m \in 1..Len(s), n \in 1..Len(s) : m < n /\ new[j] = s[m] /\ new[k] = s[n]
      BY <1>5
    <3> QED
      BY <3>1, <3>2 DEF Sorted
  <2>2. KeyWaits(new, order, Withdrawn(taskState) \cup {t})
    BY <1>5 DEF QueueInv, InTurn, KeyWaits, s
  <2> QED
    BY <1>4, <1>7, <2>1, <2>2 DEF InTurn
<1>12. TasksAgree(queue', taskState', attempt, order)
  <2>1. attempt[t] = 0 /\ t \notin queue.running
    <3>1. ~(attempt[t] > 0) /\ t \notin queue.running
      BY <1>2 DEF QueueInv, TasksAgree, Begun
    <3> QED
      BY <3>1, QueueFacts
  <2> SUFFICES ASSUME NEW u \in Tasks
               PROVE  /\ In(u, new) <=> taskState'[u] = "pending"
                      /\ u \in queue.running <=> taskState'[u] \in {"running", "sleeping"}
                      /\ attempt[u] > 0 <=> taskState'[u] \in Begun
                      /\ attempt[u] <= MaxAttempts
                      /\ taskState'[u] = "sleeping" => attempt[u] < MaxAttempts
                      /\ In(u, order) => taskState'[u] # "new"
    BY <1>4, <1>6, QueueFacts DEF TasksAgree
  <2>2. CASE u = t
    BY <1>5, <1>6, <2>1, <2>2, QueueFacts DEF Begun
  <2>3. CASE u # t
    <3>1. taskState'[u] = taskState[u] /\ (In(u, new) <=> In(u, s))
      BY <1>5, <1>6, <2>3
    <3> QED
      BY <3>1 DEF QueueInv, TasksAgree, s
  <2> QED
    BY <2>2, <2>3
<1>13. queueClosed' \in BOOLEAN /\ order' = order /\ attempt' = attempt
  BY <1>2 DEF QueueInv
<1>14. order' \in Seq(Tasks)
  BY <1>13 DEF QueueInv
<1> QED
  BY <1>4, <1>8, <1>9, <1>10, <1>11, <1>12, <1>13, <1>14
     DEF QueueInv

(* A slot and a key are free again.                                        *)
LEMMA SettleInv ==
  ASSUME QueueInv, NEW t \in Tasks, taskState[t] = "running",
         NEW outcome \in {"completed", "failed"}, Settle(t, outcome)
  PROVE  /\ QueueInv'
         /\ taskState'[t] = outcome /\ attempt'[t] = attempt[t]
         /\ \A u \in Tasks : u # t =>
              \/ taskState'[u] = taskState[u] /\ attempt'[u] = attempt[u]
              \/ taskState[u] = "pending" /\ taskState'[u] = "running" /\ attempt'[u] = 1
<1> DEFINE q == [pending |-> queue.pending, running |-> queue.running \ {t},
                 activeKeys |-> queue.activeKeys \ {KeyOf(t)}]
           states == [taskState EXCEPT ![t] = outcome]
<1>1. /\ q.pending = queue.pending /\ q.running = queue.running \ {t}
      /\ q.activeKeys = queue.activeKeys \ {KeyOf(t)}
      /\ q = [pending |-> q.pending, running |-> q.running,
              activeKeys |-> q.activeKeys]
  OBVIOUS
<1>2. /\ states \in [Tasks -> States] /\ states[t] = outcome
      /\ \A u \in Tasks : u # t => states[u] = taskState[u]
  BY QueueFacts DEF States
<1>3. Scheduled(q, states) /\ queueClosed' = queueClosed /\ order' = order
  BY DEF Settle
<1> HIDE DEF q, states
<1>4. t \in queue.running /\ attempt[t] > 0 /\ attempt[t] <= MaxAttempts
  BY DEF QueueInv, TasksAgree, Begun
<1>5. QueueSound(q)
  <2>1. q \in QueueStates
    BY <1>1, QueueFacts DEF QueueStates
  <2>2. KeysApart(q.running)
    BY <1>1 DEF QueueInv, QueueSound, KeysApart
  <2>3. q.activeKeys = {KeyOf(u) : u \in q.running} \ {NoKey}
    <3>1. \A u \in queue.running : u # t /\ KeyOf(u) # NoKey => KeyOf(u) # KeyOf(t)
      BY <1>4 DEF QueueInv, QueueSound, KeysApart
    <3>2. queue.activeKeys = {KeyOf(u) : u \in queue.running} \ {NoKey}
      BY DEF QueueInv, QueueSound
    <3> QED
      BY <1>1, <3>1, <3>2
  <2>4. Cardinality(q.running) <= Concurrency
    <3>1. /\ IsFiniteSet(queue.running)
          /\ Cardinality(queue.running) \in Nat /\ Concurrency \in Nat
          /\ Cardinality(queue.running) <= Concurrency
      BY QueueFacts, SubsetOfTasks, QueueAssumption DEF QueueInv, QueueSound
    <3>2. Cardinality(queue.running \ {t}) = Cardinality(queue.running) - 1
      BY <1>4, <3>1, FS_RemoveElement
    <3> QED
      BY <1>1, <3>1, <3>2
  <2> QED
    BY <1>1, <2>1, <2>2, <2>3, <2>4 DEF QueueInv, QueueSound
<1>6. Withdrawn(states) = Withdrawn(taskState)
  BY <1>2 DEF Withdrawn
<1>7. InTurn(q, order', Withdrawn(states))
  BY <1>1, <1>3, <1>6 DEF QueueInv, InTurn
<1>8. TasksAgree(q, states, attempt, order')
  <2> SUFFICES ASSUME NEW u \in Tasks
               PROVE  /\ In(u, queue.pending) <=> states[u] = "pending"
                      /\ u \in queue.running \ {t} <=> states[u] \in {"running", "sleeping"}
                      /\ attempt[u] > 0 <=> states[u] \in Begun
                      /\ attempt[u] <= MaxAttempts
                      /\ states[u] = "sleeping" => attempt[u] < MaxAttempts
                      /\ In(u, order) => states[u] # "new"
    BY <1>1, <1>2, <1>3, QueueFacts DEF TasksAgree
  <2>1. ~In(t, queue.pending)
    BY <1>4 DEF QueueInv, QueueSound
  <2>2. CASE u = t
    BY <1>2, <1>4, <2>1, <2>2 DEF Begun
  <2>3. CASE u # t
    BY <1>2, <2>3 DEF QueueInv, TasksAgree
  <2> QED
    BY <2>2, <2>3
<1>9. /\ Len(q.pending) <= MaxQueueSize
      /\ q.running \subseteq queue.running
      /\ \A u \in queue.running : ~In(u, q.pending)
      /\ queueClosed' \in BOOLEAN /\ order' \in Seq(Tasks)
  BY <1>1, <1>3 DEF QueueInv, QueueSound
<1>10. /\ QueueInv'
       /\ \A u \in Tasks :
            \/ taskState'[u] = states[u] /\ attempt'[u] = attempt[u]
            \/ states[u] = "pending" /\ taskState'[u] = "running" /\ attempt'[u] = 1
  BY <1>3, <1>5, <1>7, <1>8, <1>9, ScheduledInv
<1> QED
  BY <1>2, <1>10

\* Only the task t changed, and it is neither pending nor new.
LEMMA StateInv ==
  ASSUME QueueInv, NEW t \in Tasks, NEW s \in {"running", "sleeping"}, NEW n \in Nat,
         t \in queue.running, n > 0, n <= MaxAttempts,
         s = "sleeping" => n < MaxAttempts,
         taskState' = [taskState EXCEPT ![t] = s],
         attempt' = [attempt EXCEPT ![t] = n],
         UNCHANGED <<queue, queueClosed, order>>
  PROVE  QueueInv'
<1>1. /\ taskState' \in [Tasks -> States] /\ taskState'[t] = s
      /\ \A u \in Tasks : u # t => taskState'[u] = taskState[u]
  BY QueueFacts DEF States
<1>2. /\ attempt' \in [Tasks -> Nat] /\ attempt'[t] = n
      /\ \A u \in Tasks : u # t => attempt'[u] = attempt[u]
  BY QueueFacts
<1>3. taskState[t] \in {"running", "sleeping"}
  BY DEF QueueInv, TasksAgree
<1>4. Withdrawn(taskState)' = Withdrawn(taskState)
  BY <1>1, <1>3 DEF Withdrawn
<1>5. TasksAgree(queue, taskState', attempt', order)
  <2> SUFFICES ASSUME NEW u \in Tasks
               PROVE  /\ In(u, queue.pending) <=> taskState'[u] = "pending"
                      /\ u \in queue.running <=> taskState'[u] \in {"running", "sleeping"}
                      /\ attempt'[u] > 0 <=> taskState'[u] \in Begun
                      /\ attempt'[u] <= MaxAttempts
                      /\ taskState'[u] = "sleeping" => attempt'[u] < MaxAttempts
                      /\ In(u, order) => taskState'[u] # "new"
    BY <1>1, <1>2 DEF TasksAgree
  <2>1. CASE u = t
    <3>1. ~In(t, queue.pending)
      BY DEF QueueInv, QueueSound
    <3> QED
      BY <1>1, <1>2, <2>1, <3>1 DEF Begun
  <2>2. CASE u # t
    BY <1>1, <1>2, <2>2 DEF QueueInv, TasksAgree
  <2> QED
    BY <2>1, <2>2
<1>6. /\ InTurn(queue, order, Withdrawn(taskState)')
      /\ queueClosed \in BOOLEAN /\ order \in Seq(Tasks)
      /\ QueueSound(queue) /\ ~CanStart(queue) /\ Len(queue.pending) <= MaxQueueSize
  BY <1>4 DEF QueueInv
<1> QED
  BY <1>5, <1>6 DEF QueueInv

LEMMA FailInv ==
  ASSUME QueueInv, NEW t \in Tasks, taskState[t] = "running", NEW class, Fail(t, class)
  PROVE  QueueInv'
<1>1. t \in queue.running /\ attempt[t] \in Nat /\ attempt[t] > 0 /\ attempt[t] <= MaxAttempts
  BY QueueFacts DEF QueueInv, TasksAgree, Begun
<1>2. CASE /\ MayRetry(t, class)
           /\ taskState' = [taskState EXCEPT ![t] = "sleeping"]
           /\ UNCHANGED <<queue, attempt, queueClosed, order>>
  <2>1. attempt[t] < MaxAttempts
    BY <1>2 DEF MayRetry
  <2>2. attempt' = [attempt EXCEPT ![t] = attempt[t]]
    BY <1>2, QueueFacts
  <2> QED
    BY <1>1, <1>2, <2>1, <2>2, StateInv
<1>3. CASE Settle(t, "failed")
  BY <1>3, SettleInv
<1> QED
  BY <1>2, <1>3 DEF Fail

LEMMA RetryInv ==
  ASSUME QueueInv, NEW t \in Tasks, Retry(t)
  PROVE  QueueInv'
<1>1. /\ taskState[t] = "sleeping"
      /\ attempt' = [attempt EXCEPT ![t] = attempt[t] + 1]
      /\ taskState' = [taskState EXCEPT ![t] = "running"]
      /\ UNCHANGED <<queue, queueClosed, order>>
  BY DEF Retry
<1>2. t \in queue.running /\ attempt[t] < MaxAttempts
  BY <1>1 DEF QueueInv, TasksAgree
<1>3. attempt[t] + 1 \in Nat /\ attempt[t] + 1 > 0 /\ attempt[t] + 1 <= MaxAttempts
  BY <1>2, QueueFacts
<1> QED
  BY <1>1, <1>2, <1>3, StateInv

LEMMA QueueNextInv == QueueInv /\ [QueueNext]_queueVars => QueueInv'
<1> SUFFICES ASSUME QueueInv, [QueueNext]_queueVars PROVE QueueInv'
  OBVIOUS
<1>1. CASE UNCHANGED queueVars
  BY <1>1 DEF queueVars, QueueInv
<1>2. CASE CloseQueue
  BY <1>2 DEF CloseQueue, QueueInv
<1>3. ASSUME NEW t \in Tasks, Submit(t) \/ AbortPending(t) \/ Retry(t)
      PROVE  QueueInv'
  BY <1>3, SubmitInv, AbortPendingInv, RetryInv
<1>4. ASSUME NEW t \in Tasks, taskState[t] = "running",
             \/ Settle(t, "completed")
             \/ \E class \in {"retryable", "expired", "permanent"} : Fail(t, class)
      PROVE  QueueInv'
  BY <1>4, SettleInv, FailInv
<1> QED
  BY <1>1, <1>2, <1>3, <1>4 DEF QueueNext

LEMMA QueueInvSafe == QueueInv => QueueSafe
<1> SUFFICES ASSUME QueueInv PROVE QueueSafe
  OBVIOUS
<1>1. KeysNeverOverlap
  BY DEF KeysNeverOverlap, QueueInv, QueueSound, KeysApart
<1>2. QueueIsBusy
  BY DEF QueueIsBusy, QueueInv, QueueSound
<1>3. ASSUME NEW i \in DOMAIN order, NEW j \in DOMAIN order, i < j,
             SameKey(order[i], order[j]), attempt[order[j]] > 0
      PROVE  attempt[order[i]] > 0 \/ taskState[order[i]] = "refused"
  <2>1. /\ i \in 1..Len(order) /\ j \in 1..Len(order)
        /\ order[i] \in Tasks /\ order[j] \in Tasks
        /\ In(order[i], order)
    <3>1. DOMAIN order = 1..Len(order) /\ \A k \in 1..Len(order) : order[k] \in Tasks
      BY LenProperties DEF QueueInv
    <3> QED
      BY <3>1 DEF In
  <2>2. taskState[order[j]] \in Begun
    BY <1>3, <2>1 DEF QueueInv, TasksAgree
  <2>3. ~In(order[j], queue.pending) /\ order[j] \notin Withdrawn(taskState)
    BY <2>1, <2>2 DEF QueueInv, TasksAgree, Begun, Withdrawn
  <2>4. ~In(order[i], queue.pending)
    BY <1>3, <2>1, <2>3 DEF QueueInv, InTurn, KeyWaits
  <2>5. taskState[order[i]] \in States \ {"pending", "new"}
    BY <2>1, <2>4, QueueFacts DEF QueueInv, TasksAgree
  <2> QED
    BY <2>1, <2>5 DEF QueueInv, TasksAgree, States, Begun
<1>4. KeysInOrder
  BY <1>3 DEF KeysInOrder, Started, SameKey
<1> QED
  BY <1>1, <1>2, <1>4 DEF QueueSafe

(* Keys: "tasks with the same key never overlap" and start in the order    *)
(* they were accepted, retries included; every slot is used while a task   *)
(* may start, and the pending tasks stay within their bound.               *)
THEOREM KeysAreSerialized == QueueSpec => []QueueSafe
<1>1. QueueSpec => []QueueInv
  BY QueueInitInv, QueueNextInv, PTL DEF QueueSpec
<1> QED
  BY <1>1, QueueInvSafe, PTL

-----------------------------------------------------------------------------
(* A lease that does not wait is changed by nobody but its caller.         *)

LEMMA DispatchStays ==
  ASSUME NEW es \in SUBSET Accounts, NEW ls, NEW ws, NEW n,
         NEW L \in [Callers -> Leases], Queued(ws, L), Dispatch(es, ls, ws, n, L),
         NEW d \in Callers, L[d] # Waiting
  PROVE  lease'[d] = L[d]
<1> DEFINE k == Smaller(Cardinality(AvailableIn(es, ls)), Len(ws))
<1>1. PICK give : lease' = [c \in Callers |->
                              IF \E i \in 1 .. k : ws[i] = c
                              THEN Held(give[CHOOSE i \in 1 .. k : ws[i] = c])
                              ELSE L[c]]
  BY DEF Dispatch
<1>2. Len(ws) \in Nat /\ Cardinality(AvailableIn(es, ls)) \in Nat
  BY SubsetOfAccounts, LenProperties DEF Queued, AvailableIn
<1>3. k \in Nat /\ k <= Len(ws)
  BY <1>2 DEF Smaller
<1>4. \A i \in 1..k : ws[i] # d
  <2>1. \A i \in 1..k : i \in 1..Len(ws)
    BY <1>2, <1>3
  <2> QED
    BY <2>1 DEF Queued
<1> HIDE DEF k
<1> QED
  BY <1>1, <1>4

LEMMA OwnSteps ==
  ASSUME PoolInv, NEW c \in Callers, NEW d \in Callers \ {c}, lease[d] # Waiting,
         Lease(c) \/ Abandon(c) \/ Forget(c) \/ Release(c) \/ Reclaimed(c)
  PROVE  lease'[d] = lease[d]
<1>1. CASE Lease(c)
  <2>1. CASE Dispatch(entries, leased, Append(waiters, c), creating,
                      [lease EXCEPT ![c] = Waiting])
    <3> DEFINE L == [lease EXCEPT ![c] = Waiting]
               ws == Append(waiters, c)
    <3>1. L \in [Callers -> Leases] /\ L[d] = lease[d] /\ L[d] # Waiting
      BY PoolFacts, LeaseKinds
    <3>2. lease[c] # Waiting
      BY <1>1, LeaseKinds DEF Lease
    <3>3. Queued(ws, L)
      BY <3>2, PoolFacts, QueuedLast
    <3> HIDE DEF L, ws
    <3>4. Dispatch(entries, leased, ws, creating, L)
      BY <2>1 DEF L, ws
    <3> QED
      BY <3>1, <3>3, <3>4, PoolFacts, DispatchStays
  <2>2. CASE \/ lease' = [lease EXCEPT ![c] = Refused]
             \/ \E a \in Available : lease' = [lease EXCEPT ![c] = Held(a)]
    BY <2>2, PoolFacts
  <2> QED
    BY <1>1, <2>1, <2>2 DEF Lease
<1>2. CASE Abandon(c) \/ Forget(c)
  BY <1>2, PoolFacts DEF Abandon, Forget
<1>3. ASSUME Dispatch(entries, leased \ {lease[c].account}, waiters, creating,
                      [lease EXCEPT ![c] = NoLease])
             \/ Dispatch(entries, leased, waiters, creating,
                         [lease EXCEPT ![c] = NoLease]),
             lease[c] # Waiting
      PROVE  lease'[d] = lease[d]
  <2> DEFINE L == [lease EXCEPT ![c] = NoLease]
  <2>1. L \in [Callers -> Leases] /\ L[d] = lease[d] /\ L[d] # Waiting
    BY PoolFacts, LeaseKinds
  <2>2. Queued(waiters, L)
    BY <1>3, PoolFacts, LeaseKinds, QueuedElsewhere
  <2> HIDE DEF L
  <2>3. \/ Dispatch(entries, leased \ {lease[c].account}, waiters, creating, L)
        \/ Dispatch(entries, leased, waiters, creating, L)
    BY <1>3 DEF L
  <2> QED
    BY <2>1, <2>2, <2>3, PoolFacts, DispatchStays
<1>4. CASE Release(c)
  <2>1. lease[c] # Waiting
    BY <1>4, LeaseKinds DEF Release
  <2>2. CASE lease' = [lease EXCEPT ![c] = Returning(lease[c].account)]
    BY <2>2, PoolFacts
  <2> QED
    BY <1>3, <1>4, <2>1, <2>2 DEF Release
<1>5. CASE Reclaimed(c)
  <2>1. lease[c] # Waiting
    BY <1>5, LeaseKinds DEF Reclaimed
  <2>2. CASE lease' = [lease EXCEPT ![c] = Refused]
    BY <2>2, PoolFacts
  <2> QED
    BY <1>3, <1>5, <2>1, <2>2 DEF Reclaimed
<1> QED
  BY <1>1, <1>2, <1>4, <1>5

LEMMA PoolStepsStay ==
  ASSUME PoolInv, PoolStep \/ Close, NEW d \in Callers, lease[d] # Waiting
  PROVE  lease'[d] = lease[d]
<1>1. ASSUME NEW es \in SUBSET Accounts, NEW ls, NEW n, Dispatch(es, ls, waiters, n, lease)
      PROVE  lease'[d] = lease[d]
  BY <1>1, PoolFacts, DispatchStays
<1>2. ASSUME NEW n, Dispatch(entries, leased, AfterFirst, n, FirstRejected)
      PROVE  lease'[d] = lease[d]
  <2>1. FirstRejected[d] = lease[d]
    <3>1. CASE waiters = <<>>
      BY <3>1 DEF FirstRejected
    <3>2. CASE waiters # <<>>
      <4>1. Head(waiters) = waiters[1] /\ 1 \in 1..Len(waiters)
        BY <3>2, PoolFacts, LenProperties DEF Queued
      <4>2. waiters[1] # d
        BY <4>1, PoolFacts DEF Queued
      <4> QED
        BY <3>2, <4>1, <4>2, PoolFacts DEF FirstRejected
    <3> QED
      BY <3>1, <3>2
  <2> QED
    BY <1>2, <2>1, FirstIsRejected, PoolFacts, DispatchStays
<1>3. ASSUME NEW own, Create(own)
      PROVE  lease'[d] = lease[d]
  <2>1. \/ \E a \in Accounts : Dispatch(entries \cup {a}, leased, waiters, creating - 1, lease)
        \/ lease' = lease
    BY <1>3 DEF Create
  <2> QED
    BY <1>1, <2>1, PoolFacts
<1>4. ASSUME NEW own, CreateFails(own)
      PROVE  lease'[d] = lease[d]
  BY <1>2, <1>4 DEF CreateFails
<1>5. ASSUME NEW own, NEW ok \in BOOLEAN, Discard(own, ok)
      PROVE  lease'[d] = lease[d]
  <2>1. \/ Dispatch(entries, leased, waiters, creating - 1, lease)
        \/ Dispatch(entries, leased, AfterFirst, creating - 1, FirstRejected)
    BY <1>5 DEF Discard
  <2> QED
    BY <1>1, <1>2, <2>1, PoolFacts
<1>6. ASSUME Measure \/ \E a \in Accounts : Shrink(a)
      PROVE  lease' = lease
  BY <1>6 DEF Measure, Shrink
<1>7. CASE Close
  BY <1>7, PoolFacts DEF Close
<1>8. CASE PoolStep
  BY <1>3, <1>4, <1>5, <1>6, <1>8 DEF PoolStep
<1> QED
  BY <1>7, <1>8

-----------------------------------------------------------------------------
(* The calls of an agent use the pool and the queue as those allow.        *)

LEMMA CallUsesPool ==
  ASSUME NEW c \in Callers, Call(c) \/ Step(c) \/ LeaseTimeout(c), ~(UNCHANGED poolVars)
  PROVE  Lease(c) \/ Abandon(c) \/ Forget(c) \/ Release(c) \/ Reclaimed(c)
<1>1. CASE Call(c)
  BY <1>1 DEF Call
<1>2. CASE LeaseTimeout(c)
  BY <1>2 DEF LeaseTimeout
<1>3. CASE Step(c)
  <2>1. \/ AskForAccount(c) \/ GiveBack(c) \/ AccountReclaimed(c) \/ FinishRejected(c)
        \/ Load(c) \/ Prepare(c) \/ SendAccepted(c) \/ SendRefused(c) \/ SendLost(c)
        \/ CheckSent(c) \/ Poll(c) \/ Finish(c) \/ Again(c)
    BY <1>3 DEF Step
  <2>2. CASE AskForAccount(c) \/ GiveBack(c) \/ AccountReclaimed(c) \/ FinishRejected(c)
    BY <2>2 DEF AskForAccount, GiveBack, AccountReclaimed, FinishRejected
  <2>3. CASE \/ Load(c) \/ Prepare(c) \/ SendAccepted(c) \/ SendRefused(c) \/ SendLost(c)
             \/ CheckSent(c) \/ Poll(c) \/ Finish(c) \/ Again(c)
    BY <2>3 DEF Load, Prepare, SendAccepted, SendRefused, SendLost, CheckSent, Poll,
                Finish, Again
  <2> QED
    BY <2>1, <2>2, <2>3
<1> QED
  BY <1>1, <1>2, <1>3

LEMMA FleetPoolSteps == [FleetNext]_fleetVars => [PoolNext]_poolVars
<1> SUFFICES ASSUME [FleetNext]_fleetVars, ~(UNCHANGED poolVars) PROVE PoolNext
  OBVIOUS
<1>1. FleetNext
  BY DEF fleetVars
<1>2. ASSUME NEW c \in Callers, Call(c) \/ Step(c) \/ LeaseTimeout(c)
      PROVE  Lease(c) \/ Abandon(c) \/ Forget(c) \/ Release(c) \/ Reclaimed(c)
  BY <1>2, CallUsesPool
<1>3. CASE PoolWork \/ ClosePool
  BY <1>3 DEF PoolWork, ClosePool, PoolNext
<1>4. CASE ShutDown \/ \E e \in mempool : Include(e) \/ Expire(e)
  BY <1>4 DEF ShutDown, Include, Expire
<1> QED
  BY <1>1, <1>2, <1>3, <1>4 DEF FleetNext, PoolNext

LEMMA AnswerQueueStep ==
  ASSUME NEW c \in Callers, NEW result, taskState[c] = "running", Answer(c, result)
  PROVE  QueueNext
<1>1. c \in Tasks
  BY FleetAssumption
<1>2. Classify(result) \in {"retryable", "expired", "permanent"}
  BY DEF Classify
<1>3. Settle(c, "completed") \/ Fail(c, Classify(result))
  BY DEF Answer
<1> QED
  BY <1>1, <1>2, <1>3 DEF QueueNext

LEMMA FleetQueueSteps == [FleetNext]_fleetVars => [QueueNext]_queueVars
<1> SUFFICES ASSUME [FleetNext]_fleetVars, ~(UNCHANGED queueVars) PROVE QueueNext
  OBVIOUS
<1>1. FleetNext
  BY DEF fleetVars
<1>2. ASSUME NEW c \in Callers, Call(c) \/ Step(c) \/ LeaseTimeout(c)
      PROVE  QueueNext
  <2>0. c \in Tasks
    BY FleetAssumption
  <2>1. CASE Call(c)
    BY <2>0, <2>1 DEF Call, QueueNext
  <2>2. CASE LeaseTimeout(c)
    BY <2>2 DEF LeaseTimeout
  <2>3. CASE Step(c)
    <3>1. \/ Finish(c) \/ FinishRejected(c) \/ Again(c)
          \/ AskForAccount(c) \/ GiveBack(c) \/ AccountReclaimed(c)
          \/ Load(c) \/ Prepare(c) \/ SendAccepted(c) \/ SendRefused(c) \/ SendLost(c)
          \/ CheckSent(c) \/ Poll(c)
      BY <2>3 DEF Step
    <3>2. CASE Finish(c) \/ FinishRejected(c)
      BY <3>2, AnswerQueueStep DEF Finish, FinishRejected, At
    <3>3. CASE Again(c)
      BY <2>0, <3>3 DEF Again, QueueNext
    <3>4. CASE \/ AskForAccount(c) \/ GiveBack(c) \/ AccountReclaimed(c)
               \/ Load(c) \/ Prepare(c) \/ SendAccepted(c) \/ SendRefused(c) \/ SendLost(c)
               \/ CheckSent(c) \/ Poll(c)
      BY <3>4 DEF AskForAccount, GiveBack, AccountReclaimed, Load, Prepare, SendAccepted,
                  SendRefused, SendLost, CheckSent, Poll
    <3> QED
      BY <3>1, <3>2, <3>3, <3>4
  <2> QED
    BY <1>2, <2>1, <2>2, <2>3
<1>3. CASE ShutDown
  BY <1>3 DEF ShutDown, QueueNext
<1>4. CASE PoolWork \/ ClosePool \/ \E e \in mempool : Include(e) \/ Expire(e)
  BY <1>4 DEF PoolWork, ClosePool, Include, Expire
<1> QED
  BY <1>1, <1>2, <1>3, <1>4 DEF FleetNext

(* Whatever the network loses, a fleet's calls are behaviours of the pool  *)
(* and of the queue, so that what holds of those holds of them.            *)
THEOREM FleetUsesPoolAndQueue == FleetSpec => PoolSpec /\ QueueSpec
<1>1. FleetInit => PoolInit /\ QueueInit
  BY DEF FleetInit, CallsInit
<1> QED
  BY <1>1, FleetPoolSteps, FleetQueueSteps, PTL DEF FleetSpec, PoolSpec, QueueSpec

-----------------------------------------------------------------------------
(* What the network and the calls of a fleet are in.  One run of a call    *)
(* uses one account and one sequence number from its first send to its     *)
(* end, and the network keeps one pending transaction per account: so a    *)
(* run is included at most once.                                           *)

Results == {"none", "success", "NETWORK_ERROR", "SIMULATION_FAILED",
            "SUBMISSION_FAILED", "TRANSACTION_FAILED", "TRANSACTION_TIMEOUT",
            "reclaim failed"}

Invocations ==
  [at : {"idle", "leasing", "loaded", "sending", "checking", "polling",
         "ending", "returning", "done"},
   seq : Nat, envelope : Nat, sends : Nat, polls : Nat, result : Results]

Sending == {"sending", "checking", "polling"}
Holding == {"loaded", "ending"} \cup Sending
Unstarted == {"new", "pending", "refused"}

Envelopes == [call : Callers, run : Nat, envelope : Nat, account : Accounts, seq : Nat]
Transactions == [call : Callers, run : Nat, envelope : Nat, ok : BOOLEAN]

OneRun(e, t) == e.call = t.call /\ e.run = t.run
ThisRun(e, c) == e.call = c /\ e.run = attempt[c]

NoTrace(c) == \A e \in mempool \cup chain : ~ThisRun(e, c)

NetworkInv ==
  /\ sequence \in [Accounts -> Nat]
  /\ mempool \subseteq Envelopes /\ chain \subseteq Transactions
  /\ \A e \in mempool : e.seq = sequence[e.account] + 1
  /\ \A e \in mempool \cup chain : 1 <= e.run /\ e.run <= attempt[e.call]
  /\ \A e, f \in mempool : e.account = f.account <=> OneRun(e, f)
  /\ \A t, u \in chain : OneRun(t, u) => t = u
  /\ \A e \in mempool, t \in chain : ~OneRun(e, t)

\* A call with a lease is running, and knows where its transaction is.
CallInv(c) ==
  /\ inv[c].at \in {"idle", "done"} => lease[c] = NoLease
  /\ inv[c].at \in Holding => lease[c].at = "held"
  /\ taskState[c] # "running" => inv[c].at \in {"idle", "done"}
  /\ taskState[c] \in Unstarted => inv[c].at = "idle"
  /\ inv[c].at \notin {"ending", "returning", "done"} => inv[c].result = "none"
  /\ inv[c].at \in {"idle", "leasing", "loaded"} => NoTrace(c)
  /\ inv[c].at \in Sending =>
        /\ \A e \in mempool : ThisRun(e, c) => e.account = Account(c) /\ e.seq = inv[c].seq
        /\ \A t \in chain : ThisRun(t, c) => sequence[Account(c)] >= inv[c].seq
  /\ inv[c].result = "success" => \E t \in chain : t.call = c /\ t.ok
  /\ inv[c].result = "TRANSACTION_FAILED" => \E t \in chain : ThisRun(t, c) /\ ~t.ok
  /\ inv[c].result = "SIMULATION_FAILED" => NoTrace(c)

FleetInv ==
  /\ PoolInv /\ QueueInv
  /\ inv \in [Callers -> Invocations]
  /\ NetworkInv
  /\ \A c \in Callers : CallInv(c)

LEMMA FleetFacts ==
  ASSUME FleetInv, NEW c \in Callers
  PROVE  /\ c \in Tasks
         /\ inv[c] \in Invocations
         /\ inv[c] = [at |-> inv[c].at, seq |-> inv[c].seq, envelope |-> inv[c].envelope,
                      sends |-> inv[c].sends, polls |-> inv[c].polls,
                      result |-> inv[c].result]
         /\ attempt[c] \in Nat /\ attempt[c] <= MaxAttempts
         /\ attempt[c] > 0 <=> taskState[c] \in Begun
         /\ attempt[c] = 0 <=> taskState[c] \in Unstarted
         /\ taskState[c] \in States
         /\ lease[c] \in Leases
         /\ CallInv(c)
<1>1. c \in Tasks
  BY FleetAssumption
<1>2. inv[c] \in Invocations
  BY DEF FleetInv
<1>3. inv[c] = [at |-> inv[c].at, seq |-> inv[c].seq, envelope |-> inv[c].envelope,
                sends |-> inv[c].sends, polls |-> inv[c].polls, result |-> inv[c].result]
  BY <1>2 DEF Invocations
<1>4. /\ attempt[c] \in Nat /\ attempt[c] <= MaxAttempts
      /\ attempt[c] > 0 <=> taskState[c] \in Begun
      /\ taskState[c] \in States
  BY <1>1 DEF FleetInv, QueueInv, TasksAgree
<1>5. attempt[c] = 0 <=> taskState[c] \in Unstarted
  <2>1. taskState[c] \in Unstarted <=> taskState[c] \notin Begun
    BY <1>4 DEF Unstarted, Begun, States
  <2>2. attempt[c] = 0 <=> ~(attempt[c] > 0)
    BY <1>4
  <2> QED
    BY <1>4, <2>1, <2>2
<1>6. lease[c] \in Leases
  BY PoolFacts DEF FleetInv
<1> QED
  BY <1>1, <1>2, <1>3, <1>4, <1>5, <1>6 DEF FleetInv

\* What a step of another call may do to the task d.
TaskMoves(d) ==
  /\ \/ attempt'[d] = attempt[d]
     \/ attempt[d] = 0 /\ attempt'[d] = 1
  /\ taskState'[d] \in Unstarted => taskState[d] \in Unstarted
  /\ taskState'[d] # "running" => taskState[d] # "running"

(* A call keeps its invariant while others use the pool, the queue and the *)
(* network.                                                                *)
LEMMA OthersKeep ==
  ASSUME FleetInv, NEW d \in Callers,
         inv'[d] = inv[d],
         lease[d] # Waiting => lease'[d] = lease[d],
         TaskMoves(d),
         \A e \in mempool' : e \in mempool \/ e.call # d,
         UNCHANGED <<chain, sequence>>
  PROVE  CallInv(d)'
<1>1. CallInv(d)
  BY FleetFacts
<1>2. \A e \in mempool \cup chain : e.call = d => 1 <= e.run /\ e.run <= attempt[d]
  BY DEF FleetInv, NetworkInv
<1>3. inv[d].at \in {"idle", "done"} \cup Holding => lease'[d] = lease[d]
  BY <1>1, LeaseKinds DEF CallInv
<1>4. ASSUME attempt[d] = 0
      PROVE  inv[d].at = "idle" /\ inv[d].result = "none" /\ ~\E e \in mempool \cup chain : e.call = d
  <2>1. inv[d].at = "idle" /\ inv[d].result = "none"
    BY <1>1, <1>4, FleetFacts DEF CallInv
  <2>2. ASSUME NEW e \in mempool \cup chain, e.call = d
        PROVE  FALSE
    <3>1. 1 <= e.run /\ e.run <= 0
      BY <1>2, <1>4, <2>2
    <3>2. e.run \in Nat
      BY DEF FleetInv, NetworkInv, Envelopes, Transactions
    <3> QED
      BY <3>1, <3>2
  <2> QED
    BY <2>1, <2>2
<1>5. CASE attempt[d] = 0
  <2>1. /\ inv'[d].at = "idle" /\ inv'[d].result = "none"
        /\ \A e \in mempool' \cup chain' : e.call # d
    BY <1>4, <1>5
  <2>2. NoTrace(d)'
    BY <2>1 DEF NoTrace, ThisRun
  <2>3. lease'[d] = NoLease
    BY <1>1, <1>3, <1>4, <1>5 DEF CallInv
  <2> QED
    BY <2>1, <2>2, <2>3 DEF CallInv, Holding, Sending
<1>6. CASE attempt'[d] = attempt[d]
  <2>1. NoTrace(d) => NoTrace(d)'
    BY <1>6 DEF NoTrace, ThisRun
  <2>2. /\ inv'[d].at \in {"idle", "done"} => lease'[d] = NoLease
        /\ inv'[d].at \in Holding => lease'[d].at = "held"
    BY <1>1, <1>3 DEF CallInv
  <2>3. /\ taskState'[d] # "running" => inv'[d].at \in {"idle", "done"}
        /\ taskState'[d] \in Unstarted => inv'[d].at = "idle"
        /\ inv'[d].at \notin {"ending", "returning", "done"} => inv'[d].result = "none"
        /\ inv'[d].at \in {"idle", "leasing", "loaded"} => NoTrace(d)'
        /\ inv'[d].result = "SIMULATION_FAILED" => NoTrace(d)'
    BY <1>1, <2>1 DEF CallInv, TaskMoves
  <2>4. inv'[d].at \in Sending =>
           /\ \A e \in mempool' :
                 ThisRun(e, d)' => e.account = Account(d)' /\ e.seq = inv'[d].seq
           /\ \A t \in chain' : ThisRun(t, d)' => sequence'[Account(d)'] >= inv'[d].seq
    <3> SUFFICES ASSUME inv[d].at \in Sending
                 PROVE  /\ \A e \in mempool' :
                              ThisRun(e, d)' => e.account = Account(d)' /\ e.seq = inv'[d].seq
                        /\ \A t \in chain' : ThisRun(t, d)' => sequence'[Account(d)'] >= inv'[d].seq
      OBVIOUS
    <3>1. Account(d)' = Account(d)
      BY <1>3 DEF Account, Holding
    <3>2. \A e : ThisRun(e, d)' <=> ThisRun(e, d)
      BY <1>6 DEF ThisRun
    <3>3. \A e \in mempool' : ThisRun(e, d) => e \in mempool
      BY DEF ThisRun
    <3> QED
      BY <1>1, <3>1, <3>2, <3>3 DEF CallInv
  <2>5. /\ inv'[d].result = "success" => \E t \in chain' : t.call = d /\ t.ok
        /\ inv'[d].result = "TRANSACTION_FAILED" => \E t \in chain' : ThisRun(t, d)' /\ ~t.ok
    BY <1>1, <1>6 DEF CallInv, ThisRun
  <2> QED
    BY <2>2, <2>3, <2>4, <2>5 DEF CallInv
<1> QED
  BY <1>5, <1>6 DEF TaskMoves

\* A step of the call c leaves its invocation at such a place.
Moves(c, at, result, seq) ==
  /\ inv' \in [Callers -> Invocations]
  /\ \A d \in Callers \ {c} : inv'[d] = inv[d]
  /\ inv'[c].at = at /\ inv'[c].result = result /\ inv'[c].seq = seq

LEMMA MovesTo ==
  ASSUME FleetInv, NEW c \in Callers, NEW x \in Invocations, inv' = [inv EXCEPT ![c] = x]
  PROVE  Moves(c, x.at, x.result, x.seq)
BY DEF Moves, FleetInv

\* The updates of an invocation.
LEMMA Resent ==
  ASSUME NEW x \in Invocations, NEW n \in Nat
  PROVE  LET y == [x EXCEPT !.at = "sending", !.sends = n]
         IN  y \in Invocations /\ y.at = "sending" /\ y.result = x.result /\ y.seq = x.seq
BY DEF Invocations

LEMMA LoadedPlan ==
  ASSUME NEW x \in Invocations, NEW n \in Nat
  PROVE  LET y == [x EXCEPT !.at = "loaded", !.seq = n]
         IN  y \in Invocations /\ y.at = "loaded" /\ y.result = x.result /\ y.seq = n
BY DEF Invocations

LEMMA Prepared ==
  ASSUME NEW x \in Invocations, NEW n \in Nat
  PROVE  LET y == [x EXCEPT !.at = "sending", !.envelope = n]
         IN  y \in Invocations /\ y.at = "sending" /\ y.result = x.result /\ y.seq = x.seq
BY DEF Invocations

LEMMA Bumped ==
  ASSUME NEW x \in Invocations, NEW n \in Nat, NEW m \in Nat
  PROVE  LET y == [x EXCEPT !.at = "sending", !.envelope = n, !.sends = 0, !.polls = m]
         IN  y \in Invocations /\ y.at = "sending" /\ y.result = x.result /\ y.seq = x.seq
BY DEF Invocations

LEMMA Polled ==
  ASSUME NEW x \in Invocations, NEW m \in Nat
  PROVE  LET y == [x EXCEPT !.polls = m]
         IN  y \in Invocations /\ y.at = x.at /\ y.result = x.result /\ y.seq = x.seq
BY DEF Invocations

LEMMA CountsOf ==
  ASSUME FleetInv, NEW c \in Callers
  PROVE  /\ inv[c].seq \in Nat /\ inv[c].envelope + 1 \in Nat
         /\ inv[c].sends + 1 \in Nat /\ inv[c].polls + 1 \in Nat
<1>1. inv[c] \in Invocations
  BY FleetFacts
<1>2. /\ inv[c].seq \in Nat /\ inv[c].envelope \in Nat
      /\ inv[c].sends \in Nat /\ inv[c].polls \in Nat
  BY <1>1 DEF Invocations
<1> QED
  BY <1>2

LEMMA ToMoves ==
  ASSUME FleetInv, NEW c \in Callers,
         NEW at \in {"leasing", "sending", "checking", "polling", "returning"}, To(c, at)
  PROVE  Moves(c, at, inv[c].result, inv[c].seq)
<1> DEFINE x == [inv[c] EXCEPT !.at = at]
<1>1. inv' = [inv EXCEPT ![c] = x]
  BY DEF To
<1>2. x \in Invocations /\ x.at = at /\ x.result = inv[c].result /\ x.seq = inv[c].seq
  BY FleetFacts DEF Invocations
<1> HIDE DEF x
<1> QED
  BY <1>1, <1>2, MovesTo

LEMMA EndMoves ==
  ASSUME FleetInv, NEW c \in Callers, NEW result \in Results, End(c, result)
  PROVE  Moves(c, "ending", result, 0)
<1> DEFINE x == [Idle EXCEPT !.at = "ending", !.result = result]
<1>1. inv' = [inv EXCEPT ![c] = x]
  BY DEF End
<1>2. x \in Invocations /\ x.at = "ending" /\ x.result = result /\ x.seq = 0
  BY DEF Invocations, Idle, Results
<1> HIDE DEF x
<1> QED
  BY <1>1, <1>2, MovesTo

LEMMA SendAgainMoves ==
  ASSUME FleetInv, NEW c \in Callers,
         NEW error \in {"SUBMISSION_FAILED", "NETWORK_ERROR"}, SendAgain(c, error)
  PROVE  \/ Moves(c, "sending", inv[c].result, inv[c].seq)
         \/ Moves(c, "ending", error, 0)
<1>1. CASE inv' = [inv EXCEPT ![c].at = "sending", ![c].sends = @ + 1]
  <2> DEFINE n == inv[c].sends + 1
             x == [inv[c] EXCEPT !.at = "sending", !.sends = n]
  <2>1. inv' = [inv EXCEPT ![c] = x]
    BY <1>1 DEF FleetInv
  <2>2. n \in Nat
    BY CountsOf
  <2> HIDE DEF n
  <2>3. inv[c] \in Invocations
    BY FleetFacts
  <2>4. x \in Invocations /\ x.at = "sending" /\ x.result = inv[c].result /\ x.seq = inv[c].seq
    BY <2>2, <2>3, Resent
  <2> HIDE DEF x
  <2> QED
    BY <2>1, <2>4, MovesTo
<1>2. CASE End(c, error)
  BY <1>2, EndMoves DEF Results
<1> QED
  BY <1>1, <1>2 DEF SendAgain

LEMMA SentMoves ==
  ASSUME FleetInv, NEW c \in Callers, Sent(c)
  PROVE  \/ Moves(c, "polling", inv[c].result, inv[c].seq)
         \/ Moves(c, "ending", "TRANSACTION_TIMEOUT", 0)
BY ToMoves, EndMoves DEF Sent, Results

LEMMA NetworkKept ==
  ASSUME FleetInv, UNCHANGED networkVars, \A c \in Callers : attempt'[c] >= attempt[c],
         \A c \in Callers : attempt'[c] \in Nat
  PROVE  NetworkInv'
<1>1. sequence' = sequence /\ mempool' = mempool /\ chain' = chain
  BY DEF networkVars
<1>2. ASSUME NEW e \in mempool \cup chain
      PROVE  1 <= e.run /\ e.run <= attempt'[e.call]
  <2>1. 1 <= e.run /\ e.run <= attempt[e.call] /\ e.run \in Nat /\ e.call \in Callers
    BY DEF FleetInv, NetworkInv, Envelopes, Transactions
  <2>2. attempt[e.call] \in Nat
    BY <2>1, FleetFacts
  <2> QED
    BY <2>1, <2>2
<1> QED
  BY <1>1, <1>2 DEF FleetInv, NetworkInv

\* The steps of a call that touch nothing but its invocation.
LEMMA StepInv ==
  ASSUME FleetInv, PoolInv', QueueInv', NEW c \in Callers,
         NEW at, NEW result, NEW seq, Moves(c, at, result, seq),
         \A d \in Callers \ {c} : lease[d] # Waiting => lease'[d] = lease[d],
         \A d \in Callers \ {c} : TaskMoves(d),
         attempt'[c] \in Nat, attempt'[c] >= attempt[c],
         UNCHANGED networkVars, CallInv(c)'
  PROVE  FleetInv'
<1>1. sequence' = sequence /\ mempool' = mempool /\ chain' = chain
  BY DEF networkVars
<1>2. \A d \in Callers : CallInv(d)'
  <2>1. ASSUME NEW d \in Callers \ {c}
        PROVE  CallInv(d)'
    <3>1. inv'[d] = inv[d]
      BY DEF Moves
    <3> QED
      BY <1>1, <3>1, OthersKeep
  <2> QED
    BY <2>1
<1>3. \A d \in Callers : attempt'[d] \in Nat /\ attempt'[d] >= attempt[d]
  <2> SUFFICES ASSUME NEW d \in Callers \ {c}
               PROVE  attempt'[d] \in Nat /\ attempt'[d] >= attempt[d]
    OBVIOUS
  <2>1. attempt'[d] = attempt[d] \/ (attempt[d] = 0 /\ attempt'[d] = 1)
    BY DEF TaskMoves
  <2>2. attempt[d] \in Nat
    BY FleetFacts
  <2> QED
    BY <2>1, <2>2
<1>4. NetworkInv'
  BY <1>3, NetworkKept
<1> QED
  BY <1>2, <1>4 DEF FleetInv, Moves

\* Those that leave its lease and its task alone.
LEMMA QuietStep ==
  ASSUME FleetInv, NEW c \in Callers,
         NEW at \in {"loaded", "sending", "checking", "polling", "ending"},
         NEW result, NEW seq, Moves(c, at, result, seq),
         UNCHANGED <<poolVars, queueVars, networkVars>>, CallInv(c)'
  PROVE  FleetInv'
<1>1. lease' = lease /\ taskState' = taskState /\ attempt' = attempt
  BY DEF poolVars, queueVars
<1>2. PoolInv'
  BY PoolNextInv DEF FleetInv
<1>3. QueueInv'
  BY QueueNextInv DEF FleetInv
<1>4. \A d \in Callers : TaskMoves(d)
  BY <1>1 DEF TaskMoves
<1>5. attempt'[c] \in Nat /\ attempt'[c] >= attempt[c]
  <2>1. attempt[c] \in Nat
    BY FleetFacts
  <2> QED
    BY <1>1, <2>1
<1> QED
  BY <1>1, <1>2, <1>3, <1>4, <1>5, StepInv

-----------------------------------------------------------------------------
(* The steps of a call between its lease and its end.                      *)

\* What the result of a call says of the ledger.
Justified(c, result) ==
  /\ result = "success" => \E t \in chain : t.call = c /\ t.ok
  /\ result = "TRANSACTION_FAILED" => \E t \in chain : ThisRun(t, c) /\ ~t.ok
  /\ result = "SIMULATION_FAILED" => NoTrace(c)

LEMMA Unmoved ==
  ASSUME UNCHANGED <<poolVars, queueVars, networkVars>>, NEW c, NEW result
  PROVE  /\ lease' = lease /\ taskState' = taskState /\ attempt' = attempt
         /\ mempool' = mempool /\ chain' = chain /\ sequence' = sequence
         /\ NoTrace(c)' <=> NoTrace(c)
         /\ \A t : ThisRun(t, c)' <=> ThisRun(t, c)
         /\ Account(c)' = Account(c)
<1>1. /\ lease' = lease /\ taskState' = taskState /\ attempt' = attempt
      /\ mempool' = mempool /\ chain' = chain /\ sequence' = sequence
  BY DEF poolVars, queueVars, networkVars
<1> QED
  BY <1>1 DEF NoTrace, ThisRun, Account

LEMMA EndsInv ==
  ASSUME FleetInv, NEW c \in Callers, taskState[c] = "running", lease[c].at = "held",
         NEW result, NEW seq, Moves(c, "ending", result, seq), Justified(c, result),
         UNCHANGED <<poolVars, queueVars, networkVars>>
  PROVE  FleetInv'
<1>1. inv'[c].at = "ending" /\ inv'[c].result = result
  BY DEF Moves
<1>2. CallInv(c)'
  BY <1>1, Unmoved DEF CallInv, Justified, Sending, Unstarted
<1> QED
  BY <1>2, QuietStep

LEMMA StaysInv ==
  ASSUME FleetInv, NEW c \in Callers, taskState[c] = "running", inv[c].at \in Sending,
         NEW at \in Sending, Moves(c, at, inv[c].result, inv[c].seq),
         UNCHANGED <<poolVars, queueVars, networkVars>>
  PROVE  FleetInv'
<1>1. /\ inv'[c].at = at /\ inv'[c].result = inv[c].result
      /\ inv'[c].seq = inv[c].seq
  BY DEF Moves
<1>2. CallInv(c) /\ inv[c].result = "none" /\ lease[c].at = "held"
  BY FleetFacts DEF CallInv, Sending, Holding
<1>3. /\ at \in Holding /\ at \notin {"idle", "done", "leasing", "loaded"}
      /\ at \in {"loaded", "sending", "checking", "polling", "ending"}
  BY DEF Sending, Holding
<1>4. CallInv(c)'
  BY <1>1, <1>2, <1>3, Unmoved DEF CallInv, Unstarted
<1> QED
  BY <1>3, <1>4, QuietStep

LEMMA LoadInv ==
  ASSUME FleetInv, NEW c \in Callers, Load(c)
  PROVE  FleetInv'
<1>1. /\ taskState[c] = "running" /\ inv[c].at = "leasing" /\ lease[c].at = "held"
      /\ UNCHANGED <<poolVars, queueVars, networkVars>>
  BY DEF Load, At
<1>2. CallInv(c) /\ inv[c].result = "none" /\ NoTrace(c)
  BY <1>1, FleetFacts DEF CallInv
<1>3. CASE inv' = [inv EXCEPT ![c].at = "loaded", ![c].seq = sequence[Account(c)] + 1]
  <2> DEFINE n == sequence[Account(c)] + 1
             x == [inv[c] EXCEPT !.at = "loaded", !.seq = n]
  <2>1. inv' = [inv EXCEPT ![c] = x]
    BY <1>3 DEF FleetInv
  <2>2. n \in Nat
    <3>1. Account(c) \in Accounts
      BY <1>1, FleetFacts, LeaseKinds DEF Account
    <3>2. sequence[Account(c)] \in Nat
      BY <3>1 DEF FleetInv, NetworkInv
    <3> QED
      BY <3>2
  <2> HIDE DEF n
  <2>3. x \in Invocations /\ x.at = "loaded" /\ x.result = inv[c].result /\ x.seq = n
    <3>1. inv[c] \in Invocations
      BY FleetFacts
    <3> QED
      BY <2>2, <3>1, LoadedPlan
  <2> HIDE DEF x
  <2>4. Moves(c, "loaded", "none", n)
    BY <1>2, <2>1, <2>3, MovesTo
  <2>5. inv'[c].at = "loaded" /\ inv'[c].result = "none"
    BY <2>4 DEF Moves
  <2>6. CallInv(c)'
    BY <1>1, <1>2, <2>5, Unmoved DEF CallInv, Sending, Unstarted
  <2> QED
    BY <1>1, <2>4, <2>6, QuietStep
<1>4. CASE End(c, "NETWORK_ERROR")
  BY <1>1, <1>4, EndMoves, EndsInv DEF Results, Justified
<1> QED
  BY <1>3, <1>4 DEF Load

LEMMA PrepareInv ==
  ASSUME FleetInv, NEW c \in Callers, Prepare(c)
  PROVE  FleetInv'
<1>1. /\ taskState[c] = "running" /\ inv[c].at = "loaded"
      /\ UNCHANGED <<poolVars, queueVars, networkVars>>
  BY DEF Prepare, At
<1>2. CallInv(c) /\ inv[c].result = "none" /\ NoTrace(c) /\ lease[c].at = "held"
  BY <1>1, FleetFacts DEF CallInv, Holding
<1>3. CASE inv' = [inv EXCEPT ![c].at = "sending",
                     ![c].envelope = IF BumpMode = "always" THEN 1 ELSE 0]
  <2> DEFINE n == IF BumpMode = "always" THEN 1 ELSE 0
             x == [inv[c] EXCEPT !.at = "sending", !.envelope = n]
  <2>1. inv' = [inv EXCEPT ![c] = x]
    BY <1>3 DEF FleetInv
  <2>2. n \in Nat
    OBVIOUS
  <2> HIDE DEF n
  <2>3. x \in Invocations /\ x.at = "sending" /\ x.result = inv[c].result /\ x.seq = inv[c].seq
    <3>1. inv[c] \in Invocations
      BY FleetFacts
    <3> QED
      BY <2>2, <3>1, Prepared
  <2> HIDE DEF x
  <2>4. Moves(c, "sending", "none", inv[c].seq)
    BY <1>2, <2>1, <2>3, MovesTo
  <2>5. inv'[c].at = "sending" /\ inv'[c].result = "none"
    BY <2>4 DEF Moves
  <2>6. /\ \A e \in mempool' : ~ThisRun(e, c)'
        /\ \A t \in chain' : ~ThisRun(t, c)'
    BY <1>1, <1>2, Unmoved DEF NoTrace
  <2>7. CallInv(c)'
    BY <1>1, <1>2, <2>5, <2>6, Unmoved DEF CallInv, Unstarted
  <2> QED
    BY <1>1, <2>4, <2>7, QuietStep
<1>4. ASSUME NEW error \in {"SIMULATION_FAILED", "NETWORK_ERROR"}, End(c, error)
      PROVE  FleetInv'
  <2>1. error \in Results /\ Justified(c, error)
    BY <1>2 DEF Results, Justified
  <2> QED
    BY <1>1, <1>2, <1>4, <2>1, EndMoves, EndsInv
<1> QED
  BY <1>3, <1>4 DEF Prepare

(* The network takes an envelope of the call: its account has no           *)
(* transaction of another run, and this run is not in the ledger, because  *)
(* its sequence number is still the next one.                              *)
LEMMA AcceptedInv ==
  ASSUME FleetInv, NEW c \in Callers, taskState[c] = "running", inv[c].at = "sending",
         NetworkTakes(Envelope(c)), mempool' = mempool \cup {Envelope(c)},
         UNCHANGED <<poolVars, queueVars, sequence, chain>>,
         NEW at, NEW result, NEW seq, Moves(c, at, result, seq),
         \/ at \in Sending /\ result = inv[c].result /\ seq = inv[c].seq
         \/ at = "ending" /\ result = "TRANSACTION_TIMEOUT"
  PROVE  FleetInv'
<1> DEFINE e == Envelope(c)
           a == Account(c)
<1>1. /\ lease' = lease /\ taskState' = taskState /\ attempt' = attempt
      /\ chain' = chain /\ sequence' = sequence
  BY DEF poolVars, queueVars
<1>2. CallInv(c) /\ inv[c].result = "none" /\ lease[c].at = "held"
  BY FleetFacts DEF CallInv, Holding, Sending
<1>3. a \in Accounts /\ Account(c)' = a
  BY <1>1, <1>2, FleetFacts, LeaseKinds DEF Account
<1>4. /\ e.call = c /\ e.run = attempt[c] /\ e.account = a /\ e.seq = inv[c].seq
      /\ e \in Envelopes
  <2>1. inv[c].envelope \in Nat /\ inv[c].seq \in Nat /\ attempt[c] \in Nat
    <3>1. inv[c] \in Invocations
      BY FleetFacts
    <3> QED
      BY <3>1, FleetFacts DEF Invocations
  <2> QED
    BY <1>3, <2>1 DEF Envelope, Envelopes
<1>5. e.seq = sequence[a] + 1 /\ \A f \in mempool : f.account = a => OneRun(e, f)
  BY <1>4 DEF NetworkTakes, PendingOf, SameInner, OneRun
<1>6. /\ \A f \in mempool : OneRun(e, f) => f.account = a /\ f.seq = inv[c].seq
      /\ \A t \in chain : ~OneRun(e, t)
  <2>1. \A f \in mempool : ThisRun(f, c) => f.account = a /\ f.seq = inv[c].seq
    BY <1>2 DEF CallInv, Sending
  <2>2. \A t \in chain : ThisRun(t, c) => sequence[a] >= inv[c].seq
    BY <1>2 DEF CallInv, Sending
  <2>3. sequence[a] \in Nat
    BY <1>3 DEF FleetInv, NetworkInv
  <2>4. ~(sequence[a] >= inv[c].seq)
    BY <1>4, <1>5, <2>3
  <2> QED
    BY <1>4, <2>1, <2>2, <2>4 DEF OneRun, ThisRun
<1>7. 1 <= e.run /\ e.run <= attempt[e.call]
  <2>1. attempt[c] \in Nat /\ attempt[c] > 0
    BY FleetFacts DEF Begun
  <2> QED
    BY <1>4, <2>1
<1> HIDE DEF e, a
<1>8. mempool' = mempool \cup {e}
  BY DEF e
<1>9. NetworkInv'
  <2>1. NetworkInv
    BY DEF FleetInv
  <2>2. \A f \in mempool' : f.seq = sequence'[f.account] + 1
    BY <1>1, <1>4, <1>5, <1>8, <2>1 DEF NetworkInv
  <2>3. \A f \in mempool' \cup chain' : 1 <= f.run /\ f.run <= attempt'[f.call]
    BY <1>1, <1>7, <1>8, <2>1 DEF NetworkInv
  <2>4. \A f, g \in mempool' : f.account = g.account <=> OneRun(f, g)
    BY <1>4, <1>5, <1>6, <1>8, <2>1 DEF NetworkInv, OneRun
  <2>5. \A f \in mempool', t \in chain' : ~OneRun(f, t)
    BY <1>1, <1>6, <1>8, <2>1 DEF NetworkInv
  <2>6. mempool' \subseteq Envelopes
    BY <1>4, <1>8, <2>1 DEF NetworkInv
  <2> QED
    BY <1>1, <2>1, <2>2, <2>3, <2>4, <2>5, <2>6 DEF NetworkInv
<1>10. \A d \in Callers \ {c} : CallInv(d)'
  <2> TAKE d \in Callers \ {c}
  <2>1. TaskMoves(d) /\ inv'[d] = inv[d]
    BY <1>1 DEF TaskMoves, Moves
  <2> QED
    BY <1>1, <1>4, <1>8, <2>1, OthersKeep
<1>11. CallInv(c)'
  <2>1. inv'[c].at = at /\ inv'[c].result = result /\ inv'[c].seq = seq
    BY DEF Moves
  <2>2. at \in Holding /\ at \notin {"idle", "done", "leasing", "loaded"}
        /\ result \in {"none", "TRANSACTION_TIMEOUT"}
    BY <1>2 DEF Holding, Sending
  <2>3. at \in Sending => seq = inv[c].seq
    BY DEF Sending
  <2>4. at \in Sending =>
          /\ \A f \in mempool' :
                ThisRun(f, c)' => f.account = Account(c)' /\ f.seq = inv'[c].seq
          /\ \A t \in chain' : ThisRun(t, c)' => sequence'[Account(c)'] >= inv'[c].seq
    <3> SUFFICES ASSUME at \in Sending
                 PROVE  /\ \A f \in mempool' : ThisRun(f, c)' => f.account = a /\ f.seq = inv[c].seq
                        /\ \A t \in chain : ~ThisRun(t, c)'
      BY <1>1, <1>3, <2>1, <2>3
    <3>1. \A f : ThisRun(f, c)' => OneRun(e, f)
      BY <1>1, <1>4 DEF ThisRun, OneRun
    <3> QED
      BY <1>4, <1>6, <1>8, <3>1
  <2>5. at \notin {"ending", "returning", "done"} => result = "none"
    BY <1>2 DEF Sending
  <2> QED
    BY <1>1, <1>2, <2>1, <2>2, <2>4, <2>5 DEF CallInv, Unstarted
<1>12. PoolInv' /\ QueueInv'
  BY PoolNextInv, QueueNextInv DEF FleetInv
<1> QED
  BY <1>9, <1>10, <1>11, <1>12 DEF FleetInv, Moves

LEMMA SendAcceptedInv ==
  ASSUME FleetInv, NEW c \in Callers, SendAccepted(c)
  PROVE  FleetInv'
<1>1. /\ taskState[c] = "running" /\ inv[c].at = "sending"
      /\ NetworkTakes(Envelope(c)) /\ mempool' = mempool \cup {Envelope(c)}
      /\ UNCHANGED <<poolVars, queueVars, sequence, chain>>
  BY DEF SendAccepted, At
<1>2. \/ Moves(c, "polling", inv[c].result, inv[c].seq)
      \/ Moves(c, "ending", "TRANSACTION_TIMEOUT", 0)
  BY SentMoves DEF SendAccepted
<1> QED
  BY <1>1, <1>2, AcceptedInv DEF Sending

LEMMA SendRefusedInv ==
  ASSUME FleetInv, NEW c \in Callers, SendRefused(c)
  PROVE  FleetInv'
<1>1. /\ taskState[c] = "running" /\ inv[c].at = "sending"
      /\ UNCHANGED <<poolVars, queueVars, networkVars>>
  BY DEF SendRefused, At
<1>2. \/ Moves(c, "sending", inv[c].result, inv[c].seq)
      \/ Moves(c, "ending", "SUBMISSION_FAILED", 0)
  BY SendAgainMoves, EndMoves DEF SendRefused, Results
<1>3. lease[c].at = "held" /\ Justified(c, "SUBMISSION_FAILED")
  BY <1>1, FleetFacts DEF CallInv, Holding, Sending, Justified
<1> QED
  BY <1>1, <1>2, <1>3, StaysInv, EndsInv DEF Sending

LEMMA SendLostInv ==
  ASSUME FleetInv, NEW c \in Callers, SendLost(c)
  PROVE  FleetInv'
<1>1. /\ taskState[c] = "running" /\ inv[c].at = "sending"
      /\ To(c, "checking")
      /\ UNCHANGED <<poolVars, queueVars, sequence, chain>>
  BY DEF SendLost, At
<1>2. Moves(c, "checking", inv[c].result, inv[c].seq)
  BY <1>1, ToMoves
<1>3. CASE UNCHANGED mempool
  BY <1>1, <1>2, <1>3, StaysInv DEF Sending, networkVars
<1>4. CASE NetworkTakes(Envelope(c)) /\ mempool' = mempool \cup {Envelope(c)}
  BY <1>1, <1>2, <1>4, AcceptedInv DEF Sending
<1> QED
  BY <1>3, <1>4 DEF SendLost

LEMMA CheckSentInv ==
  ASSUME FleetInv, NEW c \in Callers, CheckSent(c)
  PROVE  FleetInv'
<1>1. /\ taskState[c] = "running" /\ inv[c].at = "checking"
      /\ UNCHANGED <<poolVars, queueVars, networkVars>>
  BY DEF CheckSent, At
<1>2. \/ Moves(c, "polling", inv[c].result, inv[c].seq)
      \/ Moves(c, "sending", inv[c].result, inv[c].seq)
      \/ Moves(c, "ending", "TRANSACTION_TIMEOUT", 0)
      \/ Moves(c, "ending", "NETWORK_ERROR", 0)
  BY SentMoves, SendAgainMoves DEF CheckSent
<1>3. /\ lease[c].at = "held"
      /\ Justified(c, "TRANSACTION_TIMEOUT") /\ Justified(c, "NETWORK_ERROR")
  BY <1>1, FleetFacts DEF CallInv, Holding, Sending, Justified
<1> QED
  BY <1>1, <1>2, <1>3, StaysInv, EndsInv DEF Sending

\* getTransaction answers with a status of this very run.
LEMMA PollInv ==
  ASSUME FleetInv, NEW c \in Callers, Poll(c)
  PROVE  FleetInv'
<1>1. /\ taskState[c] = "running" /\ inv[c].at = "polling"
      /\ UNCHANGED <<poolVars, queueVars, networkVars>>
  BY DEF Poll, At
<1>2. lease[c].at = "held"
  BY <1>1, FleetFacts DEF CallInv, Holding, Sending
<1>3. inv[c] \in Invocations
  BY FleetFacts
<1>4. ASSUME NEW t \in Visible(c), End(c, IF t.ok THEN "success" ELSE "TRANSACTION_FAILED")
      PROVE  FleetInv'
  <2>1. t \in chain /\ ThisRun(t, c) /\ t.call = c
    BY DEF Visible, Included, ThisRun
  <2>2. CASE t.ok
    <3>1. End(c, "success") /\ Justified(c, "success")
      BY <1>4, <2>1, <2>2 DEF Justified
    <3> QED
      BY <1>1, <1>2, <3>1, EndMoves, EndsInv DEF Results
  <2>3. CASE ~t.ok
    <3>1. End(c, "TRANSACTION_FAILED") /\ Justified(c, "TRANSACTION_FAILED")
      BY <1>4, <2>1, <2>3 DEF Justified
    <3> QED
      BY <1>1, <1>2, <3>1, EndMoves, EndsInv DEF Results
  <2> QED
    BY <2>2, <2>3
<1>5. ASSUME NEW result \in {"NETWORK_ERROR", "TRANSACTION_TIMEOUT"}, End(c, result)
      PROVE  FleetInv'
  <2>1. result \in Results /\ Justified(c, result)
    BY DEF Results, Justified
  <2> QED
    BY <1>1, <1>2, <1>5, <2>1, EndMoves, EndsInv
<1>6. CASE inv' = [inv EXCEPT ![c].at = "sending", ![c].envelope = @ + 1,
                              ![c].sends = 0, ![c].polls = @ + 1]
  <2> DEFINE n == inv[c].envelope + 1
             m == inv[c].polls + 1
             v == inv[c]
             x == [v EXCEPT !.at = "sending", !.envelope = n, !.sends = 0, !.polls = m]
  <2>1. inv' = [inv EXCEPT ![c] = x]
    BY <1>6 DEF FleetInv
  <2>2. n \in Nat /\ m \in Nat /\ v \in Invocations
    BY <1>3, CountsOf
  <2> HIDE DEF n, m, v
  <2>3. x \in Invocations /\ x.at = "sending" /\ x.result = v.result /\ x.seq = v.seq
    BY <2>2, Bumped
  <2> USE DEF v
  <2> HIDE DEF x
  <2>4. Moves(c, "sending", inv[c].result, inv[c].seq)
    BY <2>1, <2>3, MovesTo
  <2> QED
    BY <1>1, <2>4, StaysInv DEF Sending
<1>7. CASE inv' = [inv EXCEPT ![c].polls = @ + 1]
  <2> DEFINE m == inv[c].polls + 1
             x == [inv[c] EXCEPT !.polls = m]
  <2>1. inv' = [inv EXCEPT ![c] = x]
    BY <1>7 DEF FleetInv
  <2>2. m \in Nat
    BY CountsOf
  <2> HIDE DEF m
  <2>3. x \in Invocations /\ x.at = inv[c].at /\ x.result = inv[c].result /\ x.seq = inv[c].seq
    BY <1>3, <2>2, Polled
  <2> HIDE DEF x
  <2>4. Moves(c, "polling", inv[c].result, inv[c].seq)
    BY <1>1, <2>1, <2>3, MovesTo
  <2> QED
    BY <1>1, <2>4, StaysInv DEF Sending
<1> QED
  BY <1>4, <1>5, <1>6, <1>7 DEF Poll

-----------------------------------------------------------------------------
(* The steps of a call with the pool and the queue.                        *)

LEMMA QueueKept ==
  ASSUME FleetInv, UNCHANGED queueVars
  PROVE  /\ QueueInv' /\ taskState' = taskState /\ attempt' = attempt
         /\ \A d \in Callers : /\ TaskMoves(d)
                               /\ attempt'[d] \in Nat /\ attempt'[d] >= attempt[d]
<1>1. taskState' = taskState /\ attempt' = attempt
  BY DEF queueVars
<1>2. \A d \in Callers : TaskMoves(d)
  BY <1>1 DEF TaskMoves
<1>3. \A d \in Callers : attempt[d] \in Nat
  BY FleetFacts
<1> QED
  BY <1>1, <1>2, <1>3, QueueNextInv DEF FleetInv

\* A call asks for its account or gives it back.
LEMMA PoolStepInv ==
  ASSUME FleetInv, NEW c \in Callers, taskState[c] = "running",
         \/ Lease(c) /\ inv[c].at = "idle" /\ To(c, "leasing")
         \/ Release(c) /\ inv[c].at = "ending" /\ To(c, "returning"),
         UNCHANGED <<queueVars, networkVars>>
  PROVE  FleetInv'
<1>1. PoolNext
  BY DEF PoolNext
<1>2. PoolInv'
  BY <1>1, PoolNextInv DEF FleetInv
<1>3. \A d \in Callers \ {c} : lease[d] # Waiting => lease'[d] = lease[d]
  BY OwnSteps DEF FleetInv
<1>4. \/ /\ inv[c].at = "idle" /\ Moves(c, "leasing", inv[c].result, inv[c].seq)
      \/ /\ inv[c].at = "ending" /\ Moves(c, "returning", inv[c].result, inv[c].seq)
  BY ToMoves
<1>5. /\ \/ inv[c].at = "idle" /\ inv'[c].at = "leasing"
         \/ inv[c].at = "ending" /\ inv'[c].at = "returning"
      /\ inv'[c].result = inv[c].result
  BY <1>4 DEF Moves
<1>6. /\ mempool' = mempool /\ chain' = chain /\ sequence' = sequence
      /\ taskState' = taskState /\ attempt' = attempt
  BY DEF networkVars, queueVars
<1>7. NoTrace(c)' <=> NoTrace(c)
  BY <1>6 DEF NoTrace, ThisRun
<1>8. CallInv(c)
  BY FleetFacts
<1>9. CallInv(c)'
  BY <1>5, <1>6, <1>7, <1>8 DEF CallInv, Holding, Sending, Unstarted, ThisRun
<1> QED
  BY <1>2, <1>3, <1>4, <1>9, QueueKept, StepInv

\* The time-out of a lease, and the answer of a reclamation.
LEMMA LeaseAloneInv ==
  ASSUME FleetInv, NEW c \in Callers, Abandon(c) \/ Reclaimed(c),
         UNCHANGED <<queueVars, inv, networkVars>>
  PROVE  FleetInv'
<1>1. PoolInv'
  BY PoolNextInv DEF FleetInv, PoolNext
<1>2. \A d \in Callers \ {c} : lease[d] # Waiting => lease'[d] = lease[d]
  BY OwnSteps DEF FleetInv
<1>3. Moves(c, inv[c].at, inv[c].result, inv[c].seq)
  BY DEF Moves, FleetInv
<1>4. lease[c] # NoLease /\ lease[c].at # "held"
  BY LeaseKinds DEF Abandon, Reclaimed
<1>5. /\ mempool' = mempool /\ chain' = chain /\ sequence' = sequence
      /\ taskState' = taskState /\ attempt' = attempt /\ inv' = inv
  BY DEF networkVars, queueVars
<1>6. NoTrace(c)' <=> NoTrace(c)
  BY <1>5 DEF NoTrace, ThisRun
<1>7. CallInv(c)
  BY FleetFacts
<1>8. CallInv(c)'
  BY <1>4, <1>5, <1>6, <1>7 DEF CallInv, Holding, ThisRun
<1> QED
  BY <1>1, <1>2, <1>3, <1>8, QueueKept, StepInv

\* The promise of a task settles, or its call will be repeated.
LEMMA AnswerInv ==
  ASSUME FleetInv, PoolInv', NEW c \in Callers, taskState[c] = "running",
         NEW result \in Results, Answer(c, result), Justified(c, result),
         lease'[c] = NoLease,
         \A d \in Callers \ {c} : lease[d] # Waiting => lease'[d] = lease[d]
  PROVE  FleetInv'
<1> DEFINE x == [Idle EXCEPT !.at = "done", !.result = result]
<1>1. /\ inv' = [inv EXCEPT ![c] = x]
      /\ IF result = "success" THEN Settle(c, "completed") ELSE Fail(c, Classify(result))
      /\ UNCHANGED networkVars
  BY DEF Answer
<1>2. x \in Invocations /\ x.at = "done" /\ x.result = result /\ x.seq = 0
  BY DEF Invocations, Idle, Results
<1> HIDE DEF x
<1>3. Moves(c, "done", result, 0)
  BY <1>1, <1>2, MovesTo
<1>4. c \in Tasks /\ QueueInv
  BY FleetFacts DEF FleetInv
<1>5. QueueInv'
  BY AnswerQueueStep, <1>4, QueueNextInv
<1>6. /\ taskState'[c] \in {"completed", "failed", "sleeping"}
      /\ attempt'[c] = attempt[c]
      /\ \A u \in Tasks \ {c} :
           \/ taskState'[u] = taskState[u] /\ attempt'[u] = attempt[u]
           \/ taskState[u] = "pending" /\ taskState'[u] = "running" /\ attempt'[u] = 1
  <2>1. CASE \E outcome \in {"completed", "failed"} : Settle(c, outcome)
    BY <1>4, <2>1, SettleInv
  <2>2. CASE /\ taskState' = [taskState EXCEPT ![c] = "sleeping"]
             /\ attempt' = attempt
    BY <1>4, <2>2, QueueFacts
  <2> QED
    BY <1>1, <2>1, <2>2 DEF Fail
<1>7. \A d \in Callers \ {c} : TaskMoves(d)
  <2> TAKE d \in Callers \ {c}
  <2>1. d \in Tasks \ {c}
    BY FleetAssumption
  <2>2. taskState[d] = "pending" => attempt[d] = 0
    BY FleetFacts DEF Unstarted
  <2> QED
    BY <1>6, <2>1, <2>2 DEF TaskMoves, Unstarted
<1>8. /\ mempool' = mempool /\ chain' = chain /\ sequence' = sequence
  BY <1>1 DEF networkVars
<1>9. NoTrace(c)' <=> NoTrace(c)
  BY <1>6, <1>8 DEF NoTrace, ThisRun
<1>10. CallInv(c)'
  <2>1. inv'[c].at = "done" /\ inv'[c].result = result
    BY <1>3 DEF Moves
  <2> QED
    BY <1>6, <1>8, <1>9, <2>1 DEF CallInv, Holding, Sending, Unstarted, ThisRun, Justified
<1>11. attempt'[c] \in Nat /\ attempt'[c] >= attempt[c]
  <2>1. attempt[c] \in Nat
    BY FleetFacts
  <2> QED
    BY <1>6, <2>1
<1> QED
  BY <1>1, <1>3, <1>5, <1>7, <1>10, <1>11, StepInv

LEMMA FinishInv ==
  ASSUME FleetInv, NEW c \in Callers, Finish(c)
  PROVE  FleetInv'
<1>1. /\ taskState[c] = "running" /\ inv[c].at = "returning" /\ lease[c] = NoLease
      /\ Answer(c, inv[c].result) /\ UNCHANGED poolVars
  BY DEF Finish, At
<1>2. PoolInv' /\ lease' = lease
  BY <1>1, PoolNextInv DEF FleetInv, poolVars
<1>3. inv[c].result \in Results
  <2>1. inv[c] \in Invocations
    BY FleetFacts
  <2> QED
    BY <2>1 DEF Invocations
<1>4. Justified(c, inv[c].result)
  BY FleetFacts DEF CallInv, Justified
<1> QED
  BY <1>1, <1>2, <1>3, <1>4, AnswerInv

LEMMA FinishRejectedInv ==
  ASSUME FleetInv, NEW c \in Callers, FinishRejected(c)
  PROVE  FleetInv'
<1>1. /\ taskState[c] = "running" /\ Forget(c)
      /\ \E result \in {"reclaim failed", "NETWORK_ERROR"} : Answer(c, result)
  BY DEF FinishRejected, At
<1>2. PoolInv'
  BY <1>1, PoolNextInv DEF FleetInv, PoolNext
<1>3. \A d \in Callers \ {c} : lease[d] # Waiting => lease'[d] = lease[d]
  BY <1>1, OwnSteps DEF FleetInv
<1>4. lease'[c] = NoLease
  BY <1>1, PoolFacts DEF FleetInv, Forget
<1>5. PICK result \in {"reclaim failed", "NETWORK_ERROR"} : Answer(c, result)
  BY <1>1
<1>6. result \in Results /\ Justified(c, result)
  BY DEF Results, Justified
<1> QED
  BY <1>1, <1>2, <1>3, <1>4, <1>5, <1>6, AnswerInv

\* The next attempt of a call: no envelope and no transaction is of its run.
LEMMA AgainInv ==
  ASSUME FleetInv, NEW c \in Callers, Again(c)
  PROVE  FleetInv'
<1>1. /\ taskState[c] = "sleeping" /\ Retry(c)
      /\ attempt' = [attempt EXCEPT ![c] = @ + 1]
      /\ taskState' = [taskState EXCEPT ![c] = "running"]
      /\ inv' = [inv EXCEPT ![c] = Idle]
      /\ UNCHANGED <<poolVars, networkVars>>
  BY DEF Again, Retry
<1>2. Idle \in Invocations /\ Idle.at = "idle" /\ Idle.result = "none" /\ Idle.seq = 0
  BY DEF Invocations, Idle, Results
<1>3. Moves(c, "idle", "none", 0)
  BY <1>1, <1>2, MovesTo
<1>4. PoolInv' /\ lease' = lease
  BY <1>1, PoolNextInv DEF FleetInv, poolVars
<1>5. c \in Tasks /\ QueueInv
  BY FleetFacts DEF FleetInv
<1>6. QueueInv'
  BY <1>1, <1>5, RetryInv
<1>7. /\ taskState'[c] = "running" /\ attempt'[c] = attempt[c] + 1
      /\ \A u \in Tasks \ {c} : taskState'[u] = taskState[u] /\ attempt'[u] = attempt[u]
  BY <1>1, <1>5, QueueFacts
<1>8. attempt[c] \in Nat
  BY FleetFacts
<1>9. attempt'[c] \in Nat /\ attempt'[c] >= attempt[c] /\ attempt'[c] > attempt[c]
  BY <1>7, <1>8
<1>10. \A d \in Callers \ {c} : TaskMoves(d)
  BY <1>7, FleetAssumption DEF TaskMoves
<1>11. /\ mempool' = mempool /\ chain' = chain /\ sequence' = sequence
  BY <1>1 DEF networkVars
<1>12. NoTrace(c)'
  <2> SUFFICES ASSUME NEW e \in mempool \cup chain, e.call = c
               PROVE  e.run # attempt'[c]
    BY <1>11 DEF NoTrace, ThisRun
  <2>1. e.run <= attempt[c] /\ e.run \in Nat
    BY DEF FleetInv, NetworkInv, Envelopes, Transactions
  <2> QED
    BY <1>8, <1>9, <2>1
<1>13. lease'[c] = NoLease
  BY <1>1, <1>4, FleetFacts DEF CallInv
<1>14. CallInv(c)'
  <2>1. inv'[c].at = "idle" /\ inv'[c].result = "none"
    BY <1>3 DEF Moves
  <2> QED
    BY <1>7, <1>12, <1>13, <2>1 DEF CallInv, Holding, Sending
<1> QED
  BY <1>1, <1>3, <1>4, <1>6, <1>9, <1>10, <1>14, StepInv

\* The steps that leave the invocations alone.
LEMMA OutsideInv ==
  ASSUME FleetInv, PoolInv', QueueInv', UNCHANGED <<inv, networkVars>>,
         \A d \in Callers : lease[d] # Waiting => lease'[d] = lease[d],
         \A d \in Callers : TaskMoves(d)
  PROVE  FleetInv'
<1>1. /\ mempool' = mempool /\ chain' = chain /\ sequence' = sequence /\ inv' = inv
  BY DEF networkVars
<1>2. \A d \in Callers : CallInv(d)'
  BY <1>1, OthersKeep
<1>3. \A d \in Callers : attempt'[d] \in Nat /\ attempt'[d] >= attempt[d]
  <2> TAKE d \in Callers
  <2>1. attempt'[d] = attempt[d] \/ (attempt[d] = 0 /\ attempt'[d] = 1)
    BY DEF TaskMoves
  <2>2. attempt[d] \in Nat
    BY FleetFacts
  <2> QED
    BY <2>1, <2>2
<1>4. NetworkInv'
  BY <1>3, NetworkKept
<1> QED
  BY <1>1, <1>2, <1>4 DEF FleetInv

LEMMA FleetCallInv ==
  ASSUME FleetInv, NEW c \in Callers, Call(c)
  PROVE  FleetInv'
<1>1. Submit(c) /\ UNCHANGED <<poolVars, inv, networkVars>>
  BY DEF Call
<1>2. PoolInv' /\ lease' = lease
  BY <1>1, PoolNextInv DEF FleetInv, poolVars
<1>3. c \in Tasks /\ QueueInv
  BY FleetFacts DEF FleetInv
<1>4. /\ QueueInv' /\ taskState[c] = "new" /\ attempt[c] = 0
      /\ \A u \in Tasks :
           \/ taskState'[u] = taskState[u] /\ attempt'[u] = attempt[u]
           \/ u = c /\ attempt'[u] = attempt[u] /\ taskState'[u] \in {"pending", "refused"}
           \/ /\ taskState[u] = "pending" \/ u = c
              /\ taskState'[u] = "running" /\ attempt'[u] = 1
  BY <1>1, <1>3, SubmitInv
<1>5. \A d \in Callers : TaskMoves(d)
  <2> TAKE d \in Callers
  <2>1. d \in Tasks
    BY FleetAssumption
  <2>2. taskState[d] = "pending" => attempt[d] = 0
    BY FleetFacts DEF Unstarted
  <2> QED
    BY <1>4, <2>1, <2>2 DEF TaskMoves, Unstarted
<1> QED
  BY <1>1, <1>2, <1>4, <1>5, OutsideInv

-----------------------------------------------------------------------------
(* The network.                                                            *)

\* Neither an inclusion nor an expiry changes a call.
LEMMA CallsUntouched ==
  ASSUME FleetInv, UNCHANGED <<poolVars, queueVars, inv>>
  PROVE  /\ PoolInv' /\ QueueInv'
         /\ lease' = lease /\ taskState' = taskState /\ attempt' = attempt /\ inv' = inv
BY PoolNextInv, QueueNextInv DEF FleetInv, poolVars, queueVars

LEMMA ExpireInv ==
  ASSUME FleetInv, NEW e \in mempool, Expire(e)
  PROVE  FleetInv'
<1>1. /\ mempool' \subseteq mempool /\ sequence' = sequence /\ chain' = chain
      /\ UNCHANGED <<poolVars, queueVars, inv>>
  BY DEF Expire
<1>2. \A d \in Callers : CallInv(d)'
  <2> TAKE d \in Callers
  <2>1. TaskMoves(d)
    BY <1>1, CallsUntouched DEF TaskMoves
  <2> QED
    BY <1>1, <2>1, CallsUntouched, OthersKeep
<1>3. NetworkInv'
  BY <1>1, CallsUntouched DEF FleetInv, NetworkInv
<1> QED
  BY <1>1, <1>2, <1>3, CallsUntouched DEF FleetInv

\* What is included leaves no other envelope of its run pending.
LEMMA IncludeInv ==
  ASSUME FleetInv, NEW e \in mempool, Include(e)
  PROVE  FleetInv'
<1>1. PICK ok \in BOOLEAN :
         chain' = chain \cup {[call |-> e.call, run |-> e.run,
                               envelope |-> e.envelope, ok |-> ok]}
  BY DEF Include
<1> DEFINE t == [call |-> e.call, run |-> e.run, envelope |-> e.envelope, ok |-> ok]
           a == e.account
<1>2. /\ sequence' = [sequence EXCEPT ![a] = e.seq]
      /\ \A f : f \in mempool' <=> f \in mempool /\ f.account # a
      /\ UNCHANGED <<poolVars, queueVars, inv>>
  BY DEF Include, PendingOf
<1>3. /\ NetworkInv
      /\ e \in Envelopes /\ e.call \in Callers /\ a \in Accounts
      /\ e.run \in Nat /\ e.seq \in Nat /\ e.envelope \in Nat
  BY DEF FleetInv, NetworkInv, Envelopes
<1>4. t \in Transactions /\ t.call = e.call /\ t.run = e.run /\ t.ok = ok
  BY <1>3 DEF Transactions
<1>5. chain' = chain \cup {t}
  BY <1>1
<1> HIDE DEF t, a
<1>6. /\ sequence' \in [Accounts -> Nat]
      /\ sequence'[a] = e.seq /\ e.seq = sequence[a] + 1
      /\ \A b \in Accounts : b # a => sequence'[b] = sequence[b]
  BY <1>2, <1>3 DEF NetworkInv, a
<1>7. \A b \in Accounts : sequence[b] \in Nat /\ sequence'[b] >= sequence[b]
  BY <1>3, <1>6 DEF NetworkInv
<1>8. /\ lease' = lease /\ taskState' = taskState /\ attempt' = attempt /\ inv' = inv
      /\ PoolInv' /\ QueueInv'
  BY <1>2, CallsUntouched
<1>9. NetworkInv'
  <2>1. \A f \in mempool' : f.seq = sequence'[f.account] + 1
    BY <1>2, <1>3, <1>6 DEF NetworkInv, Envelopes
  <2>2. \A f \in mempool' \cup chain' : 1 <= f.run /\ f.run <= attempt'[f.call]
    BY <1>2, <1>3, <1>4, <1>5, <1>8 DEF NetworkInv
  <2>3. \A f, g \in mempool' : f.account = g.account <=> OneRun(f, g)
    BY <1>2, <1>3 DEF NetworkInv
  <2>4. \A u \in chain : ~OneRun(e, u)
    BY <1>3 DEF NetworkInv
  <2>5. \A u, v \in chain' : OneRun(u, v) => u = v
    BY <1>3, <1>4, <1>5, <2>4 DEF NetworkInv, OneRun
  <2>6. \A f \in mempool' : ~OneRun(e, f)
    BY <1>2, <1>3 DEF NetworkInv, a
  <2>7. \A f \in mempool', u \in chain' : ~OneRun(f, u)
    BY <1>2, <1>3, <1>4, <1>5, <2>6 DEF NetworkInv, OneRun
  <2>8. mempool' \subseteq Envelopes /\ chain' \subseteq Transactions
    BY <1>2, <1>3, <1>4, <1>5 DEF NetworkInv
  <2> QED
    BY <1>6, <2>1, <2>2, <2>3, <2>5, <2>7, <2>8 DEF NetworkInv
<1>10. ASSUME NEW d \in Callers
       PROVE  CallInv(d)'
  <2>1. CallInv(d)
    BY FleetFacts
  <2>2. NoTrace(d) => NoTrace(d)'
    BY <1>2, <1>4, <1>5, <1>8 DEF NoTrace, ThisRun
  <2>3. ASSUME inv[d].at \in Sending
        PROVE  /\ \A f \in mempool' :
                    ThisRun(f, d)' => f.account = Account(d)' /\ f.seq = inv'[d].seq
               /\ \A u \in chain' : ThisRun(u, d)' => sequence'[Account(d)'] >= inv'[d].seq
    <3>1. Account(d)' = Account(d) /\ Account(d) \in Accounts
      <4>1. lease[d].at = "held"
        BY <2>1, <2>3 DEF CallInv, Holding
      <4> QED
        BY <1>8, <4>1, FleetFacts, LeaseKinds DEF Account
    <3>2. \A f : ThisRun(f, d)' <=> ThisRun(f, d)
      BY <1>8 DEF ThisRun
    <3>3. \A f \in mempool : ThisRun(f, d) => f.account = Account(d) /\ f.seq = inv[d].seq
      BY <2>1, <2>3 DEF CallInv
    <3>4. ASSUME NEW u \in chain', ThisRun(u, d)
          PROVE  sequence'[Account(d)] >= inv[d].seq
      <4>1. inv[d].seq \in Nat
        BY CountsOf
      <4>2. CASE u \in chain
        <5>1. sequence[Account(d)] >= inv[d].seq
          BY <2>1, <2>3, <3>4, <4>2 DEF CallInv
        <5>2. sequence[Account(d)] \in Nat /\ sequence'[Account(d)] \in Nat
          BY <1>6, <1>7, <3>1
        <5> QED
          BY <1>7, <3>1, <4>1, <5>1, <5>2
      <4>3. CASE u = t
        <5>1. ThisRun(e, d)
          BY <1>4, <3>4, <4>3 DEF ThisRun
        <5>2. a = Account(d)
          BY <3>3, <5>1 DEF a
        <5>3. e.seq = inv[d].seq
          BY <3>3, <5>1
        <5> QED
          BY <1>6, <4>1, <5>2, <5>3
      <4> QED
        BY <1>5, <3>4, <4>2, <4>3
    <3> QED
      BY <1>2, <1>8, <3>1, <3>2, <3>3, <3>4
  <2>4. /\ inv'[d].result = "success" => \E u \in chain' : u.call = d /\ u.ok
        /\ inv'[d].result = "TRANSACTION_FAILED" => \E u \in chain' : ThisRun(u, d)' /\ ~u.ok
    BY <1>5, <1>8, <2>1 DEF CallInv, ThisRun
  <2> QED
    BY <1>8, <2>1, <2>2, <2>3, <2>4 DEF CallInv
<1> QED
  BY <1>8, <1>9, <1>10 DEF FleetInv

-----------------------------------------------------------------------------
(* All steps of a fleet.                                                   *)

LEMMA FleetInitInv == FleetInit => FleetInv
<1> SUFFICES ASSUME FleetInit PROVE FleetInv
  OBVIOUS
<1>1. PoolInv /\ QueueInv
  BY PoolInitInv, QueueInitInv DEF FleetInit, CallsInit
<1>2. /\ inv = [c \in Callers |-> Idle] /\ sequence = [a \in Accounts |-> 0]
      /\ mempool = {} /\ chain = {}
      /\ lease = [c \in Callers |-> NoLease]
      /\ taskState = [t \in Tasks |-> "new"]
  BY DEF FleetInit, CallsInit, PoolInit, QueueInit
<1>3. Idle \in Invocations /\ Idle.at = "idle" /\ Idle.result = "none"
  BY DEF Idle, Invocations, Results
<1>4. NetworkInv
  BY <1>2 DEF NetworkInv
<1>5. \A c \in Callers : CallInv(c)
  <2> TAKE c \in Callers
  <2>1. inv[c].at = "idle" /\ inv[c].result = "none" /\ lease[c] = NoLease
    BY <1>2, <1>3
  <2>2. NoTrace(c)
    BY <1>2 DEF NoTrace
  <2> QED
    BY <2>1, <2>2 DEF CallInv, Holding, Sending
<1> QED
  BY <1>1, <1>2, <1>3, <1>4, <1>5 DEF FleetInv

LEMMA OwnStepInv ==
  ASSUME FleetInv, NEW c \in Callers, Step(c)
  PROVE  FleetInv'
<1>1. CASE AskForAccount(c) \/ GiveBack(c)
  BY <1>1, PoolStepInv DEF AskForAccount, GiveBack, At
<1>2. CASE Load(c) \/ Prepare(c) \/ SendAccepted(c) \/ SendRefused(c)
  BY <1>2, LoadInv, PrepareInv, SendAcceptedInv, SendRefusedInv
<1>3. CASE SendLost(c) \/ CheckSent(c) \/ Poll(c)
  BY <1>3, SendLostInv, CheckSentInv, PollInv
<1>4. CASE AccountReclaimed(c)
  BY <1>4, LeaseAloneInv DEF AccountReclaimed
<1>5. CASE Finish(c) \/ FinishRejected(c) \/ Again(c)
  BY <1>5, FinishInv, FinishRejectedInv, AgainInv
<1> QED
  BY <1>1, <1>2, <1>3, <1>4, <1>5 DEF Step

LEMMA FleetNextInv == FleetInv /\ [FleetNext]_fleetVars => FleetInv'
<1> SUFFICES ASSUME FleetInv, [FleetNext]_fleetVars PROVE FleetInv'
  OBVIOUS
<1>1. PoolInv' /\ QueueInv'
  BY FleetPoolSteps, FleetQueueSteps, PoolNextInv, QueueNextInv DEF FleetInv
<1>2. ASSUME NEW c \in Callers, Call(c) \/ Step(c) \/ LeaseTimeout(c)
      PROVE  FleetInv'
  BY <1>2, FleetCallInv, OwnStepInv, LeaseAloneInv DEF LeaseTimeout
<1>3. ASSUME NEW e \in mempool, Include(e) \/ Expire(e)
      PROVE  FleetInv'
  BY <1>3, IncludeInv, ExpireInv
<1>4. CASE PoolWork \/ ClosePool
  <2>1. UNCHANGED <<queueVars, inv, networkVars>> /\ (PoolStep \/ Close)
    BY <1>4 DEF PoolWork, ClosePool
  <2>2. \A d \in Callers : lease[d] # Waiting => lease'[d] = lease[d]
    BY <2>1, PoolStepsStay DEF FleetInv
  <2> QED
    BY <1>1, <2>1, <2>2, QueueKept, OutsideInv
<1>5. CASE ShutDown
  <2>1. /\ taskState' = taskState /\ attempt' = attempt /\ lease' = lease
        /\ UNCHANGED <<inv, networkVars>>
    BY <1>5 DEF ShutDown, CloseQueue, poolVars
  <2>2. \A d \in Callers : TaskMoves(d)
    BY <2>1 DEF TaskMoves
  <2> QED
    BY <1>1, <2>1, <2>2, OutsideInv
<1>6. CASE UNCHANGED fleetVars
  <2>1. poolVars' = poolVars /\ UNCHANGED queueVars /\ inv' = inv
    BY <1>6 DEF fleetVars
  <2>2. UNCHANGED networkVars
    BY <1>6 DEF fleetVars, networkVars
  <2>3. lease' = lease
    BY <2>1 DEF poolVars
  <2> QED
    BY <1>1, <2>1, <2>2, <2>3, QueueKept, OutsideInv
<1>7. CASE FleetNext
  BY <1>2, <1>3, <1>4, <1>5, <1>7 DEF FleetNext
<1> QED
  BY <1>6, <1>7

LEMMA FleetInvHolds == FleetSpec => []FleetInv
BY FleetInitInv, FleetNextInv, PTL DEF FleetSpec

-----------------------------------------------------------------------------
(* What the callers can rely on.                                           *)

LEMMA FleetInvReports == FleetInv => CallsAreReported
<1> SUFFICES ASSUME FleetInv PROVE CallsAreReported
  OBVIOUS
<1>1. ASSUME MaxAttempts = 1, NEW c \in Callers
      PROVE  /\ attempt[c] \in {0, 1}
             /\ \A e \in mempool \cup chain : e.call = c => e.run = 1 /\ attempt[c] = 1
  <2>1. attempt[c] \in Nat /\ attempt[c] <= 1
    BY <1>1, FleetFacts
  <2>2. ASSUME NEW e \in mempool \cup chain, e.call = c
        PROVE  e.run = 1 /\ attempt[c] = 1
    <3>1. 1 <= e.run /\ e.run <= attempt[c] /\ e.run \in Nat
      BY <2>2 DEF FleetInv, NetworkInv, Envelopes, Transactions
    <3> QED
      BY <2>1, <3>1
  <2> QED
    BY <2>1, <2>2
<1>2. ASSUME MaxAttempts = 1, NEW c \in Callers,
             NEW t \in chain, NEW u \in chain, t.call = c, u.call = c
      PROVE  t = u
  <2>1. OneRun(t, u)
    BY <1>1, <1>2 DEF OneRun
  <2> QED
    BY <2>1 DEF FleetInv, NetworkInv
<1>3. ASSUME MaxAttempts = 1, NEW c \in Callers
      PROVE  Cardinality(Executions(c)) <= 1
  <2>1. CASE Executions(c) = {}
    BY <2>1, FS_EmptySet
  <2>2. ASSUME NEW t \in Executions(c)
        PROVE  Cardinality(Executions(c)) <= 1
    <3>1. \A u \in Executions(c) : u = t
      BY <1>2, <1>3 DEF Executions
    <3>2. Executions(c) = {t}
      BY <3>1
    <3>3. Cardinality({t}) = 1
      BY FS_Singleton
    <3> QED
      BY <3>2, <3>3
  <2> QED
    BY <2>1, <2>2
<1>4. ASSUME NEW c \in Callers, inv[c].result = "success"
      PROVE  Executions(c) # {}
  BY <1>4, FleetFacts DEF CallInv, Executions
<1>5. ASSUME MaxAttempts = 1, NEW c \in Callers, inv[c].result = "TRANSACTION_FAILED"
      PROVE  Included(c) # {} /\ Executions(c) = {}
  <2>1. PICK t \in chain : ThisRun(t, c) /\ ~t.ok
    BY <1>5, FleetFacts DEF CallInv
  <2>2. t \in Included(c)
    BY <2>1 DEF Included, ThisRun
  <2>3. ASSUME NEW u \in Executions(c)
        PROVE  FALSE
    BY <1>2, <1>5, <2>1, <2>3 DEF Executions, ThisRun
  <2> QED
    BY <2>2, <2>3
<1>6. ASSUME MaxAttempts = 1, NEW c \in Callers,
             taskState[c] = "refused" \/ inv[c].result = "SIMULATION_FAILED"
      PROVE  \A e \in mempool \cup chain : e.call # c
  <2>1. CASE taskState[c] = "refused"
    <3>1. attempt[c] = 0
      BY <2>1, FleetFacts DEF Unstarted
    <3> QED
      BY <1>1, <1>6, <3>1
  <2>2. CASE inv[c].result = "SIMULATION_FAILED"
    <3>1. NoTrace(c)
      BY <2>2, FleetFacts DEF CallInv
    <3> QED
      BY <1>1, <1>6, <3>1 DEF NoTrace, ThisRun
  <2> QED
    BY <1>6, <2>1, <2>2
<1>7. AtMostOnce
  BY <1>3 DEF AtMostOnce
<1>8. ReportsAreTrue
  BY <1>4, <1>5, <1>6 DEF ReportsAreTrue
<1> QED
  BY <1>7, <1>8 DEF CallsAreReported

(* With one attempt per call no call is executed twice, whatever is lost,  *)
(* sent again or bumped, for any number of calls, accounts, sends and      *)
(* polls; and what a caller is told is what the ledger says.               *)
THEOREM CallsExecuteOnce == FleetSpec => []CallsAreReported
BY FleetInvHolds, FleetInvReports, PTL

(* The account a call builds, sends or polls with is its own lease.        *)
THEOREM AccountsAreNotShared == FleetSpec => []UsesOwnAccount
<1>1. FleetInv => UsesOwnAccount
  <2> SUFFICES ASSUME FleetInv, NEW c \in Callers,
                      inv[c].at \in {"loaded", "sending", "checking", "polling", "ending"}
               PROVE  lease[c].at = "held" /\ c \in queue.running
    BY DEF UsesOwnAccount
  <2>1. lease[c].at = "held" /\ taskState[c] = "running"
    BY FleetFacts DEF CallInv, Holding, Sending
  <2>2. c \in queue.running
    BY <2>1, FleetFacts DEF FleetInv, QueueInv, TasksAgree
  <2> QED
    BY <2>1, <2>2
<1> QED
  BY <1>1, FleetInvHolds, PTL

-----------------------------------------------------------------------------
(* A shutdown.                                                             *)

LEMMA ClosedPoolStays ==
  ASSUME PoolInv, poolClosed, PoolNext
  PROVE  poolClosed' /\ entries' \subseteq entries
<1>1. ASSUME NEW es, NEW ls, NEW ws, NEW n, NEW L, Dispatch(es, ls, ws, n, L)
      PROVE  entries' = es
  BY <1>1 DEF Dispatch
<1>2. ASSUME NEW c \in Callers,
             Lease(c) \/ Abandon(c) \/ Forget(c) \/ Release(c) \/ Reclaimed(c)
      PROVE  poolClosed' /\ entries' \subseteq entries
  <2>1. CASE Lease(c) \/ Abandon(c) \/ Forget(c)
    BY <2>1 DEF Lease, Abandon, Forget
  <2>2. CASE Release(c)
    BY <1>1, <2>2 DEF Release
  <2>3. CASE Reclaimed(c)
    BY <1>1, <2>3 DEF Reclaimed
  <2> QED
    BY <1>2, <2>1, <2>2, <2>3
<1>3. ASSUME NEW own \in BOOLEAN, Create(own) \/ CreateFails(own)
      PROVE  poolClosed' /\ entries' \subseteq entries
  BY <1>1, <1>3 DEF Create, CreateFails
<1>4. ASSUME NEW own \in BOOLEAN, NEW ok \in BOOLEAN, Discard(own, ok)
      PROVE  poolClosed' /\ entries' \subseteq entries
  BY <1>1, <1>4 DEF Discard
<1>5. ASSUME Measure \/ \E a \in Accounts : Shrink(a)
      PROVE  poolClosed' /\ entries' \subseteq entries
  BY <1>5 DEF Measure, Shrink
<1>6. CASE PoolStep
  BY <1>3, <1>4, <1>5, <1>6 DEF PoolStep
<1>7. ~Close /\ \A size : ~Resize(size)
  BY DEF Close, Resize
<1> QED
  BY <1>2, <1>6, <1>7 DEF PoolNext

AllEnded == \A c \in Callers : taskState[c] \in Ended \cup {"new"}

\* A closed queue without work refuses what comes.
LEMMA EndedStays ==
  ASSUME FleetInv, queueClosed, AllEnded, FleetNext
  PROVE  queueClosed' /\ AllEnded'
<1>1. \A c \in Callers : c \in Tasks /\ taskState[c] \notin {"running", "sleeping"}
  BY FleetAssumption DEF AllEnded, Ended
<1>2. taskState \in [Tasks -> States]
  BY DEF FleetInv, QueueInv, TasksAgree
<1>3. ASSUME NEW c \in Callers, Call(c)
      PROVE  queueClosed' /\ AllEnded'
  BY <1>1, <1>2, <1>3 DEF Call, Submit, AllEnded, Ended
<1>4. ASSUME NEW c \in Callers, LeaseTimeout(c) \/ AccountReclaimed(c)
      PROVE  queueClosed' /\ AllEnded'
  BY <1>4 DEF LeaseTimeout, AccountReclaimed, queueVars, AllEnded
<1>5. ASSUME NEW c \in Callers, Step(c)
      PROVE  AccountReclaimed(c)
  <2>1. ~Again(c) /\ \A at : ~At(c, at)
    BY <1>1 DEF Again, Retry, At
  <2>2. ~(AskForAccount(c) \/ Load(c) \/ Prepare(c) \/ SendAccepted(c) \/ SendRefused(c))
    BY <2>1 DEF AskForAccount, Load, Prepare, SendAccepted, SendRefused
  <2>3. ~(SendLost(c) \/ CheckSent(c) \/ Poll(c) \/ GiveBack(c))
    BY <2>1 DEF SendLost, CheckSent, Poll, GiveBack
  <2>4. ~(Finish(c) \/ FinishRejected(c))
    BY <2>1 DEF Finish, FinishRejected
  <2> QED
    BY <1>5, <2>1, <2>2, <2>3, <2>4 DEF Step
<1>6. CASE ShutDown
  BY <1>6 DEF ShutDown, CloseQueue
<1>7. CASE PoolWork \/ ClosePool \/ \E e \in mempool : Include(e) \/ Expire(e)
  BY <1>7 DEF PoolWork, ClosePool, Include, Expire, queueVars, AllEnded
<1> QED
  BY <1>3, <1>4, <1>5, <1>6, <1>7 DEF FleetNext

\* When the queue has drained, no call holds an account.
LEMMA DrainedQueue ==
  ASSUME FleetInv, Drained
  PROVE  AllEnded /\ leased = {}
<1>1. ASSUME NEW c \in Callers
      PROVE  taskState[c] \in Ended \cup {"new"} /\ lease[c].at # "held"
  <2>1. queue.pending = <<>> /\ queue.running = {}
    BY DEF Drained
  <2>2. ~In(c, queue.pending) /\ c \notin queue.running
    BY <2>1 DEF In
  <2>3. c \in Tasks /\ taskState[c] \in States
    BY FleetFacts
  <2>4. taskState[c] \notin {"pending", "running", "sleeping"}
    BY <2>2, <2>3 DEF FleetInv, QueueInv, TasksAgree
  <2>5. lease[c] = NoLease
    BY <2>4, FleetFacts DEF CallInv
  <2> QED
    BY <2>3, <2>4, <2>5 DEF States, Ended, NoLease
<1>2. leased = {}
  BY <1>1, PoolFacts DEF FleetInv, Owned
<1> QED
  BY <1>1, <1>2 DEF AllEnded

\* Only shutdown() closes the pool of an agent.
LEMMA OnlyShutdownCloses ==
  ASSUME FleetNext, ~poolClosed, poolClosed'
  PROVE  ClosePool
<1>1. ASSUME NEW c \in Callers,
             Lease(c) \/ Abandon(c) \/ Forget(c) \/ Release(c) \/ Reclaimed(c)
      PROVE  poolClosed' = poolClosed
  BY <1>1 DEF Lease, Abandon, Forget, Release, Reclaimed
<1>2. PoolStep => poolClosed' = poolClosed
  BY DEF PoolStep, Create, CreateFails, Discard, Measure, Shrink
<1>3. ASSUME NEW c \in Callers, Call(c) \/ Step(c) \/ LeaseTimeout(c)
      PROVE  UNCHANGED poolVars \/ poolClosed' = poolClosed
  BY <1>1, <1>3, CallUsesPool
<1>4. ~(\E c \in Callers : Call(c) \/ Step(c) \/ LeaseTimeout(c))
  BY <1>3 DEF poolVars
<1>5. ~PoolWork /\ ~ShutDown
  BY <1>2 DEF PoolWork, ShutDown, poolVars
<1>6. \A e \in mempool : ~Include(e) /\ ~Expire(e)
  BY DEF Include, Expire, poolVars
<1> QED
  BY <1>4, <1>5, <1>6 DEF FleetNext

LEMMA ShutdownNext ==
  FleetInv /\ ShutdownIsOrderly /\ [FleetNext]_fleetVars => ShutdownIsOrderly'
<1> SUFFICES ASSUME FleetInv, ShutdownIsOrderly, [FleetNext]_fleetVars, poolClosed'
             PROVE  queueClosed' /\ AllEnded' /\ entries' = {}
  BY DEF ShutdownIsOrderly, AllEnded
<1>1. CASE UNCHANGED fleetVars
  BY <1>1 DEF fleetVars, poolVars, queueVars, ShutdownIsOrderly, AllEnded
<1>2. CASE FleetNext /\ poolClosed
  <2>1. queueClosed /\ AllEnded /\ entries = {}
    BY <1>2 DEF ShutdownIsOrderly, AllEnded
  <2>2. UNCHANGED poolVars \/ PoolNext
    BY FleetPoolSteps
  <2>3. entries' = {}
    BY <1>2, <2>1, <2>2, ClosedPoolStays DEF FleetInv, poolVars
  <2> QED
    BY <1>2, <2>1, <2>3, EndedStays
<1>3. CASE FleetNext /\ ~poolClosed
  <2>1. queueClosed /\ Drained /\ Close /\ UNCHANGED queueVars
    BY <1>3, OnlyShutdownCloses DEF ClosePool
  <2>2. AllEnded /\ leased = {}
    BY <2>1, DrainedQueue
  <2>3. entries' = {} /\ queueClosed' /\ taskState' = taskState
    BY <2>1, <2>2 DEF Close, queueVars
  <2> QED
    BY <2>2, <2>3 DEF AllEnded
<1> QED
  BY <1>1, <1>2, <1>3

(* shutdown() closes the pool only when every accepted call has its        *)
(* answer: no call loses its lease or its account to a shutdown, and no    *)
(* account stays behind in the pool.                                       *)
THEOREM ShutdownsAreOrderly == FleetSpec => []ShutdownIsOrderly
<1>1. FleetInit => ShutdownIsOrderly
  BY DEF FleetInit, PoolInit, ShutdownIsOrderly
<1> QED
  BY <1>1, FleetInvHolds, ShutdownNext, PTL DEF FleetSpec

-----------------------------------------------------------------------------
(* The sponsor's records.                                                  *)

Lifecycles == [op : Operations, target : Targets]
Endings ==
  [op : Operations, target : Targets, tx : Nat,
   result : {"active", "exists", "error", "success", "failed", "timeout"}]
SponsorTxs ==
  [op : {"create", "revoke", "close"}, target : Targets, seq : Nat, nth : Nat]

SponsorTypeOK ==
  /\ asked \in Seq(Lifecycles) /\ replies \in Seq(Endings)
  /\ lifecycle \in [at : {"rest", "load", "send", "check", "poll"},
                    seq : Nat, sends : Nat, polls : Nat]
  /\ records \in [Targets -> {NoRecord, "active", "inactive"}]
  /\ account \in [Targets -> {"missing", "funded", "sponsored", "sponsored and funded"}]
  /\ sponsorSeq \in Nat
  /\ pendingTxs \subseteq SponsorTxs
  /\ landed \subseteq [tx : SponsorTxs, ok : BOOLEAN]

\* A transaction was built for the lifecycle that runs.
InFlight == lifecycle.at \in {"send", "check", "poll"}

LifecycleIsSound ==
  /\ lifecycle.at # "rest" => asked # <<>>
  /\ InFlight <=> lifecycle.seq # 0

\* The ledger still executes one transaction, of the lifecycle that runs or of
\* one whose outcome was never learnt, and each only once.
LedgerIsSound ==
  /\ \A t \in pendingTxs :
       t.seq = sponsorSeq + 1 /\ (Unsure(t.target) \/ (InFlight /\ t = Tx))
  /\ \A t, u \in pendingTxs : t = u
  /\ \A t \in landed : t.tx.seq <= sponsorSeq
  /\ \A t, u \in landed : t.tx = u.tx => t = u

\* The transaction in flight has changed the account a.
Done(a) == InFlight /\ Tx.target = a /\ \E t \in landed : t.tx = Tx /\ t.ok = TRUE

\* What the records will say of a once the answer of the ledger is known.
RecordIsDue(a) ==
  IF Done(a) THEN Sponsored(a) <=> Tx.op = "create"
  ELSE Sponsored(a) <=> records[a] = "active"

SponsorInv ==
  /\ SponsorTypeOK /\ LifecycleIsSound /\ LedgerIsSound
  /\ \A a \in Targets : ~Unsure(a) => RecordIsDue(a)

LEMMA CurrentLifecycle ==
  ASSUME SponsorTypeOK, asked # <<>>
  PROVE  /\ Current \in Lifecycles /\ Tail(asked) \in Seq(Lifecycles)
         /\ Current.op \in Operations /\ Current.target \in Targets
         /\ Len(replies) \in Nat /\ lifecycle.seq \in Nat
         /\ Tx \in SponsorTxs /\ Tx.target = Current.target /\ Tx.seq = lifecycle.seq
         /\ Tx.op = IF Current.op = "ensure" THEN "create" ELSE Current.op
<1>1. asked \in Seq(Lifecycles) /\ replies \in Seq(Endings) /\ lifecycle.seq \in Nat
  BY DEF SponsorTypeOK
<1>2. Current \in Lifecycles /\ Tail(asked) \in Seq(Lifecycles)
  BY <1>1, HeadTailProperties DEF Current
<1>3. Current.op \in Operations /\ Current.target \in Targets
  BY <1>2 DEF Lifecycles
<1>4. Len(replies) \in Nat
  BY <1>1, LenProperties
<1> QED
  BY <1>1, <1>2, <1>3, <1>4 DEF Tx, SponsorTxs, Operations

(* A reply makes its account unsure when it is an error after a            *)
(* transaction, and no other.                                              *)
LEMMA RepliesAreKept ==
  ASSUME SponsorTypeOK, asked # <<>>,
         NEW result \in {"active", "exists", "error", "success", "failed", "timeout"},
         Reply(result)
  PROVE  /\ asked' \in Seq(Lifecycles) /\ replies' \in Seq(Endings)
         /\ lifecycle' = Resting
         /\ \A a \in Targets :
              Unsure(a)' <=> \/ Unsure(a)
                             \/ /\ Current.target = a /\ result \in {"error", "timeout"}
                                /\ lifecycle.seq # 0
<1> DEFINE r == [op |-> Current.op, target |-> Current.target, result |-> result,
                 tx |-> lifecycle.seq]
<1>1. /\ replies \in Seq(Endings) /\ Current.op \in Operations
      /\ Current.target \in Targets /\ lifecycle.seq \in Nat
      /\ Tail(asked) \in Seq(Lifecycles)
  BY CurrentLifecycle DEF SponsorTypeOK
<1>2. r \in Endings
  BY <1>1 DEF Endings
<1>3. /\ r.target = Current.target /\ r.result = result /\ r.tx = lifecycle.seq
  OBVIOUS
<1>4. replies' = Append(replies, r) /\ asked' = Tail(asked) /\ lifecycle' = Resting
  BY DEF Reply
<1> HIDE DEF r
<1>5. /\ Append(replies, r) \in Seq(Endings)
      /\ Len(replies) \in Nat /\ Len(Append(replies, r)) = Len(replies) + 1
      /\ DOMAIN replies = 1..Len(replies)
      /\ DOMAIN Append(replies, r) = 1..Len(replies) + 1
      /\ \A i \in 1..Len(replies) : Append(replies, r)[i] = replies[i]
      /\ Append(replies, r)[Len(replies) + 1] = r
  BY <1>1, <1>2, AppendProperties, LenProperties
<1>6. ASSUME NEW a \in Targets
      PROVE  Unsure(a)' <=> \/ Unsure(a)
                            \/ /\ Current.target = a /\ result \in {"error", "timeout"}
                               /\ lifecycle.seq # 0
  <2> DEFINE U(e) == e.target = a /\ e.result \in {"error", "timeout"} /\ e.tx # 0
             n == Len(replies)
             s == Append(replies, r)
  <2>1. Unsure(a) <=> \E i \in 1..n : U(replies[i])
    BY <1>5 DEF Unsure
  <2>2. Unsure(a)' <=> \E i \in 1..n + 1 : U(s[i])
    BY <1>4, <1>5 DEF Unsure
  <2>3. U(r) <=> /\ Current.target = a /\ result \in {"error", "timeout"}
                 /\ lifecycle.seq # 0
    BY <1>3
  <2>4. /\ n \in Nat /\ s[n + 1] = r /\ \A i \in 1..n : s[i] = replies[i]
    BY <1>5
  <2> HIDE DEF U, n, s
  <2>5. (\E i \in 1..n + 1 : U(s[i])) <=> (\E i \in 1..n : U(replies[i])) \/ U(r)
    <3>1. \A i \in 1..n + 1 : i \in 1..n \/ i = n + 1
      BY <2>4
    <3>2. n + 1 \in 1..n + 1 /\ \A i \in 1..n : i \in 1..n + 1
      BY <2>4
    <3>3. ASSUME NEW i \in 1..n + 1, U(s[i])
          PROVE  (\E j \in 1..n : U(replies[j])) \/ U(r)
      BY <2>4, <3>1, <3>3
    <3>4. ASSUME NEW i \in 1..n, U(replies[i])
          PROVE  \E j \in 1..n + 1 : U(s[j])
      BY <2>4, <3>2, <3>4
    <3>5. ASSUME U(r)
          PROVE  \E j \in 1..n + 1 : U(s[j])
      BY <2>4, <3>2, <3>5
    <3> QED
      BY <3>3, <3>4, <3>5
  <2> QED
    BY <2>1, <2>2, <2>3, <2>5
<1> QED
  BY <1>1, <1>4, <1>5, <1>6

(* A lifecycle that ends leaves the ledger as it is; what it was told, or  *)
(* was not, is what its record says.                                       *)
LEMMA EndingsKeepInv ==
  ASSUME SponsorInv, asked # <<>>, UNCHANGED ledgerVars,
         NEW result \in {"active", "exists", "error", "success", "failed", "timeout"},
         Reply(result),
         records' \in [Targets -> {NoRecord, "active", "inactive"}],
         \A a \in Targets : a # Current.target => records'[a] = records[a],
         InFlight => \/ result \in {"error", "timeout"}
                     \/ \E t \in landed : t.tx = Tx,
         ~InFlight \/ result \notin {"error", "timeout"} =>
           \/ Unsure(Current.target)
           \/ Sponsored(Current.target) <=> records'[Current.target] = "active"
  PROVE  SponsorInv'
<1>1. /\ SponsorTypeOK /\ LifecycleIsSound /\ LedgerIsSound
      /\ \A a \in Targets : ~Unsure(a) => RecordIsDue(a)
  BY DEF SponsorInv
<1>2. /\ asked' \in Seq(Lifecycles) /\ replies' \in Seq(Endings) /\ lifecycle' = Resting
      /\ \A a \in Targets :
           Unsure(a)' <=> \/ Unsure(a)
                          \/ /\ Current.target = a /\ result \in {"error", "timeout"}
                             /\ lifecycle.seq # 0
  BY <1>1, RepliesAreKept
<1>3. Resting.at = "rest" /\ Resting.seq = 0 /\ Resting.sends = 0 /\ Resting.polls = 0
  BY DEF Resting
<1>4. /\ UNCHANGED <<account, sponsorSeq, pendingTxs, landed>>
  BY DEF ledgerVars
<1>5. SponsorTypeOK'
  <2>1. Resting \in [at : {"rest", "load", "send", "check", "poll"},
                     seq : Nat, sends : Nat, polls : Nat]
    BY DEF Resting
  <2> QED
    BY <1>1, <1>2, <1>4, <2>1 DEF SponsorTypeOK
<1>6. LifecycleIsSound' /\ ~InFlight'
  BY <1>2, <1>3 DEF LifecycleIsSound, InFlight
<1>7. LedgerIsSound'
  <2>1. ASSUME NEW t \in pendingTxs
        PROVE  t.seq = sponsorSeq + 1 /\ Unsure(t.target)'
    <3>1. t.seq = sponsorSeq + 1 /\ (Unsure(t.target) \/ (InFlight /\ t = Tx))
          /\ t.target \in Targets
      BY <1>1 DEF LedgerIsSound, SponsorTypeOK, SponsorTxs
    <3>2. CASE Unsure(t.target)
      BY <1>2, <3>1, <3>2
    <3>3. CASE InFlight /\ t = Tx
      <4>1. lifecycle.seq # 0 /\ Tx.target = Current.target
        BY <1>1, <3>3, CurrentLifecycle DEF LifecycleIsSound
      <4>2. sponsorSeq \in Nat /\ \A u \in landed : u.tx.seq <= sponsorSeq
        BY <1>1 DEF LedgerIsSound, SponsorTypeOK
      <4>3. ~ \E u \in landed : u.tx = Tx
        BY <3>1, <3>3, <4>2
      <4>4. result \in {"error", "timeout"}
        BY <3>3, <4>3
      <4> QED
        BY <1>2, <3>1, <3>3, <4>1, <4>4
    <3> QED
      BY <3>1, <3>2, <3>3
  <2> QED
    BY <1>1, <1>4, <2>1 DEF LedgerIsSound
<1>8. ASSUME NEW a \in Targets, ~Unsure(a)'
      PROVE  RecordIsDue(a)'
  <2>1. ~Unsure(a) /\ RecordIsDue(a)
    BY <1>1, <1>2, <1>8
  <2>2. Sponsored(a) <=> records'[a] = "active"
    <3>1. CASE a = Current.target
      <4>1. ~InFlight \/ result \notin {"error", "timeout"}
        BY <1>1, <1>2, <1>8, <3>1 DEF LifecycleIsSound
      <4> QED
        BY <2>1, <3>1, <4>1
    <3>2. CASE a # Current.target
      <4>1. ~Done(a)
        BY <1>1, <3>2, CurrentLifecycle DEF Done
      <4>2. records'[a] = records[a]
        BY <3>2
      <4> QED
        BY <2>1, <4>1, <4>2 DEF RecordIsDue
    <3> QED
      BY <3>1, <3>2
  <2>3. Sponsored(a)' <=> Sponsored(a)
    BY <1>4 DEF Sponsored
  <2>4. ~Done(a)'
    BY <1>6 DEF Done
  <2> QED
    BY <2>2, <2>3, <2>4 DEF RecordIsDue
<1> QED
  BY <1>5, <1>6, <1>7, <1>8 DEF SponsorInv

(* A lifecycle that goes on with the transaction it has, and may hand it   *)
(* to the network.                                                         *)
LEMMA ProgressKeepsInv ==
  ASSUME SponsorInv, InFlight, NEW l,
         l \in [at : {"send", "check", "poll"}, seq : {lifecycle.seq},
                sends : Nat, polls : Nat],
         lifecycle' = l,
         UNCHANGED <<asked, replies, records, account, sponsorSeq, landed>>,
         \/ pendingTxs' = pendingTxs
         \/ ServiceTakes(Tx) /\ pendingTxs' = pendingTxs \cup {Tx}
  PROVE  SponsorInv'
<1>1. /\ SponsorTypeOK /\ LifecycleIsSound /\ LedgerIsSound
      /\ \A a \in Targets : ~Unsure(a) => RecordIsDue(a)
  BY DEF SponsorInv
<1>2. asked # <<>> /\ lifecycle.seq \in Nat
  BY <1>1 DEF LifecycleIsSound, InFlight, SponsorTypeOK
<1>3. /\ lifecycle'.at \in {"send", "check", "poll"} /\ lifecycle'.seq = lifecycle.seq
  OBVIOUS
<1>4. Current' = Current /\ Tx' = Tx
  BY <1>3 DEF Current, Tx
<1>5. InFlight'
  BY <1>3 DEF InFlight
<1>6. Tx \in SponsorTxs
  BY <1>1, <1>2, CurrentLifecycle
<1>7. \A a : Unsure(a)' <=> Unsure(a)
  BY DEF Unsure
<1>8. SponsorTypeOK'
  <2>1. lifecycle' \in [at : {"rest", "load", "send", "check", "poll"},
                        seq : Nat, sends : Nat, polls : Nat]
    BY <1>2
  <2>2. pendingTxs' \subseteq SponsorTxs
    BY <1>1, <1>6 DEF SponsorTypeOK
  <2> QED
    BY <1>1, <2>1, <2>2 DEF SponsorTypeOK
<1>9. LifecycleIsSound'
  BY <1>1, <1>2, <1>3, <1>5 DEF LifecycleIsSound
<1>10. LedgerIsSound'
  <2>1. ASSUME NEW t \in pendingTxs'
        PROVE  t.seq = sponsorSeq + 1 /\ (Unsure(t.target) \/ (InFlight /\ t = Tx))
    BY <1>1, <2>1 DEF LedgerIsSound, ServiceTakes
  <2>2. \A t, u \in pendingTxs' : t = u
    BY <1>1 DEF LedgerIsSound, ServiceTakes
  <2> QED
    BY <1>1, <1>4, <1>5, <1>7, <2>1, <2>2 DEF LedgerIsSound
<1>11. ASSUME NEW a \in Targets
       PROVE  RecordIsDue(a)' <=> RecordIsDue(a)
  BY <1>4, <1>5 DEF RecordIsDue, Done, Sponsored
<1> QED
  BY <1>1, <1>7, <1>8, <1>9, <1>10, <1>11 DEF SponsorInv

LEMMA AskingKeepsInv ==
  ASSUME SponsorInv, NEW op \in Operations, NEW a \in Targets, AskFor(op, a)
  PROVE  SponsorInv'
<1> DEFINE c == [op |-> op, target |-> a]
<1>1. /\ SponsorTypeOK /\ LifecycleIsSound /\ LedgerIsSound
      /\ \A b \in Targets : ~Unsure(b) => RecordIsDue(b)
      /\ asked \in Seq(Lifecycles)
  BY DEF SponsorInv, SponsorTypeOK
<1>2. /\ asked' = Append(asked, c) /\ c \in Lifecycles
      /\ UNCHANGED <<lifecycle, records, replies, account, sponsorSeq, pendingTxs, landed>>
  BY DEF AskFor, Lifecycles, ledgerVars
<1> HIDE DEF c
<1>3. /\ asked' \in Seq(Lifecycles) /\ asked' # <<>>
      /\ asked # <<>> => Current' = Current
  <2>1. /\ Append(asked, c) \in Seq(Lifecycles)
        /\ Len(asked) \in Nat /\ Len(Append(asked, c)) = Len(asked) + 1
        /\ \A i \in 1..Len(asked) : Append(asked, c)[i] = asked[i]
    BY <1>1, <1>2, AppendProperties, LenProperties
  <2>2. Append(asked, c) # <<>>
    BY <1>1, <1>2, AppendProperties
  <2>3. ASSUME asked # <<>> PROVE Head(Append(asked, c)) = Head(asked)
    <3>1. Len(asked) # 0
      BY <1>1, <2>3, EmptySeq
    <3>2. 1 \in 1..Len(asked)
      BY <2>1, <3>1
    <3>3. Append(asked, c)[1] = asked[1]
      BY <2>1, <3>2
    <3> QED
      BY <3>3
  <2> QED
    BY <1>2, <2>1, <2>2, <2>3 DEF Current
<1>4. InFlight' = InFlight /\ \A b : Unsure(b)' <=> Unsure(b)
  BY <1>2 DEF InFlight, Unsure
<1>5. InFlight => asked # <<>>
  BY <1>1 DEF LifecycleIsSound, InFlight
<1>6. InFlight => Tx' = Tx
  BY <1>2, <1>3, <1>5 DEF Tx
<1>7. SponsorTypeOK'
  BY <1>1, <1>2, <1>3 DEF SponsorTypeOK
<1>8. LifecycleIsSound'
  BY <1>1, <1>2, <1>3, <1>4 DEF LifecycleIsSound
<1>9. LedgerIsSound'
  BY <1>1, <1>2, <1>4, <1>6 DEF LedgerIsSound
<1>10. ASSUME NEW b \in Targets PROVE RecordIsDue(b)' <=> RecordIsDue(b)
  BY <1>2, <1>4, <1>6 DEF RecordIsDue, Done, Sponsored
<1> QED
  BY <1>1, <1>4, <1>7, <1>8, <1>9, <1>10 DEF SponsorInv

LEMMA EnsuringKeepsInv ==
  ASSUME SponsorInv, Ensure
  PROVE  SponsorInv'
<1> DEFINE a == Current.target
<1>1. /\ SponsorTypeOK /\ LifecycleIsSound /\ asked # <<>> /\ lifecycle.at = "rest"
      /\ a \in Targets /\ UNCHANGED ledgerVars
      /\ records \in [Targets -> {NoRecord, "active", "inactive"}]
  BY CurrentLifecycle DEF SponsorInv, Ensure, Now, SponsorTypeOK
<1>2. ~InFlight /\ lifecycle.seq = 0
  BY <1>1 DEF InFlight, LifecycleIsSound
<1>3. Unsure(a) \/ (Sponsored(a) <=> records[a] = "active")
  BY <1>1, <1>2 DEF SponsorInv, RecordIsDue, Done
<1>4. CASE Reply("active") /\ UNCHANGED records
  BY <1>1, <1>2, <1>3, <1>4, EndingsKeepInv
<1>5. CASE Reply("error") /\ UNCHANGED records
  BY <1>1, <1>2, <1>3, <1>5, EndingsKeepInv
<1>6. CASE /\ records[a] # "active" /\ Reply("exists")
           /\ records' = [records EXCEPT ![a] = "inactive"]
  <2>1. /\ records' \in [Targets -> {NoRecord, "active", "inactive"}]
        /\ \A b \in Targets : b # a => records'[b] = records[b]
        /\ records'[a] = "inactive"
    BY <1>1, <1>6
  <2>2. Unsure(a) \/ (Sponsored(a) <=> records'[a] = "active")
    BY <1>3, <1>6, <2>1
  <2> QED
    BY <1>1, <1>2, <1>6, <2>1, <2>2, EndingsKeepInv
<1>7. CASE /\ lifecycle' = [lifecycle EXCEPT !.at = "load"]
           /\ UNCHANGED <<asked, replies, records>>
  <2>1. /\ lifecycle' \in [at : {"rest", "load", "send", "check", "poll"},
                           seq : Nat, sends : Nat, polls : Nat]
        /\ lifecycle'.at = "load" /\ lifecycle'.seq = lifecycle.seq
    BY <1>1, <1>7 DEF SponsorTypeOK
  <2>2. UNCHANGED <<account, sponsorSeq, pendingTxs, landed>>
    BY <1>1 DEF ledgerVars
  <2>3. SponsorTypeOK'
    BY <1>1, <1>7, <2>1, <2>2 DEF SponsorTypeOK
  <2>4. ~InFlight' /\ LifecycleIsSound'
    BY <1>1, <1>2, <1>7, <2>1 DEF InFlight, LifecycleIsSound
  <2>5. \A b : Unsure(b)' <=> Unsure(b)
    BY <1>7 DEF Unsure
  <2>6. LedgerIsSound'
    BY <1>2, <2>2, <2>5 DEF SponsorInv, LedgerIsSound
  <2>7. \A b \in Targets : RecordIsDue(b)' <=> RecordIsDue(b)
    BY <1>2, <1>7, <2>2, <2>4 DEF RecordIsDue, Done, Sponsored
  <2> QED
    BY <2>3, <2>4, <2>5, <2>6, <2>7 DEF SponsorInv
<1> QED
  BY <1>4, <1>5, <1>6, <1>7 DEF Ensure

(* The sequence number of a new transaction is one that the ledger has not *)
(* reached.                                                                *)
LEMMA LoadingKeepsInv ==
  ASSUME SponsorInv, LoadSponsor
  PROVE  SponsorInv'
<1>1. /\ SponsorTypeOK /\ LifecycleIsSound /\ LedgerIsSound
      /\ \A a \in Targets : ~Unsure(a) => RecordIsDue(a)
      /\ asked # <<>> /\ lifecycle.at \in {"rest", "load"}
      /\ UNCHANGED records /\ UNCHANGED ledgerVars /\ sponsorSeq \in Nat
      /\ Current.target \in Targets
      /\ records \in [Targets -> {NoRecord, "active", "inactive"}]
  BY CurrentLifecycle DEF SponsorInv, LoadSponsor, Now, SponsorTypeOK
<1>2. ~InFlight
  BY <1>1 DEF InFlight
<1>3. CASE Reply("error")
  <2>1. Unsure(Current.target)
        \/ (Sponsored(Current.target) <=> records[Current.target] = "active")
    BY <1>1, <1>2 DEF RecordIsDue, Done
  <2> QED
    BY <1>1, <1>2, <1>3, <2>1, EndingsKeepInv
<1>4. CASE /\ lifecycle' = [lifecycle EXCEPT !.at = "send", !.seq = sponsorSeq + 1]
           /\ UNCHANGED <<asked, replies>>
  <2> DEFINE n == sponsorSeq + 1
  <2>1. n \in Nat /\ n # 0
    BY <1>1
  <2>2. lifecycle' = [lifecycle EXCEPT !.at = "send", !.seq = n]
    BY <1>4
  <2>3. \A t \in landed : t.tx.seq <= sponsorSeq /\ t.tx.seq \in Nat
    BY <1>1 DEF LedgerIsSound, SponsorTypeOK, SponsorTxs
  <2>4. \A t \in landed : t.tx.seq # n
    BY <1>1, <2>3
  <2> HIDE DEF n
  <2>5. /\ lifecycle' \in [at : {"rest", "load", "send", "check", "poll"},
                           seq : Nat, sends : Nat, polls : Nat]
        /\ lifecycle'.at = "send" /\ lifecycle'.seq = n
    BY <1>1, <2>1, <2>2 DEF SponsorTypeOK
  <2>6. UNCHANGED <<account, sponsorSeq, pendingTxs, landed>>
    BY <1>1 DEF ledgerVars
  <2>7. SponsorTypeOK'
    BY <1>1, <1>4, <2>5, <2>6 DEF SponsorTypeOK
  <2>8. InFlight' /\ LifecycleIsSound'
    BY <1>1, <1>4, <2>1, <2>5 DEF InFlight, LifecycleIsSound
  <2>9. \A b : Unsure(b)' <=> Unsure(b)
    BY <1>4 DEF Unsure
  <2>10. LedgerIsSound'
    BY <1>1, <1>2, <2>6, <2>9 DEF LedgerIsSound
  <2>11. Tx'.seq = n
    BY <2>5 DEF Tx
  <2>12. \A b \in Targets : ~Done(b)'
    BY <2>4, <2>6, <2>11 DEF Done
  <2>13. \A b \in Targets : RecordIsDue(b)' <=> RecordIsDue(b)
    BY <1>1, <1>2, <2>6, <2>12 DEF RecordIsDue, Done, Sponsored
  <2> QED
    BY <1>1, <2>7, <2>8, <2>9, <2>10, <2>13 DEF SponsorInv
<1> QED
  BY <1>3, <1>4 DEF LoadSponsor

(* An error after the transaction was built leaves its account unsure.     *)
LEMMA ErrorsKeepInv ==
  ASSUME SponsorInv, InFlight, UNCHANGED ledgerVars, UNCHANGED records,
         NEW result \in {"error", "timeout"}, Reply(result)
  PROVE  SponsorInv'
<1>1. asked # <<>>
  BY DEF SponsorInv, LifecycleIsSound, InFlight
<1>2. records' \in [Targets -> {NoRecord, "active", "inactive"}]
  BY DEF SponsorInv, SponsorTypeOK
<1> QED
  BY <1>1, <1>2, EndingsKeepInv

LEMMA MovesKeepInv ==
  ASSUME SponsorInv, InFlight, NEW at \in {"send", "check", "poll"},
         UNCHANGED <<asked, replies, records, account, sponsorSeq, landed>>,
         \/ lifecycle' = [lifecycle EXCEPT !.at = at]
         \/ lifecycle' = [lifecycle EXCEPT !.at = at, !.sends = @ + 1],
         \/ pendingTxs' = pendingTxs
         \/ ServiceTakes(Tx) /\ pendingTxs' = pendingTxs \cup {Tx}
  PROVE  SponsorInv'
<1>1. lifecycle \in [at : {"rest", "load", "send", "check", "poll"},
                     seq : Nat, sends : Nat, polls : Nat]
  BY DEF SponsorInv, SponsorTypeOK
<1>2. lifecycle' \in [at : {"send", "check", "poll"}, seq : {lifecycle.seq},
                      sends : Nat, polls : Nat]
  <2>1. CASE lifecycle' = [lifecycle EXCEPT !.at = at]
    BY <1>1, <2>1
  <2>2. CASE lifecycle' = [lifecycle EXCEPT !.at = at, !.sends = @ + 1]
    <3> DEFINE n == lifecycle.sends + 1
    <3>1. n \in Nat /\ lifecycle' = [lifecycle EXCEPT !.at = at, !.sends = n]
      BY <1>1, <2>2
    <3> HIDE DEF n
    <3> QED
      BY <1>1, <3>1
  <2> QED
    BY <2>1, <2>2
<1> QED
  BY <1>2, ProgressKeepsInv

LEMMA ResendsKeepInv ==
  ASSUME SponsorInv, InFlight, UNCHANGED ledgerVars, UNCHANGED records, Resend
  PROVE  SponsorInv'
<1>1. CASE Reply("error")
  BY <1>1, ErrorsKeepInv
<1>2. CASE /\ lifecycle' = [lifecycle EXCEPT !.at = "send", !.sends = @ + 1]
           /\ UNCHANGED <<asked, replies>>
  BY <1>2, MovesKeepInv DEF ledgerVars
<1> QED
  BY <1>1, <1>2 DEF Resend

LEMMA SendingKeepsInv ==
  ASSUME SponsorInv, SendTx
  PROVE  SponsorInv'
<1>1. InFlight /\ UNCHANGED records /\ UNCHANGED <<account, sponsorSeq, landed>>
  BY DEF SendTx, Now, InFlight
<1>2. ASSUME UNCHANGED pendingTxs PROVE UNCHANGED ledgerVars
  BY <1>1, <1>2 DEF ledgerVars
<1>3. CASE /\ ServiceTakes(Tx) /\ pendingTxs' = pendingTxs \cup {Tx}
           /\ \E at \in {"poll", "check"} : lifecycle' = [lifecycle EXCEPT !.at = at]
           /\ UNCHANGED <<asked, replies>>
  <2>1. PICK at \in {"poll", "check"} : lifecycle' = [lifecycle EXCEPT !.at = at]
    BY <1>3
  <2> QED
    BY <1>1, <1>3, <2>1, MovesKeepInv
<1>4. CASE /\ lifecycle' = [lifecycle EXCEPT !.at = "check"]
           /\ UNCHANGED <<asked, replies, pendingTxs>>
  BY <1>1, <1>4, MovesKeepInv
<1>5. CASE Resend /\ UNCHANGED pendingTxs
  BY <1>1, <1>2, <1>5, ResendsKeepInv
<1>6. CASE Reply("error") /\ UNCHANGED pendingTxs
  BY <1>1, <1>2, <1>6, ErrorsKeepInv
<1> QED
  BY <1>3, <1>4, <1>5, <1>6 DEF SendTx

LEMMA CheckingKeepsInv ==
  ASSUME SponsorInv, CheckTx
  PROVE  SponsorInv'
<1>1. InFlight /\ UNCHANGED records /\ UNCHANGED ledgerVars
  BY DEF CheckTx, Now, InFlight
<1>2. CASE /\ lifecycle' = [lifecycle EXCEPT !.at = "poll"]
           /\ UNCHANGED <<asked, replies>>
  BY <1>1, <1>2, MovesKeepInv DEF ledgerVars
<1>3. CASE Resend
  BY <1>1, <1>3, ResendsKeepInv
<1> QED
  BY <1>2, <1>3 DEF CheckTx

(* The record follows the answer of the ledger.                            *)
LEMMA PollingKeepsInv ==
  ASSUME SponsorInv, PollTx
  PROVE  SponsorInv'
<1> DEFINE a == Current.target
<1>1. /\ InFlight /\ UNCHANGED ledgerVars /\ asked # <<>>
      /\ SponsorTypeOK /\ LedgerIsSound
      /\ records \in [Targets -> {NoRecord, "active", "inactive"}]
  BY DEF PollTx, Now, InFlight, SponsorInv, SponsorTypeOK
<1>2. /\ a \in Targets /\ Tx.target = a /\ Tx.op \in {"create", "revoke", "close"}
      /\ Tx \in SponsorTxs
  BY <1>1, CurrentLifecycle DEF SponsorTxs
<1>3. ASSUME NEW t \in landed, t.tx = Tx,
             IF t.ok THEN Reply("success") /\ records' = Recorded(Tx)
             ELSE Reply("failed") /\ UNCHANGED records
      PROVE  SponsorInv'
  <2>1. t.ok \in BOOLEAN
    BY <1>1 DEF SponsorTypeOK
  <2>2. Unsure(a) \/ RecordIsDue(a)
    BY <1>2 DEF SponsorInv
  <2>3. CASE t.ok = TRUE
    <3>1. Reply("success") /\ records' = Recorded(Tx)
      BY <1>3, <2>3
    <3>2. Done(a)
      BY <1>1, <1>2, <1>3, <2>3 DEF Done
    <3>3. Unsure(a) \/ (Sponsored(a) <=> Tx.op = "create")
      BY <2>2, <3>2 DEF RecordIsDue
    <3>4. /\ records' \in [Targets -> {NoRecord, "active", "inactive"}]
          /\ \A b \in Targets : b # a => records'[b] = records[b]
          /\ records'[a] = "active" <=> Tx.op = "create"
      <4>1. CASE Tx.op = "create"
        <5>1. records' = [records EXCEPT ![a] = "active"]
          BY <1>2, <3>1, <4>1 DEF Recorded
        <5> QED
          BY <1>1, <1>2, <4>1, <5>1
      <4>2. CASE Tx.op # "create" /\ records[a] # NoRecord
        <5>1. records' = [records EXCEPT ![a] = "inactive"]
          BY <1>2, <3>1, <4>2 DEF Recorded
        <5> QED
          BY <1>1, <1>2, <4>2, <5>1
      <4>3. CASE Tx.op # "create" /\ records[a] = NoRecord
        <5>1. records' = records
          BY <1>2, <3>1, <4>3 DEF Recorded
        <5> QED
          BY <1>1, <1>2, <4>3, <5>1 DEF NoRecord
      <4> QED
        BY <4>1, <4>2, <4>3
    <3> QED
      BY <1>1, <1>3, <3>1, <3>3, <3>4, EndingsKeepInv
  <2>4. CASE t.ok = FALSE
    <3>1. Reply("failed") /\ UNCHANGED records
      BY <1>3, <2>4
    <3>2. ~Done(a)
      BY <1>1, <1>3, <2>4 DEF Done, LedgerIsSound
    <3>3. Unsure(a) \/ (Sponsored(a) <=> records[a] = "active")
      BY <2>2, <3>2 DEF RecordIsDue
    <3> QED
      BY <1>1, <1>3, <3>1, <3>3, EndingsKeepInv
  <2> QED
    BY <2>1, <2>3, <2>4
<1>4. CASE /\ lifecycle' = [lifecycle EXCEPT !.polls = @ + 1]
           /\ UNCHANGED <<asked, replies, records>>
  <2> DEFINE n == lifecycle.polls + 1
  <2>1. /\ lifecycle \in [at : {"rest", "load", "send", "check", "poll"},
                          seq : Nat, sends : Nat, polls : Nat]
        /\ lifecycle.at = "poll"
    BY <1>1 DEF SponsorTypeOK, PollTx, Now
  <2>2. n \in Nat /\ lifecycle' = [lifecycle EXCEPT !.polls = n]
    BY <1>4, <2>1
  <2> HIDE DEF n
  <2>3. lifecycle' \in [at : {"send", "check", "poll"}, seq : {lifecycle.seq},
                        sends : Nat, polls : Nat]
    BY <2>1, <2>2
  <2> QED
    BY <1>1, <1>4, <2>3, ProgressKeepsInv DEF ledgerVars
<1>5. CASE Reply("error") /\ UNCHANGED records
  BY <1>1, <1>5, ErrorsKeepInv
<1>6. CASE Reply("timeout") /\ UNCHANGED records
  BY <1>1, <1>6, ErrorsKeepInv
<1> QED
  BY <1>3, <1>4, <1>5, <1>6 DEF PollTx

(* The ledger answers for the account of its transaction alone, and only   *)
(* the transaction in flight can touch an account whose fate is known.     *)
LEMMA LedgerKeepsInv ==
  ASSUME SponsorInv, NEW x \in pendingTxs, LedgerExecutes(x)
  PROVE  SponsorInv'
<1> DEFINE y == [tx |-> x, ok |-> Valid(x)]
<1>1. /\ SponsorTypeOK /\ LifecycleIsSound /\ LedgerIsSound
      /\ x \in SponsorTxs /\ x.target \in Targets /\ x.seq \in Nat /\ sponsorSeq \in Nat
      /\ x.op \in {"create", "revoke", "close"}
      /\ account \in [Targets -> {"missing", "funded", "sponsored", "sponsored and funded"}]
      /\ x.seq = sponsorSeq + 1
      /\ Unsure(x.target) \/ (InFlight /\ x = Tx)
  BY DEF SponsorInv, SponsorTypeOK, SponsorTxs, LedgerIsSound
<1>2. /\ pendingTxs' = {} /\ sponsorSeq' = sponsorSeq + 1
      /\ landed' = landed \cup {y}
      /\ UNCHANGED <<asked, lifecycle, records, replies>>
  BY <1>1 DEF LedgerExecutes, serviceVars, LedgerIsSound
<1>3. Valid(x) \in BOOLEAN
  BY <1>1 DEF Valid
<1>4. y \in [tx : SponsorTxs, ok : BOOLEAN] /\ y.tx = x /\ y.ok = Valid(x)
  BY <1>1, <1>3
<1>5. /\ account' \in [Targets -> {"missing", "funded", "sponsored", "sponsored and funded"}]
      /\ \A b \in Targets : b # x.target => account'[b] = account[b]
      /\ Valid(x) = TRUE => account'[x.target] = After(x)
      /\ Valid(x) = FALSE => account' = account
  <2>1. After(x) \in {"missing", "funded", "sponsored"}
    BY <1>1 DEF After
  <2>2. CASE Valid(x) = TRUE
    <3>1. account' = [account EXCEPT ![x.target] = After(x)]
      BY <2>2 DEF LedgerExecutes
    <3> QED
      BY <1>1, <2>1, <2>2, <3>1
  <2>3. CASE Valid(x) = FALSE
    <3>1. account' = account
      BY <2>3 DEF LedgerExecutes
    <3> QED
      BY <1>1, <2>3, <3>1
  <2> QED
    BY <1>3, <2>2, <2>3
<1>6. \A t \in landed : t.tx # x
  <2> SUFFICES ASSUME NEW t \in landed PROVE t.tx # x
    OBVIOUS
  <2>1. t.tx.seq <= sponsorSeq /\ t.tx.seq \in Nat
    BY <1>1 DEF LedgerIsSound, SponsorTypeOK, SponsorTxs
  <2>2. x.seq = sponsorSeq + 1 /\ sponsorSeq \in Nat
    BY <1>1
  <2>3. t.tx.seq # x.seq
    BY <2>1, <2>2
  <2> QED
    BY <2>3
<1> HIDE DEF y
<1>7. /\ Tx' = Tx /\ InFlight' = InFlight /\ \A b : Unsure(b)' <=> Unsure(b)
  BY <1>2 DEF Tx, Current, InFlight, Unsure
<1>8. SponsorTypeOK'
  <2>1. landed' \subseteq [tx : SponsorTxs, ok : BOOLEAN]
    BY <1>1, <1>2, <1>4 DEF SponsorTypeOK
  <2>2. sponsorSeq' \in Nat
    BY <1>1, <1>2
  <2> QED
    BY <1>1, <1>2, <1>5, <2>1, <2>2 DEF SponsorTypeOK
<1>9. LifecycleIsSound'
  BY <1>1, <1>2, <1>7 DEF LifecycleIsSound
<1>10. LedgerIsSound'
  <2>1. \A t \in landed' : t.tx.seq <= sponsorSeq + 1
    <3> SUFFICES ASSUME NEW t \in landed' PROVE t.tx.seq <= sponsorSeq + 1
      OBVIOUS
    <3>1. CASE t = y
      <4>1. t.tx.seq = sponsorSeq + 1 /\ sponsorSeq + 1 \in Nat
        BY <1>1, <1>4, <3>1
      <4> QED
        BY <4>1
    <3>2. CASE t \in landed
      <4>1. t.tx.seq <= sponsorSeq /\ t.tx.seq \in Nat
        BY <1>1, <3>2 DEF LedgerIsSound, SponsorTypeOK, SponsorTxs
      <4>2. sponsorSeq \in Nat
        BY <1>1
      <4> QED
        BY <4>1, <4>2
    <3> QED
      BY <1>2, <3>1, <3>2
  <2>2. \A t, u \in landed' : t.tx = u.tx => t = u
    BY <1>1, <1>2, <1>4, <1>6 DEF LedgerIsSound
  <2> QED
    BY <1>2, <2>1, <2>2 DEF LedgerIsSound
<1>11. ASSUME NEW b \in Targets, ~Unsure(b)'
       PROVE  RecordIsDue(b)'
  <2>1. ~Unsure(b) /\ RecordIsDue(b)
    BY <1>7, <1>11 DEF SponsorInv
  <2>2. CASE b # x.target
    <3>1. Sponsored(b)' <=> Sponsored(b)
      BY <1>5, <2>2 DEF Sponsored
    <3>2. Done(b)' <=> Done(b)
      BY <1>2, <1>4, <1>7, <2>2 DEF Done
    <3> QED
      BY <1>2, <1>7, <2>1, <3>1, <3>2 DEF RecordIsDue
  <2>3. CASE b = x.target
    <3>1. InFlight /\ x = Tx
      BY <1>1, <2>1, <2>3
    <3>2. ~Done(b)
      BY <1>6, <3>1 DEF Done
    <3>3. CASE Valid(x) = TRUE
      <4>1. account'[b] = After(x)
        BY <1>5, <2>3, <3>3
      <4>2. Sponsored(b)' <=> x.op = "create"
        BY <1>1, <4>1 DEF Sponsored, After
      <4>3. y \in landed' /\ y.tx = Tx' /\ y.ok = TRUE
        BY <1>2, <1>4, <1>7, <3>1, <3>3
      <4>4. Tx'.target = b
        BY <1>7, <2>3, <3>1
      <4>5. Done(b)'
        BY <1>7, <3>1, <4>3, <4>4 DEF Done
      <4> QED
        BY <1>7, <3>1, <4>2, <4>5 DEF RecordIsDue
    <3>4. CASE Valid(x) = FALSE
      <4>1. ~Done(b)'
        BY <1>2, <1>4, <1>6, <1>7, <3>1, <3>4 DEF Done
      <4>2. Sponsored(b)' <=> Sponsored(b)
        BY <1>5, <3>4 DEF Sponsored
      <4> QED
        BY <1>2, <2>1, <3>2, <4>1, <4>2 DEF RecordIsDue
    <3> QED
      BY <1>3, <3>3, <3>4
  <2> QED
    BY <2>2, <2>3
<1> QED
  BY <1>8, <1>9, <1>10, <1>11 DEF SponsorInv

LEMMA OtherStepsKeepInv ==
  ASSUME SponsorInv, UNCHANGED <<asked, lifecycle, records, replies>>,
         UNCHANGED <<sponsorSeq, landed>>, pendingTxs' \subseteq pendingTxs,
         \A a \in Targets : Sponsored(a)' <=> Sponsored(a),
         account' \in [Targets -> {"missing", "funded", "sponsored", "sponsored and funded"}]
  PROVE  SponsorInv'
<1>1. /\ Tx' = Tx /\ InFlight' = InFlight /\ \A b : Unsure(b)' <=> Unsure(b)
  BY DEF Tx, Current, InFlight, Unsure
<1>2. SponsorTypeOK'
  BY DEF SponsorInv, SponsorTypeOK
<1>3. LifecycleIsSound'
  BY <1>1 DEF SponsorInv, LifecycleIsSound
<1>4. LedgerIsSound'
  BY <1>1 DEF SponsorInv, LedgerIsSound
<1>5. \A b \in Targets : RecordIsDue(b)' <=> RecordIsDue(b)
  BY <1>1 DEF RecordIsDue, Done
<1> QED
  BY <1>1, <1>2, <1>3, <1>4, <1>5 DEF SponsorInv

LEMMA SponsorStepsKeepInv ==
  ASSUME SponsorInv, [SponsorNext]_sponsorVars
  PROVE  SponsorInv'
<1>1. account \in [Targets -> {"missing", "funded", "sponsored", "sponsored and funded"}]
  BY DEF SponsorInv, SponsorTypeOK
<1>2. CASE UNCHANGED sponsorVars
  BY <1>1, <1>2, OtherStepsKeepInv DEF sponsorVars, serviceVars, ledgerVars, Sponsored
<1>3. ASSUME NEW x \in pendingTxs, DropTx(x)
      PROVE  SponsorInv'
  BY <1>1, <1>3, OtherStepsKeepInv DEF DropTx, serviceVars, Sponsored
<1>4. ASSUME NEW a \in Targets, Fund(a)
      PROVE  SponsorInv'
  <2>1. /\ UNCHANGED <<asked, lifecycle, records, replies, sponsorSeq, pendingTxs, landed>>
        /\ account[a] = "sponsored"
        /\ account' = [account EXCEPT ![a] = "sponsored and funded"]
    BY <1>4 DEF Fund, serviceVars
  <2>2. \A b \in Targets : Sponsored(b)' <=> Sponsored(b)
    BY <1>1, <2>1 DEF Sponsored
  <2>3. account' \in [Targets -> {"missing", "funded", "sponsored", "sponsored and funded"}]
    BY <1>1, <2>1
  <2> QED
    BY <2>1, <2>2, <2>3, OtherStepsKeepInv
<1> QED
  BY <1>2, <1>3, <1>4, AskingKeepsInv, EnsuringKeepsInv, LoadingKeepsInv, SendingKeepsInv,
     CheckingKeepsInv, PollingKeepsInv, LedgerKeepsInv DEF SponsorNext, ServiceStep

(* Between lifecycles the records of the sponsor service say which         *)
(* accounts it sponsors, except for accounts with a lifecycle whose        *)
(* outcome was never learnt, for any accounts and any numbers of sends and *)
(* polls (fleet/sponsorship.ts, #signSubmitAndConfirm).                    *)
THEOREM RecordsAreTrue ==
  SponsorSpec => []RecordsMatchLedger
<1>1. SponsorInit => SponsorInv
  <2> SUFFICES ASSUME SponsorInit PROVE SponsorInv
    OBVIOUS
  <2>1. /\ asked = <<>> /\ replies = <<>> /\ lifecycle = Resting
        /\ records = [a \in Targets |-> NoRecord]
        /\ account \in [Targets -> {"missing", "funded"}]
        /\ sponsorSeq = 0 /\ pendingTxs = {} /\ landed = {}
    BY DEF SponsorInit
  <2>2. SponsorTypeOK
    <3>1. <<>> \in Seq(Lifecycles) /\ <<>> \in Seq(Endings)
      OBVIOUS
    <3>2. Resting \in [at : {"rest", "load", "send", "check", "poll"},
                       seq : Nat, sends : Nat, polls : Nat]
      BY DEF Resting
    <3>3. records \in [Targets -> {NoRecord, "active", "inactive"}]
      BY <2>1
    <3>4. account \in [Targets -> {"missing", "funded", "sponsored", "sponsored and funded"}]
      BY <2>1
    <3> QED
      BY <2>1, <3>1, <3>2, <3>3, <3>4 DEF SponsorTypeOK
  <2>3. ~InFlight /\ LifecycleIsSound
    BY <2>1 DEF InFlight, LifecycleIsSound, Resting
  <2>4. LedgerIsSound
    BY <2>1 DEF LedgerIsSound
  <2>5. ASSUME NEW a \in Targets PROVE RecordIsDue(a)
    <3>1. ~Sponsored(a) /\ records[a] # "active"
      BY <2>1 DEF Sponsored, NoRecord
    <3> QED
      BY <2>3, <3>1 DEF RecordIsDue, Done
  <2> QED
    BY <2>2, <2>3, <2>4, <2>5 DEF SponsorInv
<1>2. SponsorInv /\ [SponsorNext]_sponsorVars => SponsorInv'
  BY SponsorStepsKeepInv
<1>3. SponsorInv => RecordsMatchLedger
  BY DEF SponsorInv, RecordsMatchLedger, RecordIsDue, Done, InFlight
<1> QED
  BY <1>1, <1>2, <1>3, PTL DEF SponsorSpec

-----------------------------------------------------------------------------
(* Cancellation, timeouts and retries.                                     *)

AbortableCall ==
  [at : {"new", "step", "flight", "nap", "done"},
   signal : {"live", "aborted", "timeout"}, timer : {"none", "set"},
   listens : BOOLEAN, nap : BOOLEAN,
   work : Nat, tries : Nat, begun : Nat, failed : Nat, late : Nat, told : Nat,
   outcome : {"none", "ok", "exhausted", "aborted", "timeout"}]

\* A call waits for one thing, with the signal live.
WaitsForOne(k) ==
  /\ k.signal # "live" => k.at \in {"step", "done"}
  /\ k.at = "new" => k.signal = "live" /\ k.timer = "none" /\ k.begun = 0
  /\ k.at \in {"flight", "nap"} <=> k.listens = TRUE
  /\ k.at = "nap" <=> k.nap = TRUE
  /\ k.at = "done" => k.timer = "none"

\* The requests begun are those that failed, those that were answered and the
\* one in flight; no work is tried more often than the policy says.
CountsRequests(k) ==
  /\ k.late = 0
  /\ k.work \in 1..Works
  /\ k.begun <= (k.work - 1) * Attempts + k.tries
  /\ k.tries <= Attempts
  /\ k.at \in {"new", "step", "nap"} =>
       /\ k.begun = k.failed + (k.work - 1)
       /\ k.tries < Attempts /\ k.tries <= k.failed
  /\ k.at = "flight" =>
       /\ k.begun = k.failed + k.work
       /\ k.tries <= k.failed + 1

\* What an ended call reports.
ReportsTruth(k) ==
  /\ k.outcome = "none" <=> k.at # "done"
  /\ k.outcome \in {"aborted", "timeout"} => k.outcome = k.signal
  /\ k.outcome = "ok" => k.begun = k.failed + Works /\ k.signal = "live"
  /\ k.outcome = "exhausted" => k.told >= k.tries /\ k.failed >= k.tries

AbortableCallOK(k) ==
  k \in AbortableCall /\ WaitsForOne(k) /\ CountsRequests(k) /\ ReportsTruth(k)

AbortInv ==
  /\ external \in [aborted : BOOLEAN, listeners : SUBSET Calls]
  /\ external.aborted = TRUE => external.listeners = {}
  /\ abortable \in [Calls -> AbortableCall]
  /\ \A c \in Calls :
       /\ AbortableCallOK(abortable[c])
       /\ abortable[c].at \in {"new", "done"} => c \notin external.listeners

LEMMA OneAbortableMoves ==
  ASSUME AbortInv, NEW c \in Calls, NEW n, AbortableCallOK(n),
         abortable' = [abortable EXCEPT ![c] = n],
         \/ external' = external
         \/ Deafened(c)
         \/ external' = [external EXCEPT !.listeners = @ \cup {c}] /\ external.aborted = FALSE,
         n.at \in {"new", "done"} => c \notin external'.listeners
  PROVE  AbortInv'
<1>1. /\ external \in [aborted : BOOLEAN, listeners : SUBSET Calls]
      /\ external.aborted = TRUE => external.listeners = {}
      /\ abortable \in [Calls -> AbortableCall] /\ n \in AbortableCall
  BY DEF AbortInv, AbortableCallOK
<1>2. /\ external' \in [aborted : BOOLEAN, listeners : SUBSET Calls]
      /\ external'.aborted = external.aborted
      /\ \A d \in Calls : d # c => (d \in external'.listeners <=> d \in external.listeners)
      /\ external'.aborted = TRUE => external'.listeners = {}
  <2>1. CASE external' = external
    BY <1>1, <2>1
  <2>2. CASE external' = [external EXCEPT !.listeners = @ \ {c}]
    BY <1>1, <2>2
  <2>3. CASE external' = [external EXCEPT !.listeners = @ \cup {c}] /\ external.aborted = FALSE
    BY <1>1, <2>3
  <2> QED
    BY <2>1, <2>2, <2>3 DEF Deafened
<1>3. abortable' \in [Calls -> AbortableCall]
  BY <1>1
<1>4. ASSUME NEW d \in Calls
      PROVE  /\ AbortableCallOK(abortable'[d])
             /\ abortable'[d].at \in {"new", "done"} => d \notin external'.listeners
  <2>1. CASE d = c
    <3>1. abortable'[d] = n
      BY <1>1, <2>1
    <3> QED
      BY <2>1, <3>1
  <2>2. CASE d # c
    <3>1. abortable'[d] = abortable[d]
      BY <1>1, <2>2
    <3> QED
      BY <1>2, <2>2, <3>1 DEF AbortInv
  <2> QED
    BY <2>1, <2>2
<1> QED
  BY <1>2, <1>3, <1>4 DEF AbortInv, AbortableCallOK, WaitsForOne, CountsRequests, ReportsTruth

LEMMA CallFacts ==
  ASSUME AbortInv, NEW c \in Calls
  PROVE  /\ abortable[c] \in AbortableCall /\ AbortableCallOK(abortable[c])
         /\ WaitsForOne(abortable[c]) /\ CountsRequests(abortable[c])
         /\ ReportsTruth(abortable[c])
         /\ external.aborted \in BOOLEAN /\ external.listeners \subseteq Calls
         /\ external.aborted = TRUE => external.listeners = {}
BY DEF AbortInv, AbortableCallOK

(* The call k ends with an outcome and nothing left behind.                *)
LEMMA EndingIsSound ==
  ASSUME SoundAborts, NEW k, AbortableCallOK(k),
         NEW outcome \in {"ok", "exhausted", "aborted", "timeout"},
         NEW n \in AbortableCall,
         n.at = "done", n.outcome = outcome, n.timer = "none",
         n.listens = FALSE, n.nap = FALSE, n.late = 0,
         n.work = k.work, n.tries = k.tries, n.begun = k.begun,
         outcome \in {"aborted", "timeout"} => n.signal = outcome,
         outcome = "ok" => n.begun = n.failed + Works /\ n.signal = "live",
         outcome = "exhausted" => n.told >= n.tries /\ n.failed >= n.tries
  PROVE  AbortableCallOK(n)
<1>1. CountsRequests(k)
  BY DEF AbortableCallOK
<1>2. CountsRequests(n)
  BY <1>1 DEF CountsRequests
<1>3. WaitsForOne(n)
  BY DEF WaitsForOne
<1>4. ReportsTruth(n)
  BY DEF ReportsTruth
<1> QED
  BY <1>2, <1>3, <1>4 DEF AbortableCallOK

LEMMA RunCallInv ==
  ASSUME SoundAborts, AbortInv, NEW c \in Calls, NEW withSignal \in BOOLEAN,
         NEW timeout \in BOOLEAN, RunCall(c, withSignal, timeout)
  PROVE  AbortInv'
<1> DEFINE k == abortable[c]
           aborted == withSignal /\ external.aborted
           sig == IF aborted THEN "aborted" ELSE "live"
           tim == IF timeout /\ ~aborted THEN "set" ELSE "none"
           n == [k EXCEPT !.at = "step", !.signal = sig, !.timer = tim]
<1>1. /\ k \in AbortableCall /\ k.at = "new" /\ AbortableCallOK(k)
      /\ abortable' = [abortable EXCEPT ![c] = n]
      /\ external' = IF withSignal /\ ~aborted
                     THEN [external EXCEPT !.listeners = @ \cup {c}] ELSE external
      /\ external.aborted \in BOOLEAN
  BY CallFacts DEF RunCall
<1>2. sig \in {"live", "aborted", "timeout"} /\ tim \in {"none", "set"}
  OBVIOUS
<1>3. withSignal /\ ~aborted => external.aborted = FALSE
  BY <1>1
<1> HIDE DEF sig, tim
<1>4. /\ n \in AbortableCall /\ n.at = "step"
      /\ n.listens = k.listens /\ n.nap = k.nap /\ n.work = k.work /\ n.tries = k.tries
      /\ n.begun = k.begun /\ n.failed = k.failed /\ n.late = k.late
      /\ n.outcome = k.outcome
  BY <1>1, <1>2 DEF AbortableCall
<1> HIDE DEF n, k
<1>5. AbortableCallOK(n)
  <2>1. WaitsForOne(n)
    BY <1>1, <1>4 DEF AbortableCallOK, WaitsForOne, AbortableCall
  <2>2. CountsRequests(n)
    BY <1>1, <1>4 DEF AbortableCallOK, CountsRequests
  <2>3. ReportsTruth(n)
    BY <1>1, <1>4 DEF AbortableCallOK, ReportsTruth
  <2> QED
    BY <1>4, <2>1, <2>2, <2>3 DEF AbortableCallOK
<1>6. \/ external' = external
      \/ external' = [external EXCEPT !.listeners = @ \cup {c}] /\ external.aborted = FALSE
  BY <1>1, <1>3
<1> HIDE DEF aborted
<1> QED
  BY <1>1, <1>4, <1>5, <1>6, OneAbortableMoves

LEMMA RefuseInv ==
  ASSUME SoundAborts, AbortInv, NEW c \in Calls, Refuse(c)
  PROVE  AbortInv'
<1> DEFINE k == abortable[c]
           n == EndedWith(k, k.signal)
<1>1. /\ k \in AbortableCall /\ k.at = "step" /\ k.signal # "live" /\ AbortableCallOK(k)
      /\ abortable' = [abortable EXCEPT ![c] = n] /\ Deafened(c)
      /\ external \in [aborted : BOOLEAN, listeners : SUBSET Calls]
  BY CallFacts DEF Refuse, AbortInv
<1>2. /\ n \in AbortableCall /\ n.at = "done" /\ n.outcome = k.signal /\ n.timer = "none"
      /\ n.listens = k.listens /\ n.nap = k.nap /\ n.late = k.late /\ n.work = k.work
      /\ n.tries = k.tries /\ n.begun = k.begun /\ n.failed = k.failed
      /\ n.signal = k.signal
  BY <1>1 DEF EndedWith, AbortableCall
<1>3. k.listens = FALSE /\ k.nap = FALSE /\ k.late = 0
  BY <1>1 DEF AbortableCallOK, WaitsForOne, CountsRequests, AbortableCall
<1>4. k.signal \in {"aborted", "timeout"}
  BY <1>1 DEF AbortableCall
<1> HIDE DEF n, k
<1>5. AbortableCallOK(n)
  BY <1>1, <1>2, <1>3, <1>4, EndingIsSound
<1>6. c \notin external'.listeners
  BY <1>1 DEF Deafened
<1> QED
  BY <1>1, <1>5, <1>6, OneAbortableMoves

LEMMA BeginWorkInv ==
  ASSUME SoundAborts, AbortInv, NEW c \in Calls, BeginWork(c)
  PROVE  AbortInv'
<1> DEFINE k == abortable[c]
           begun == k.begun + 1
           tries == k.tries + 1
           late == k.late + IF k.signal = "live" THEN 0 ELSE 1
           n == [k EXCEPT !.at = "flight", !.listens = TRUE, !.begun = begun,
                          !.tries = tries, !.late = late]
<1>1. /\ k \in AbortableCall /\ k.at = "step" /\ k.signal = "live" /\ AbortableCallOK(k)
      /\ abortable' = [abortable EXCEPT ![c] = n] /\ external' = external
  BY CallFacts DEF BeginWork, Requested
<1>2. /\ begun \in Nat /\ tries \in Nat /\ k.late = 0 /\ late = 0
      /\ k.begun \in Nat /\ k.tries \in Nat /\ k.failed \in Nat /\ k.work \in Nat
  BY <1>1 DEF AbortableCall, AbortableCallOK, CountsRequests
<1> HIDE DEF begun, tries, late
<1>3. /\ n \in AbortableCall /\ n.at = "flight" /\ n.listens = TRUE /\ n.begun = begun
      /\ n.tries = tries /\ n.late = 0
      /\ n.nap = k.nap /\ n.work = k.work /\ n.failed = k.failed
      /\ n.signal = k.signal /\ n.outcome = k.outcome /\ n.timer = k.timer
  BY <1>1, <1>2 DEF AbortableCall
<1> HIDE DEF n, k
<1>4. WaitsForOne(n)
  BY <1>1, <1>3 DEF AbortableCallOK, WaitsForOne, AbortableCall
<1>5. CountsRequests(n)
  <2> DEFINE m == (k.work - 1) * Attempts
  <2>1. /\ k.work \in 1..Works /\ k.begun <= m + k.tries
        /\ k.begun = k.failed + (k.work - 1)
        /\ k.tries < Attempts /\ k.tries <= k.failed
    BY <1>1 DEF AbortableCallOK, CountsRequests
  <2>2. m \in Int /\ Attempts \in Nat
    BY <1>2, <2>1 DEF SoundAborts
  <2> HIDE DEF m
  <2>3. begun <= m + tries /\ tries <= Attempts /\ begun = k.failed + k.work
        /\ tries <= k.failed + 1
    BY <1>2, <2>1, <2>2 DEF begun, tries
  <2> QED
    BY <1>3, <2>1, <2>3 DEF CountsRequests, m
<1>6. ReportsTruth(n)
  BY <1>1, <1>3 DEF AbortableCallOK, ReportsTruth
<1>7. AbortableCallOK(n)
  BY <1>3, <1>4, <1>5, <1>6 DEF AbortableCallOK
<1> QED
  BY <1>1, <1>3, <1>7, OneAbortableMoves

LEMMA ArrivesInv ==
  ASSUME SoundAborts, AbortInv, NEW c \in Calls, Arrives(c)
  PROVE  AbortInv'
<1> DEFINE k == abortable[c]
           heard == [k EXCEPT !.listens = FALSE]
<1>1. /\ k \in AbortableCall /\ k.at = "flight" /\ AbortableCallOK(k)
      /\ external \in [aborted : BOOLEAN, listeners : SUBSET Calls]
  BY CallFacts DEF Arrives, AbortInv
<1>2. /\ WaitsForOne(k) /\ CountsRequests(k) /\ ReportsTruth(k)
      /\ k.work \in Nat /\ k.begun \in Nat /\ k.failed \in Nat /\ k.tries \in Nat
      /\ k.signal = "live" /\ k.nap = FALSE
      /\ Works \in Nat /\ Attempts \in Nat
  BY <1>1 DEF AbortableCallOK, AbortableCall, WaitsForOne, SoundAborts
<1>3. CASE /\ k.work = Works
           /\ abortable' = [abortable EXCEPT ![c] = EndedWith(heard, "ok")] /\ Deafened(c)
  <2> DEFINE n == EndedWith(heard, "ok")
  <2>1. /\ n \in AbortableCall /\ n.at = "done" /\ n.outcome = "ok" /\ n.timer = "none"
        /\ n.listens = FALSE /\ n.nap = k.nap /\ n.late = k.late /\ n.work = k.work
        /\ n.tries = k.tries /\ n.begun = k.begun /\ n.failed = k.failed
        /\ n.signal = k.signal
    BY <1>1 DEF EndedWith, AbortableCall
  <2>2. abortable' = [abortable EXCEPT ![c] = n]
    BY <1>3
  <2> HIDE DEF n, k
  <2>3. k.begun = k.failed + Works /\ k.late = 0
    BY <1>1, <1>2, <1>3 DEF CountsRequests
  <2>4. AbortableCallOK(n)
    BY <1>1, <1>2, <2>1, <2>3, EndingIsSound
  <2>5. c \notin external'.listeners
    BY <1>1, <1>3 DEF Deafened
  <2> QED
    BY <1>3, <2>2, <2>4, <2>5, OneAbortableMoves
<1>4. CASE /\ k.work # Works
           /\ abortable' = [abortable EXCEPT ![c] =
                [heard EXCEPT !.at = "step", !.work = heard.work + 1, !.tries = 0]]
           /\ external' = external
  <2> DEFINE work == k.work + 1
             n == [heard EXCEPT !.at = "step", !.work = work, !.tries = 0]
  <2>1. work \in Nat /\ heard.work = k.work
    BY <1>1, <1>2 DEF AbortableCall
  <2>2. abortable' = [abortable EXCEPT ![c] = n]
    BY <1>4, <2>1
  <2> HIDE DEF work
  <2>3. /\ n \in AbortableCall /\ n.at = "step" /\ n.outcome = k.outcome
        /\ n.timer = k.timer /\ n.listens = FALSE /\ n.nap = k.nap /\ n.late = k.late
        /\ n.work = work /\ n.tries = 0 /\ n.begun = k.begun /\ n.failed = k.failed
        /\ n.signal = k.signal
    BY <1>1, <2>1 DEF AbortableCall
  <2> HIDE DEF n, k, heard
  <2>4. WaitsForOne(n)
    BY <1>1, <1>2, <2>3 DEF WaitsForOne
  <2>5. CountsRequests(n)
    <3> DEFINE m == (k.work - 1) * Attempts
    <3>1. /\ k.late = 0 /\ k.work \in 1..Works /\ k.begun <= m + k.tries
          /\ k.tries <= Attempts /\ k.begun = k.failed + k.work
      BY <1>1, <1>2 DEF CountsRequests
    <3>2. m \in Int /\ m + Attempts = (work - 1) * Attempts
      BY <1>2 DEF work
    <3> HIDE DEF m
    <3>3. k.begun <= m + Attempts
      BY <1>2, <3>1, <3>2
    <3>4. work \in 1..Works /\ k.begun = k.failed + (work - 1)
      BY <1>2, <1>4, <3>1 DEF work
    <3>5. k.begun <= (work - 1) * Attempts + 0
      BY <1>2, <2>1, <3>2, <3>3
    <3>6. 0 <= Attempts /\ 0 < Attempts /\ 0 <= k.failed
      BY <1>2 DEF SoundAborts
    <3> QED
      BY <2>3, <3>1, <3>4, <3>5, <3>6 DEF CountsRequests
  <2>6. ReportsTruth(n)
    BY <1>1, <1>2, <2>3 DEF ReportsTruth
  <2>7. AbortableCallOK(n)
    BY <2>3, <2>4, <2>5, <2>6 DEF AbortableCallOK
  <2> QED
    BY <1>4, <2>2, <2>3, <2>7, OneAbortableMoves
<1> QED
  BY <1>3, <1>4 DEF Arrives

LEMMA AttemptFailsInv ==
  ASSUME SoundAborts, AbortInv, NEW c \in Calls, NEW retryable \in BOOLEAN,
         AttemptFails(c, retryable)
  PROVE  AbortInv'
<1> DEFINE k == abortable[c]
           failed == k.failed + 1
           heard == [k EXCEPT !.listens = FALSE, !.failed = failed]
<1>1. /\ k \in AbortableCall /\ k.at = "flight" /\ AbortableCallOK(k)
      /\ external \in [aborted : BOOLEAN, listeners : SUBSET Calls]
  BY CallFacts DEF AttemptFails, AbortInv
<1>2. /\ WaitsForOne(k) /\ CountsRequests(k) /\ ReportsTruth(k)
      /\ k.work \in Nat /\ k.begun \in Nat /\ k.failed \in Nat /\ k.tries \in Nat
      /\ failed \in Nat
      /\ k.signal = "live" /\ k.nap = FALSE
      /\ Works \in Nat /\ Attempts \in Nat
  BY <1>1 DEF AbortableCallOK, AbortableCall, WaitsForOne, SoundAborts
<1>3. /\ k.late = 0 /\ k.tries <= failed /\ k.begun = failed + (k.work - 1)
      /\ k.tries <= Attempts /\ k.work \in 1..Works
      /\ k.begun <= (k.work - 1) * Attempts + k.tries
  BY <1>1, <1>2 DEF CountsRequests
<1>4. CASE /\ abortable' = [abortable EXCEPT ![c] =
                [EndedWith(heard, "exhausted") EXCEPT !.told = Attempts]]
           /\ Deafened(c)
  <2> DEFINE n == [EndedWith(heard, "exhausted") EXCEPT !.told = Attempts]
  <2> HIDE DEF failed
  <2>1. /\ n \in AbortableCall /\ n.at = "done" /\ n.outcome = "exhausted"
        /\ n.timer = "none" /\ n.listens = FALSE /\ n.nap = k.nap /\ n.late = k.late
        /\ n.work = k.work /\ n.tries = k.tries /\ n.begun = k.begun
        /\ n.failed = failed /\ n.signal = k.signal /\ n.told = Attempts
    BY <1>1, <1>2 DEF EndedWith, AbortableCall
  <2>2. abortable' = [abortable EXCEPT ![c] = n]
    BY <1>4
  <2> HIDE DEF n, k
  <2>3. AbortableCallOK(n)
    BY <1>1, <1>2, <1>3, <2>1, EndingIsSound
  <2>4. c \notin external'.listeners
    BY <1>1, <1>4 DEF Deafened
  <2> QED
    BY <1>4, <2>2, <2>3, <2>4, OneAbortableMoves
<1>5. CASE /\ k.tries # Attempts
           /\ abortable' = [abortable EXCEPT ![c] =
                [heard EXCEPT !.at = "nap", !.nap = TRUE, !.listens = TRUE]]
           /\ external' = external
  <2> DEFINE n == [heard EXCEPT !.at = "nap", !.nap = TRUE, !.listens = TRUE]
  <2> HIDE DEF failed
  <2>1. /\ n \in AbortableCall /\ n.at = "nap" /\ n.outcome = k.outcome
        /\ n.timer = k.timer /\ n.listens = TRUE /\ n.nap = TRUE /\ n.late = k.late
        /\ n.work = k.work /\ n.tries = k.tries /\ n.begun = k.begun
        /\ n.failed = failed /\ n.signal = k.signal
    BY <1>1, <1>2 DEF AbortableCall
  <2>2. abortable' = [abortable EXCEPT ![c] = n]
    BY <1>5
  <2> HIDE DEF n, k
  <2>3. WaitsForOne(n)
    BY <1>1, <1>2, <2>1 DEF WaitsForOne
  <2>4. CountsRequests(n)
    <3> DEFINE tries == k.tries
    <3>1. tries \in Nat /\ Attempts \in Nat /\ tries <= Attempts /\ tries # Attempts
      BY <1>2, <1>3, <1>5
    <3> HIDE DEF tries
    <3>2. tries < Attempts
      BY <3>1
    <3> QED
      BY <1>2, <1>3, <2>1, <3>2 DEF CountsRequests, tries
  <2>5. ReportsTruth(n)
    BY <1>1, <1>2, <2>1 DEF ReportsTruth
  <2>6. AbortableCallOK(n)
    BY <2>1, <2>3, <2>4, <2>5 DEF AbortableCallOK
  <2> QED
    BY <1>5, <2>1, <2>2, <2>6, OneAbortableMoves
<1>6. [abortable[c] EXCEPT !.listens = FALSE, !.failed = abortable[c].failed + 1] = heard
      /\ heard.tries = k.tries
  BY <1>1 DEF AbortableCall
<1> QED
  BY <1>4, <1>5, <1>6 DEF AttemptFails

LEMMA NapEndsInv ==
  ASSUME SoundAborts, AbortInv, NEW c \in Calls, NapEnds(c)
  PROVE  AbortInv'
<1> DEFINE k == abortable[c]
           n == [k EXCEPT !.at = "step", !.nap = FALSE, !.listens = FALSE]
<1>1. /\ k \in AbortableCall /\ k.at = "nap" /\ AbortableCallOK(k)
      /\ abortable' = [abortable EXCEPT ![c] = n] /\ external' = external
  BY CallFacts DEF NapEnds
<1>2. /\ n \in AbortableCall /\ n.at = "step" /\ n.outcome = k.outcome
      /\ n.timer = k.timer /\ n.listens = FALSE /\ n.nap = FALSE /\ n.late = k.late
      /\ n.work = k.work /\ n.tries = k.tries /\ n.begun = k.begun
      /\ n.failed = k.failed /\ n.signal = k.signal
  BY <1>1 DEF AbortableCall
<1> HIDE DEF n, k
<1>3. WaitsForOne(n)
  BY <1>1, <1>2 DEF AbortableCallOK, WaitsForOne
<1>4. CountsRequests(n)
  BY <1>1, <1>2 DEF AbortableCallOK, CountsRequests
<1>5. ReportsTruth(n)
  BY <1>1, <1>2 DEF AbortableCallOK, ReportsTruth
<1>6. AbortableCallOK(n)
  BY <1>2, <1>3, <1>4, <1>5 DEF AbortableCallOK
<1> QED
  BY <1>1, <1>2, <1>6, OneAbortableMoves

(* Whoever waits when the signal is aborted ends at once.                  *)
LEMMA AbortedIsSound ==
  ASSUME SoundAborts, NEW k, AbortableCallOK(k), k.at \in {"step", "flight", "nap"},
         NEW reason \in {"aborted", "timeout"}
  PROVE  AbortableCallOK(Aborted(k, reason)) /\ Aborted(k, reason).at # "new"
<1> DEFINE told == [k EXCEPT !.signal = reason, !.listens = FALSE, !.nap = FALSE]
           n == Aborted(k, reason)
<1>1. /\ k \in AbortableCall /\ WaitsForOne(k) /\ CountsRequests(k) /\ ReportsTruth(k)
  BY DEF AbortableCallOK
<1>2. /\ told \in AbortableCall /\ told.signal = reason /\ told.listens = FALSE
      /\ told.nap = FALSE /\ told.at = k.at /\ told.timer = k.timer
      /\ told.work = k.work /\ told.tries = k.tries /\ told.begun = k.begun
      /\ told.failed = k.failed /\ told.late = k.late /\ told.outcome = k.outcome
      /\ told.told = k.told
  BY <1>1 DEF AbortableCall
<1>3. CASE k.signal # "live"
  <2>1. n = k
    BY <1>3 DEF Aborted
  <2> QED
    BY <2>1
<1>4. CASE k.signal = "live" /\ k.at \in {"flight", "nap"}
  <2>1. n = EndedWith(told, reason)
    BY <1>2, <1>4 DEF Aborted
  <2> HIDE DEF told, n
  <2>2. /\ n \in AbortableCall /\ n.at = "done" /\ n.outcome = reason
        /\ n.timer = "none" /\ n.listens = FALSE /\ n.nap = FALSE /\ n.late = k.late
        /\ n.work = k.work /\ n.tries = k.tries /\ n.begun = k.begun
        /\ n.signal = reason
    BY <1>2, <2>1 DEF EndedWith, AbortableCall
  <2>3. k.late = 0
    BY <1>1 DEF CountsRequests
  <2>4. AbortableCallOK(n)
    BY <2>2, <2>3, EndingIsSound
  <2> QED
    BY <2>2, <2>4 DEF n
<1>5. CASE k.signal = "live" /\ k.at = "step"
  <2>1. n = told
    BY <1>2, <1>5 DEF Aborted
  <2> HIDE DEF told, n
  <2>2. WaitsForOne(told)
    BY <1>1, <1>2, <1>5 DEF WaitsForOne
  <2>3. CountsRequests(told)
    BY <1>1, <1>2, <1>5 DEF CountsRequests
  <2>4. ReportsTruth(told)
    BY <1>1, <1>2, <1>5 DEF ReportsTruth
  <2>5. AbortableCallOK(n) /\ n.at # "new"
    BY <1>2, <1>5, <2>1, <2>2, <2>3, <2>4 DEF AbortableCallOK
  <2> QED
    BY <2>5 DEF n
<1> QED
  BY <1>1, <1>3, <1>4, <1>5

LEMMA TimeoutFiresInv ==
  ASSUME SoundAborts, AbortInv, NEW c \in Calls, TimeoutFires(c)
  PROVE  AbortInv'
<1> DEFINE k == abortable[c]
           still == [k EXCEPT !.timer = "none"]
           n == Aborted(still, "timeout")
<1>1. /\ k \in AbortableCall /\ k.timer = "set" /\ AbortableCallOK(k)
      /\ abortable' = [abortable EXCEPT ![c] = n]
      /\ IF n.at = "done" THEN Deafened(c) ELSE UNCHANGED external
      /\ external \in [aborted : BOOLEAN, listeners : SUBSET Calls]
  BY CallFacts DEF TimeoutFires, AbortInv
<1>2. WaitsForOne(k) /\ CountsRequests(k) /\ ReportsTruth(k)
      /\ k.at \in {"step", "flight", "nap"}
  BY <1>1 DEF AbortableCallOK, WaitsForOne, AbortableCall
<1>3. /\ still \in AbortableCall /\ still.at = k.at /\ still.signal = k.signal
      /\ still.timer = "none" /\ still.listens = k.listens /\ still.nap = k.nap
      /\ still.work = k.work /\ still.tries = k.tries /\ still.begun = k.begun
      /\ still.failed = k.failed /\ still.late = k.late
      /\ still.outcome = k.outcome /\ still.told = k.told
  BY <1>1 DEF AbortableCall
<1> HIDE DEF still, k
<1>4. AbortableCallOK(still)
  <2>1. WaitsForOne(still)
    BY <1>2, <1>3 DEF WaitsForOne
  <2>2. CountsRequests(still)
    BY <1>2, <1>3 DEF CountsRequests
  <2>3. ReportsTruth(still)
    BY <1>2, <1>3 DEF ReportsTruth
  <2> QED
    BY <1>3, <2>1, <2>2, <2>3 DEF AbortableCallOK
<1>5. AbortableCallOK(n) /\ n.at # "new"
  BY <1>2, <1>3, <1>4, AbortedIsSound
<1> HIDE DEF n
<1>6. n.at = "done" => c \notin external'.listeners
  BY <1>1 DEF Deafened
<1> QED
  BY <1>1, <1>5, <1>6, OneAbortableMoves

LEMMA ExternalAbortInv ==
  ASSUME SoundAborts, AbortInv, ExternalAbort
  PROVE  AbortInv'
<1>1. /\ external' = [aborted |-> TRUE, listeners |-> {}]
      /\ abortable' = [c \in Calls |->
           IF c \in external.listeners THEN Aborted(abortable[c], "aborted")
           ELSE abortable[c]]
  BY DEF ExternalAbort
<1>2. /\ external' \in [aborted : BOOLEAN, listeners : SUBSET Calls]
      /\ external'.listeners = {}
  BY <1>1
<1>3. ASSUME NEW c \in Calls PROVE AbortableCallOK(abortable'[c])
  <2>1. CASE c \in external.listeners
    <3>1. /\ AbortableCallOK(abortable[c]) /\ abortable[c] \in AbortableCall
          /\ abortable[c].at \notin {"new", "done"}
      BY <2>1 DEF AbortInv, AbortableCallOK
    <3>2. abortable[c].at \in {"step", "flight", "nap"}
      BY <3>1 DEF AbortableCall
    <3>3. AbortableCallOK(Aborted(abortable[c], "aborted"))
      BY <3>1, <3>2, AbortedIsSound
    <3>4. abortable'[c] = Aborted(abortable[c], "aborted")
      BY <1>1, <2>1
    <3> QED
      BY <3>3, <3>4
  <2>2. CASE c \notin external.listeners
    <3>1. abortable'[c] = abortable[c]
      BY <1>1, <2>2
    <3> QED
      BY <3>1 DEF AbortInv
  <2> QED
    BY <2>1, <2>2
<1>4. abortable' \in [Calls -> AbortableCall]
  <2>1. \A c \in Calls : abortable'[c] \in AbortableCall
    BY <1>3 DEF AbortableCallOK
  <2> QED
    BY <1>1, <2>1
<1>5. \A c \in Calls : AbortableCallOK(abortable[c])'
  BY <1>3 DEF AbortableCallOK, WaitsForOne, CountsRequests, ReportsTruth
<1> QED
  BY <1>2, <1>4, <1>5 DEF AbortInv

LEMMA AbortInvHolds ==
  ASSUME SoundAborts
  PROVE  AbortSpec => []AbortInv
<1>1. AbortInit => AbortInv
  <2> SUFFICES ASSUME AbortInit PROVE AbortInv
    OBVIOUS
  <2>1. FreshCall \in AbortableCall
    BY DEF FreshCall, AbortableCall
  <2>2. WaitsForOne(FreshCall) /\ ReportsTruth(FreshCall)
    BY DEF FreshCall, WaitsForOne, ReportsTruth
  <2>3. CountsRequests(FreshCall)
    <3>1. Works \in Nat /\ Works # 0 /\ Attempts \in Nat /\ Attempts # 0
      BY DEF SoundAborts
    <3>2. 1 \in 1..Works /\ 0 < Attempts /\ (1 - 1) * Attempts + 0 = 0
      BY <3>1
    <3> QED
      BY <3>1, <3>2 DEF FreshCall, CountsRequests
  <2>4. AbortableCallOK(FreshCall)
    BY <2>1, <2>2, <2>3 DEF AbortableCallOK
  <2>5. /\ external = [aborted |-> FALSE, listeners |-> {}]
        /\ abortable = [c \in Calls |-> FreshCall]
    BY DEF AbortInit
  <2> QED
    BY <2>1, <2>4, <2>5 DEF AbortInv
<1>2. AbortInv /\ [AbortNext]_abortVars => AbortInv'
  <2> SUFFICES ASSUME AbortInv, [AbortNext]_abortVars PROVE AbortInv'
    OBVIOUS
  <2>1. CASE UNCHANGED abortVars
    BY <2>1 DEF abortVars, AbortInv, AbortableCallOK, WaitsForOne, CountsRequests,
                ReportsTruth
  <2> QED
    BY <2>1, RunCallInv, RefuseInv, BeginWorkInv, ArrivesInv, AttemptFailsInv, NapEndsInv,
       TimeoutFiresInv, ExternalAbortInv DEF AbortNext
<1> QED
  BY <1>1, <1>2, PTL DEF AbortSpec

(* Nobody waits for the network or a pause once aborted, no request is     *)
(* begun after an abort, an error tells whether the call's own timeout     *)
(* came first, and no timer or listener outlives its call, for any calls,  *)
(* works and attempts (abort.ts, runCall).                                 *)
THEOREM CallsEndClean ==
  ASSUME SoundAborts
  PROVE  AbortSpec => []CancellationIsClean
<1>1. AbortInv => CancellationIsClean
  <2> SUFFICES ASSUME AbortInv PROVE CancellationIsClean
    OBVIOUS
  <2>1. ASSUME NEW c \in Calls
        PROVE  LET k == abortable[c] IN
               /\ k.signal # "live" => k.at \in {"step", "done"} /\ k.late = 0
               /\ k.outcome \in {"aborted", "timeout"} => k.outcome = k.signal
               /\ k.outcome = "ok" =>
                    k.begun = k.failed + Works /\ k.signal = "live"
               /\ k.at = "done" =>
                    c \notin external.listeners /\ k.timer = "none"
                    /\ ~k.nap /\ ~k.listens
               /\ k.at \in {"flight", "nap"} => k.listens
               /\ k.nap <=> k.at = "nap"
    <3> DEFINE k == abortable[c]
    <3>1. /\ WaitsForOne(k) /\ CountsRequests(k) /\ ReportsTruth(k) /\ k \in AbortableCall
          /\ k.at = "done" => c \notin external.listeners
      BY CallFacts DEF AbortInv
    <3>2. k.nap \in BOOLEAN /\ k.listens \in BOOLEAN
      BY <3>1 DEF AbortableCall
    <3>3. k.at = "done" => k.nap = FALSE /\ k.listens = FALSE /\ k.timer = "none"
      BY <3>1, <3>2 DEF WaitsForOne
    <3>4. k.signal # "live" => k.at \in {"step", "done"} /\ k.late = 0
      BY <3>1 DEF WaitsForOne, CountsRequests
    <3>5. /\ k.outcome \in {"aborted", "timeout"} => k.outcome = k.signal
          /\ k.outcome = "ok" => k.begun = k.failed + Works /\ k.signal = "live"
      BY <3>1 DEF ReportsTruth
    <3>6. k.at \in {"flight", "nap"} => k.listens
      BY <3>1, <3>2 DEF WaitsForOne
    <3>7. k.nap <=> k.at = "nap"
      BY <3>1, <3>2 DEF WaitsForOne
    <3> HIDE DEF k
    <3>8. k.at = "done" => c \notin external.listeners /\ k.timer = "none"
                           /\ ~k.nap /\ ~k.listens
      BY <3>1, <3>3
    <3> QED
      BY <3>4, <3>5, <3>6, <3>7, <3>8 DEF k
  <2>2. external.aborted => external.listeners = {}
    BY DEF AbortInv
  <2> QED
    BY <2>1, <2>2 DEF CancellationIsClean
<1> QED
  BY <1>1, AbortInvHolds, PTL

(* A call begins no work more often than its policy says, and reports no   *)
(* fewer attempts than it made (retry.ts, retryAsync).                     *)
THEOREM RetriesAreBounded ==
  ASSUME SoundAborts
  PROVE  AbortSpec => []AttemptsAreBounded
<1>1. AbortInv => AttemptsAreBounded
  <2> SUFFICES ASSUME AbortInv, NEW c \in Calls
               PROVE  LET k == abortable[c] IN
                      /\ k.begun <= k.work * Attempts
                      /\ k.outcome = "exhausted" =>
                           k.told >= k.tries /\ k.failed >= k.tries
    BY DEF AttemptsAreBounded
  <2> DEFINE k == abortable[c]
             m == (k.work - 1) * Attempts
  <2>1. /\ CountsRequests(k) /\ ReportsTruth(k) /\ k.begun \in Nat /\ k.work \in Nat
        /\ k.tries \in Nat /\ Attempts \in Nat
    BY CallFacts DEF AbortableCall, SoundAborts
  <2>2. m \in Int /\ m + Attempts = k.work * Attempts
    BY <2>1
  <2>3. k.begun <= m + k.tries /\ k.tries <= Attempts
    BY <2>1 DEF CountsRequests
  <2> HIDE DEF m
  <2>4. k.begun <= m + Attempts
    BY <2>1, <2>2, <2>3
  <2>5. k.begun <= k.work * Attempts
    BY <2>2, <2>4
  <2> QED
    BY <2>1, <2>5 DEF ReportsTruth
<1> QED
  BY <1>1, AbortInvHolds, PTL

-----------------------------------------------------------------------------
(* The calls of an agent.                                                  *)

Fields == {"op", "at", "id", "ledger", "floor", "quote", "value", "tx", "result"}
AgentChannel == [open : BOOLEAN, spent : Int, start : Int]
AgentJob == [deadline : Int, created : Int]
PaymentQuote == [expected : Int, minimum : Int, at : Int, until : Int]

\* No quote outlives its validity, and one that is paid leaves the slippage.
QuoteInTime(q) == q \in PaymentQuote /\ q.until <= q.at + QuoteValidity
QuoteHonest(q) == QuoteInTime(q) /\ q.minimum >= Floor(q.expected)

\* The terms of a call to a contract are settled before it is sent.
AgentCallOK(k) ==
  /\ DOMAIN k = Fields
  /\ k.id \in Nat
  /\ k.at = "new" => k.op = "none" /\ k.tx = "none"
  /\ k.tx # "none" => k.at \in {"invoke", "done"}
  /\ k.op = "open" /\ k.tx = "executed" => k.value[1] \in Nat
  /\ k.op \in {"close", "pay", "route"} /\ (k.at # "done" \/ k.tx # "none") => k.id # 0
  /\ k.op \in {"route", "quote"} /\ k.at = "planning" => k.ledger \in Nat
  /\ k.op = "route" => k.floor \in Nat
  /\ k.op = "route" /\ (k.at = "invoke" \/ k.tx # "none") =>
       QuoteHonest(k.quote) /\ k.quote.minimum >= k.floor * Scale
  /\ k.op = "route" /\ k.tx = "executed" =>
       /\ k.value.received \in Nat /\ k.value.received * Scale >= k.quote.minimum
       /\ k.value.ledger \in Nat /\ k.value.ledger <= k.quote.until

AgentCallInTime(k, ledger) ==
  k.op = "job" /\ (k.at = "invoke" \/ k.tx # "none") =>
    k.ledger \in Nat /\ k.ledger <= ledger + Offset

AgentType ==
  /\ now \in Nat /\ price \in Nat /\ activeChannelId \in Nat
  /\ opened \in Seq(Nat) /\ channels \in Seq(AgentChannel) /\ jobs \in Seq(AgentJob)
  /\ DOMAIN call = Apps
  /\ \A q \in quotes : QuoteInTime(q)

AgentInv ==
  /\ AgentType
  /\ ActiveIsLatest
  /\ \A c \in Apps : AgentCallOK(call[c]) /\ AgentCallInTime(call[c], now)
  /\ \A i \in DOMAIN jobs : jobs[i].deadline - jobs[i].created \in 1..Offset

\* What is left to show of a step of one call.
LEMMA OneCallMoves ==
  ASSUME SoundAgents, AgentInv, NEW c \in Apps, NEW changes, Set(c, changes),
         AgentCallOK(call'[c]), AgentCallInTime(call'[c], now), UNCHANGED <<now, price>>
  PROVE  /\ DOMAIN call' = Apps
         /\ \A d \in Apps : AgentCallOK(call'[d]) /\ AgentCallInTime(call'[d], now')
<1>1. DOMAIN call' = Apps /\ \A d \in Apps \ {c} : call'[d] = call[d]
  BY DEF Set, AgentInv, AgentType
<1> QED
  BY <1>1 DEF AgentInv

LEMMA OneCallAlone ==
  ASSUME SoundAgents, AgentInv, NEW c \in Apps, NEW changes, Set(c, changes),
         AgentCallOK(call'[c]), AgentCallInTime(call'[c], now), UNCHANGED worldVars, OwnFields
  PROVE  AgentInv'
<1>1. /\ DOMAIN call' = Apps
      /\ \A d \in Apps : AgentCallOK(call'[d]) /\ AgentCallInTime(call'[d], now')
  BY OneCallMoves DEF worldVars
<1>2. AgentType'
  BY <1>1 DEF AgentInv, AgentType, worldVars, OwnFields, QuoteInTime
<1>3. ActiveIsLatest'
  BY DEF AgentInv, ActiveIsLatest, OwnFields
<1>4. (\A i \in DOMAIN jobs : jobs[i].deadline - jobs[i].created \in 1..Offset)'
  BY DEF AgentInv, worldVars
<1>5. (\A d \in Apps : AgentCallOK(call[d]) /\ AgentCallInTime(call[d], now))'
  BY <1>1 DEF AgentCallOK, AgentCallInTime, QuoteHonest, QuoteInTime, Floor
<1> QED
  BY <1>2, <1>3, <1>4, <1>5 DEF AgentInv

LEMMA CallBefore ==
  ASSUME AgentInv, NEW c \in Apps
  PROVE  AgentCallOK(call[c]) /\ AgentCallInTime(call[c], now)
         /\ DOMAIN call = Apps /\ DOMAIN call[c] = Fields
BY DEF AgentInv, AgentType, AgentCallOK

\* The fields a step sets, and those it leaves.
LEMMA FieldsSet ==
  ASSUME AgentInv, NEW c \in Apps, NEW changes, Set(c, changes)
  PROVE  /\ DOMAIN call'[c] = Fields
         /\ \A f \in Fields : call'[c][f] = IF f \in DOMAIN changes THEN changes[f]
                                            ELSE call[c][f]
BY CallBefore DEF Set

LEMMA BeginInv ==
  ASSUME SoundAgents, AgentInv, NEW c \in Apps, NEW id \in Nat, NEW op, NEW at,
         <<op, at>> \in {<<"open", "invoke">>, <<"close", "invoke">>, <<"pay", "invoke">>,
                         <<"quote", "latest">>, <<"job", "latest">>,
                         <<"report", "get_channel">>},
         Begin(c, op, at, id)
  PROVE  AgentInv'
<1>1. /\ AgentCallOK(call[c]) /\ DOMAIN call = Apps /\ DOMAIN call[c] = Fields
      /\ activeChannelId \in Nat
  BY CallBefore DEF AgentInv, AgentType
<1>2. call[c].tx = "none" /\ ChannelOr(id) \in Nat
  BY <1>1 DEF AgentCallOK, Begin, ChannelOr
<1>3. CASE op \in {"close", "pay", "route", "report"} /\ ChannelOr(id) = 0
  <2>1. Set(c, [op |-> op, at |-> "done", result |-> "NO_ACTIVE_CHANNEL"])
    BY <1>3 DEF Begin
  <2>2. /\ DOMAIN call'[c] = Fields /\ call'[c].op = op /\ call'[c].at = "done"
        /\ call'[c].id = call[c].id /\ call'[c].tx = call[c].tx
    BY <1>1, <2>1 DEF Set, Fields
  <2>3. AgentCallOK(call'[c]) /\ AgentCallInTime(call'[c], now)
    BY <1>1, <1>2, <1>3, <2>2 DEF AgentCallOK, AgentCallInTime
  <2> QED
    BY <2>1, <2>3, OneCallAlone DEF Begin
<1>4. CASE ~(op \in {"close", "pay", "route", "report"} /\ ChannelOr(id) = 0)
  <2>1. Set(c, [op |-> op, at |-> at, id |-> ChannelOr(id)])
    BY <1>4 DEF Begin
  <2>2. /\ DOMAIN call'[c] = Fields /\ call'[c].op = op /\ call'[c].at = at
        /\ call'[c].id = ChannelOr(id) /\ call'[c].tx = call[c].tx
    BY <1>1, <2>1 DEF Set, Fields
  <2>3. AgentCallOK(call'[c]) /\ AgentCallInTime(call'[c], now)
    BY <1>1, <1>2, <1>4, <2>2 DEF AgentCallOK, AgentCallInTime
  <2> QED
    BY <2>1, <2>3, OneCallAlone DEF Begin
<1> QED
  BY <1>3, <1>4

LEMMA PayRoutedInv ==
  ASSUME SoundAgents, AgentInv, NEW c \in Apps, NEW id \in Nat, NEW least \in Nat,
         PayRouted(c, id, least)
  PROVE  AgentInv'
<1> DEFINE changes == [op |-> "route", at |-> "latest", id |-> ChannelOr(id), floor |-> least]
<1>1. /\ AgentCallOK(call[c]) /\ DOMAIN call = Apps /\ DOMAIN call[c] = Fields
      /\ activeChannelId \in Nat
  BY CallBefore DEF AgentInv, AgentType
<1>2. call[c].tx = "none" /\ ChannelOr(id) \in Nat \ {0}
  BY <1>1 DEF AgentCallOK, PayRouted, ChannelOr
<1>3. Set(c, changes)
  BY DEF PayRouted
<1>4. /\ DOMAIN call'[c] = Fields /\ call'[c].op = "route" /\ call'[c].at = "latest"
      /\ call'[c].id = ChannelOr(id) /\ call'[c].tx = call[c].tx /\ call'[c].floor = least
  BY <1>1, <1>3 DEF Set, Fields
<1>5. AgentCallOK(call'[c]) /\ AgentCallInTime(call'[c], now)
  BY <1>1, <1>2, <1>4 DEF AgentCallOK, AgentCallInTime
<1> QED
  BY <1>3, <1>5, OneCallAlone DEF PayRouted

\* A call that ends without a transaction of its own.
LEMMA RejectInv ==
  ASSUME SoundAgents, AgentInv, NEW c \in Apps, NEW code, Reject(c, code),
         call[c].at # "new"
  PROVE  AgentCallOK(call'[c]) /\ AgentCallInTime(call'[c], now)
<1>1. /\ AgentCallOK(call[c]) /\ DOMAIN call = Apps /\ DOMAIN call[c] = Fields
      /\ AgentCallInTime(call[c], now)
  BY CallBefore
<1>2. /\ DOMAIN call'[c] = Fields /\ call'[c].at = "done" /\ call'[c].op = call[c].op
      /\ call'[c].id = call[c].id /\ call'[c].tx = call[c].tx
      /\ call'[c].floor = call[c].floor /\ call'[c].quote = call[c].quote
      /\ call'[c].value = call[c].value /\ call'[c].ledger = call[c].ledger
  BY <1>1 DEF Reject, Set, Fields
<1> QED
  BY <1>1, <1>2 DEF AgentCallOK, AgentCallInTime

LEMMA FailsInv ==
  ASSUME SoundAgents, AgentInv, NEW c \in Apps, Fails(c)
  PROVE  AgentInv'
BY RejectInv, OneCallAlone DEF Fails, Reject

LEMMA GetLatestLedgerInv ==
  ASSUME SoundAgents, AgentInv, NEW c \in Apps, GetLatestLedger(c)
  PROVE  AgentInv'
<1>1. /\ AgentCallOK(call[c]) /\ DOMAIN call = Apps /\ DOMAIN call[c] = Fields
      /\ now \in Nat /\ Offset \in Nat
  BY CallBefore DEF AgentInv, AgentType, SoundAgents
<1>2. call[c].at = "latest" /\ call[c].tx = "none" /\ call[c].op \in {"route", "quote", "job"}
  BY <1>1 DEF AgentCallOK, GetLatestLedger, InCall
<1>3. CASE call[c].op = "job"
  <2>1. Set(c, [at |-> "invoke", ledger |-> now + Offset])
    BY <1>3 DEF GetLatestLedger
  <2>2. /\ DOMAIN call'[c] = Fields /\ call'[c].op = "job" /\ call'[c].at = "invoke"
        /\ call'[c].id = call[c].id /\ call'[c].tx = "none"
        /\ call'[c].ledger = now + Offset
    BY <1>1, <1>2, <1>3, <2>1 DEF Set, Fields
  <2>3. AgentCallOK(call'[c]) /\ AgentCallInTime(call'[c], now)
    BY <1>1, <2>2 DEF AgentCallOK, AgentCallInTime
  <2> QED
    BY <2>1, <2>3, OneCallAlone DEF GetLatestLedger
<1>4. CASE call[c].op # "job"
  <2>1. Set(c, [at |-> "planning", ledger |-> now])
    BY <1>4 DEF GetLatestLedger
  <2>2. /\ DOMAIN call'[c] = Fields /\ call'[c].op = call[c].op /\ call'[c].at = "planning"
        /\ call'[c].id = call[c].id /\ call'[c].tx = "none"
        /\ call'[c].ledger = now /\ call'[c].floor = call[c].floor
    BY <1>1, <1>2, <2>1 DEF Set, Fields
  <2>3. AgentCallOK(call'[c]) /\ AgentCallInTime(call'[c], now)
    BY <1>1, <1>2, <1>4, <2>2 DEF AgentCallOK, AgentCallInTime
  <2> QED
    BY <2>1, <2>3, OneCallAlone DEF GetLatestLedger
<1> QED
  BY <1>3, <1>4

\* The slippage floor of any expectation is an amount.
LEMMA FloorIsAmount ==
  ASSUME SoundAgents, NEW expected \in Int
  PROVE  Floor(expected) \in Int
<1>1. Scale \in Int /\ SlippageBps \in Int
  BY DEF SoundAgents
<1>2. expected * Scale \in Int
  BY <1>1
<1>3. (expected * Scale) * (10000 - SlippageBps) \in Int
  BY <1>1, <1>2
<1> QED
  BY <1>3 DEF Floor

LEMMA FinishQuoteIsHonest ==
  ASSUME SoundAgents, NEW expected \in Int, NEW until \in Int, NEW ledger \in Int
  PROVE  /\ QuoteHonest(FinishQuote(expected, until, ledger))
         /\ FinishQuote(expected, until, ledger).minimum = Floor(expected)
<1> DEFINE q == FinishQuote(expected, until, ledger)
           default == ledger + QuoteValidity
<1>1. default \in Int /\ Floor(expected) \in Int
  BY FloorIsAmount DEF SoundAgents
<1> HIDE DEF default
<1>2. q = [expected |-> expected, minimum |-> Floor(expected), at |-> ledger,
           until |-> IF until # 0 /\ until < default THEN until ELSE default]
  BY DEF FinishQuote, default
<1>3. q.expected = expected /\ q.minimum = Floor(expected) /\ q.at = ledger
      /\ q.until \in Int /\ q.until <= default
  BY <1>1, <1>2
<1>4. q \in PaymentQuote
  BY <1>1, <1>2 DEF PaymentQuote
<1>5. q.minimum >= Floor(q.expected)
  BY <1>1, <1>3
<1> QED
  BY <1>3, <1>4, <1>5 DEF QuoteHonest, QuoteInTime, default

LEMMA FloorIsKept ==
  ASSUME SoundAgents, NEW q, QuoteHonest(q), NEW floor \in Nat
  PROVE  /\ QuoteHonest(WithFloor(q, floor))
         /\ WithFloor(q, floor).minimum >= floor * Scale
<1> DEFINE least == floor * Scale
           k == WithFloor(q, floor)
<1>1. least \in Int /\ q \in PaymentQuote /\ Floor(q.expected) \in Int
  BY FloorIsAmount DEF SoundAgents, QuoteHonest, QuoteInTime, PaymentQuote
<1>2. k = IF least > q.minimum THEN [q EXCEPT !.minimum = least] ELSE q
  BY DEF WithFloor
<1> HIDE DEF least, k
<1>3. k \in PaymentQuote /\ k.expected = q.expected /\ k.at = q.at /\ k.until = q.until
      /\ k.minimum >= q.minimum /\ k.minimum >= least
  BY <1>1, <1>2 DEF PaymentQuote
<1>4. Floor(k.expected) = Floor(q.expected)
  BY <1>3
<1>5. k.minimum \in Int /\ q.minimum \in Int
  BY <1>1, <1>3 DEF PaymentQuote
<1>6. k.minimum >= Floor(k.expected)
  BY <1>1, <1>3, <1>4, <1>5 DEF QuoteHonest
<1>7. QuoteHonest(k)
  BY <1>3, <1>6 DEF QuoteHonest, QuoteInTime
<1> QED
  BY <1>3, <1>7 DEF least, k

LEMMA ExecuteKeeps ==
  ASSUME SoundAgents, AgentInv, NEW c \in Apps, NEW q, QuoteHonest(q),
         InCall(c, "route", "planning"), Execute(c, q), OwnFields, UNCHANGED worldVars
  PROVE  AgentInv'
<1> DEFINE terms == WithFloor(q, call[c].floor)
<1>1. /\ AgentCallOK(call[c]) /\ DOMAIN call = Apps /\ DOMAIN call[c] = Fields
      /\ call[c].op = "route" /\ call[c].at = "planning"
  BY CallBefore DEF InCall
<1>2. call[c].tx = "none" /\ call[c].floor \in Nat /\ call[c].id # 0
  BY <1>1 DEF AgentCallOK
<1>3. Set(c, [at |-> "invoke", quote |-> terms])
  BY DEF Execute
<1>4. QuoteHonest(terms) /\ terms.minimum >= call[c].floor * Scale
  BY <1>2, FloorIsKept
<1> HIDE DEF terms
<1>5. /\ DOMAIN call'[c] = Fields /\ call'[c].op = "route" /\ call'[c].at = "invoke"
      /\ call'[c].id = call[c].id /\ call'[c].tx = "none"
      /\ call'[c].floor = call[c].floor /\ call'[c].quote = terms
  BY <1>1, <1>2, <1>3 DEF Set, Fields
<1>6. AgentCallOK(call'[c]) /\ AgentCallInTime(call'[c], now)
  BY <1>1, <1>2, <1>4, <1>5 DEF AgentCallOK, AgentCallInTime
<1> QED
  BY <1>3, <1>6, OneCallAlone

LEMMA PlanningLedger ==
  ASSUME AgentInv, NEW c \in Apps, NEW op \in {"route", "quote"}, InCall(c, op, "planning")
  PROVE  call[c].ledger \in Nat
BY CallBefore DEF AgentCallOK, InCall

LEMMA PlanRouteInv ==
  ASSUME SoundAgents, AgentInv, NEW c \in Apps, PlanRoute(c)
  PROVE  AgentInv'
<1>1. price \in Int /\ call[c].ledger \in Int /\ 0 \in Int
  BY PlanningLedger DEF AgentInv, AgentType, PlanRoute
<1>2. QuoteHonest(FinishQuote(price, 0, call[c].ledger))
  <2> DEFINE none == 0
             ledger == call[c].ledger
  <2>1. none \in Int /\ ledger \in Int
    BY <1>1
  <2> HIDE DEF none, ledger
  <2>2. QuoteHonest(FinishQuote(price, none, ledger))
    BY <1>1, <2>1, FinishQuoteIsHonest
  <2> QED
    BY <2>2 DEF none, ledger
<1> QED
  BY <1>2, ExecuteKeeps DEF PlanRoute

LEMMA OverrideRouteInv ==
  ASSUME SoundAgents, AgentInv, NEW c \in Apps, NEW expected \in Int, NEW until \in Int,
         OverrideRoute(c, expected, until)
  PROVE  AgentInv'
<1>1. call[c].ledger \in Int /\ call[c].at # "new"
  BY PlanningLedger DEF OverrideRoute, InCall
<1>2. QuoteHonest(FinishQuote(expected, until, call[c].ledger))
  BY <1>1, FinishQuoteIsHonest
<1>3. CASE Reject(c, "QUOTE_EXPIRED")
  BY <1>1, <1>3, RejectInv, OneCallAlone DEF OverrideRoute, Reject
<1>4. CASE Execute(c, FinishQuote(expected, until, call[c].ledger))
  BY <1>2, <1>4, ExecuteKeeps DEF OverrideRoute
<1> QED
  BY <1>3, <1>4 DEF OverrideRoute

LEMMA ReviewedQuoteInv ==
  ASSUME SoundAgents, AgentInv, NEW c \in Apps, NEW q, QuoteInTime(q), ReviewedQuote(c, q)
  PROVE  AgentInv'
<1>1. call[c].ledger \in Int /\ call[c].at # "new" /\ q \in PaymentQuote
  BY PlanningLedger DEF ReviewedQuote, InCall, QuoteInTime
<1>2. FinishQuote(q.expected, q.until, call[c].ledger).minimum = Floor(q.expected)
      /\ Floor(q.expected) \in Int /\ q.minimum \in Int
  BY <1>1, FinishQuoteIsHonest, FloorIsAmount DEF PaymentQuote
<1>3. CASE Reject(c, "QUOTE_EXPIRED") \/ Reject(c, "INVALID_ROUTE_OVERRIDE")
  BY <1>1, <1>3, RejectInv, OneCallAlone DEF ReviewedQuote, Reject
<1>4. CASE Execute(c, q) /\ ~(q.minimum < Floor(q.expected))
  <2>1. QuoteHonest(q)
    BY <1>2, <1>4 DEF QuoteHonest
  <2> QED
    BY <1>4, <2>1, ExecuteKeeps DEF ReviewedQuote
<1> QED
  BY <1>2, <1>3, <1>4 DEF ReviewedQuote

LEMMA QuoteFoundInv ==
  ASSUME SoundAgents, AgentInv, NEW c \in Apps, QuoteFound(c)
  PROVE  AgentInv'
<1> DEFINE q == FinishQuote(price, 0, call[c].ledger)
<1>1. price \in Int /\ call[c].ledger \in Int /\ call[c].at # "new"
  BY PlanningLedger DEF AgentInv, AgentType, QuoteFound, InCall
<1>2. QuoteInTime(q)
  BY <1>1, FinishQuoteIsHonest DEF QuoteHonest
<1>3. /\ quotes' = quotes \cup {q} /\ Reject(c, "success")
      /\ UNCHANGED <<activeChannelId, opened, closed, worldVars>>
  BY DEF QuoteFound
<1> HIDE DEF q
<1>4. AgentCallOK(call'[c]) /\ AgentCallInTime(call'[c], now)
  BY <1>1, <1>3, RejectInv
<1>5. /\ DOMAIN call' = Apps
      /\ \A d \in Apps : AgentCallOK(call'[d]) /\ AgentCallInTime(call'[d], now')
  BY <1>3, <1>4, OneCallMoves DEF worldVars, Reject
<1>6. \A p \in quotes' : QuoteInTime(p)
  BY <1>2, <1>3 DEF AgentInv, AgentType
<1>7. AgentType'
  BY <1>3, <1>5, <1>6 DEF AgentInv, AgentType, worldVars, QuoteInTime
<1>8. ActiveIsLatest'
  BY <1>3 DEF AgentInv, ActiveIsLatest
<1>9. (\A i \in DOMAIN jobs : jobs[i].deadline - jobs[i].created \in 1..Offset)'
  BY <1>3 DEF AgentInv, worldVars
<1>10. (\A d \in Apps : AgentCallOK(call[d]) /\ AgentCallInTime(call[d], now))'
  BY <1>5 DEF AgentCallOK, AgentCallInTime, QuoteHonest, QuoteInTime, Floor
<1> QED
  BY <1>7, <1>8, <1>9, <1>10 DEF AgentInv

LEMMA ReadChannelInv ==
  ASSUME SoundAgents, AgentInv, NEW c \in Apps, ReadChannel(c)
  PROVE  AgentInv'
<1>1. /\ AgentCallOK(call[c]) /\ DOMAIN call = Apps /\ DOMAIN call[c] = Fields
      /\ call[c].op = "report" /\ call[c].at = "get_channel"
      /\ Set(c, [at |-> "remaining", value |-> channels[call[c].id]])
  BY CallBefore DEF ReadChannel, InCall
<1>2. /\ DOMAIN call'[c] = Fields /\ call'[c].op = "report" /\ call'[c].at = "remaining"
      /\ call'[c].id = call[c].id /\ call'[c].tx = call[c].tx
  BY <1>1 DEF Set, Fields
<1>3. AgentCallOK(call'[c]) /\ AgentCallInTime(call'[c], now)
  BY <1>1, <1>2 DEF AgentCallOK, AgentCallInTime
<1> QED
  BY <1>1, <1>3, OneCallAlone DEF ReadChannel

LEMMA ReadRemainingInv ==
  ASSUME SoundAgents, AgentInv, NEW c \in Apps, ReadRemaining(c)
  PROVE  AgentInv'
<1> DEFINE report == [spent |-> call[c].value.spent,
                      remaining |-> Limit - channels[call[c].id].spent,
                      start |-> call[c].value.start, ledger |-> now]
<1>1. /\ AgentCallOK(call[c]) /\ DOMAIN call = Apps /\ DOMAIN call[c] = Fields
      /\ call[c].op = "report" /\ call[c].at = "remaining"
  BY CallBefore DEF ReadRemaining, InCall
<1>2. Set(c, [at |-> "done", result |-> "success", value |-> report])
  BY DEF ReadRemaining
<1> HIDE DEF report
<1>3. /\ DOMAIN call'[c] = Fields /\ call'[c].op = "report" /\ call'[c].at = "done"
      /\ call'[c].id = call[c].id /\ call'[c].tx = call[c].tx
  BY <1>1, <1>2 DEF Set, Fields
<1>4. AgentCallOK(call'[c]) /\ AgentCallInTime(call'[c], now)
  BY <1>1, <1>3 DEF AgentCallOK, AgentCallInTime
<1> QED
  BY <1>2, <1>4, OneCallAlone DEF ReadRemaining

LEMMA PredictInv ==
  ASSUME SoundAgents, AgentInv, NEW c \in Apps, NEW id \in Nat, NEW configured \in BOOLEAN,
         Predict(c, id, configured)
  PROVE  AgentInv'
<1>1. /\ AgentCallOK(call[c]) /\ DOMAIN call = Apps /\ DOMAIN call[c] = Fields
      /\ call[c].at = "new" /\ ChannelOr(id) \in Nat
  BY CallBefore DEF Predict, AgentInv, AgentType, ChannelOr
<1>2. call[c].tx = "none"
  BY <1>1 DEF AgentCallOK
<1>3. CASE configured
  <2>1. Set(c, [op |-> "predict", at |-> "done", result |-> "TypeError"])
    BY <1>3 DEF Predict
  <2>2. /\ DOMAIN call'[c] = Fields /\ call'[c].op = "predict" /\ call'[c].at = "done"
        /\ call'[c].id = call[c].id /\ call'[c].tx = "none"
    BY <1>1, <1>2, <2>1 DEF Set, Fields
  <2>3. AgentCallOK(call'[c]) /\ AgentCallInTime(call'[c], now)
    BY <1>1, <2>2 DEF AgentCallOK, AgentCallInTime
  <2> QED
    BY <2>1, <2>3, OneCallAlone DEF Predict
<1>4. CASE ~configured
  <2>1. PICK prediction : Set(c, [op |-> "predict", at |-> "done", id |-> ChannelOr(id),
                                  result |-> "success", value |-> prediction])
    BY <1>4 DEF Predict
  <2>2. /\ DOMAIN call'[c] = Fields /\ call'[c].op = "predict" /\ call'[c].at = "done"
        /\ call'[c].id = ChannelOr(id) /\ call'[c].tx = "none"
    BY <1>1, <1>2, <2>1 DEF Set, Fields
  <2>3. AgentCallOK(call'[c]) /\ AgentCallInTime(call'[c], now)
    BY <1>1, <2>2 DEF AgentCallOK, AgentCallInTime
  <2> QED
    BY <2>1, <2>3, OneCallAlone DEF Predict
<1> QED
  BY <1>3, <1>4

LEMMA TimesOutInv ==
  ASSUME SoundAgents, AgentInv, NEW c \in Apps, TimesOut(c)
  PROVE  AgentInv'
<1> DEFINE tx == IF call[c].tx = "none" THEN "sent" ELSE call[c].tx
<1>1. /\ AgentCallOK(call[c]) /\ DOMAIN call = Apps /\ DOMAIN call[c] = Fields
      /\ call[c].at = "invoke" /\ AgentCallInTime(call[c], now)
  BY CallBefore DEF TimesOut
<1>2. Set(c, [at |-> "done", result |-> "TRANSACTION_TIMEOUT", tx |-> tx])
  BY DEF TimesOut
<1>3. tx # "none" /\ (tx = "executed" <=> call[c].tx = "executed")
  OBVIOUS
<1> HIDE DEF tx
<1>4. /\ DOMAIN call'[c] = Fields /\ call'[c].at = "done" /\ call'[c].op = call[c].op
      /\ call'[c].id = call[c].id /\ call'[c].tx = tx
      /\ call'[c].floor = call[c].floor /\ call'[c].quote = call[c].quote
      /\ call'[c].value = call[c].value /\ call'[c].ledger = call[c].ledger
  BY <1>1, <1>2 DEF Set, Fields
<1>5. AgentCallOK(call'[c])
  BY <1>1, <1>3, <1>4 DEF AgentCallOK
<1>6. AgentCallInTime(call'[c], now)
  BY <1>1, <1>4 DEF AgentCallInTime
<1> QED
  BY <1>2, <1>5, <1>6, OneCallAlone DEF TimesOut

\* A transaction of a call is executed, and leaves sound channels and jobs.
LEMMA ExecutedInv ==
  ASSUME SoundAgents, AgentInv, NEW c \in Apps, NEW value, Includable(c), Executed(c, value),
         call[c].op = "open" => value[1] \in Nat,
         call[c].op = "route" =>
           /\ value.received \in Nat /\ value.received * Scale >= call[c].quote.minimum
           /\ value.ledger \in Nat /\ value.ledger <= call[c].quote.until,
         channels' \in Seq(AgentChannel), jobs' \in Seq(AgentJob),
         \A i \in DOMAIN jobs' : jobs'[i].deadline - jobs'[i].created \in 1..Offset
  PROVE  AgentInv'
<1>1. /\ AgentCallOK(call[c]) /\ DOMAIN call = Apps /\ DOMAIN call[c] = Fields
      /\ AgentCallInTime(call[c], now)
  BY CallBefore
<1>2. Set(c, [tx |-> "executed", value |-> value]) /\ OwnFields /\ UNCHANGED <<price, now>>
  BY DEF Executed
<1>3. call[c].at \in {"invoke", "done"} /\ (call[c].at = "invoke" \/ call[c].tx # "none")
  BY <1>1 DEF AgentCallOK, Includable
<1>4. /\ DOMAIN call'[c] = Fields /\ call'[c].at = call[c].at /\ call'[c].op = call[c].op
      /\ call'[c].id = call[c].id /\ call'[c].tx = "executed"
      /\ call'[c].floor = call[c].floor /\ call'[c].quote = call[c].quote
      /\ call'[c].value = value /\ call'[c].ledger = call[c].ledger
  BY <1>1, <1>2 DEF Set, Fields
<1>5. AgentCallOK(call'[c])
  BY <1>1, <1>3, <1>4 DEF AgentCallOK
<1>6. AgentCallInTime(call'[c], now)
  BY <1>1, <1>3, <1>4 DEF AgentCallInTime
<1>7. /\ DOMAIN call' = Apps
      /\ \A d \in Apps : AgentCallOK(call'[d]) /\ AgentCallInTime(call'[d], now')
  BY <1>2, <1>5, <1>6, OneCallMoves
<1>8. AgentType'
  BY <1>2, <1>7 DEF AgentInv, AgentType, OwnFields, QuoteInTime
<1>9. ActiveIsLatest'
  BY <1>2 DEF AgentInv, ActiveIsLatest, OwnFields
<1>10. (\A d \in Apps : AgentCallOK(call[d]) /\ AgentCallInTime(call[d], now))'
  BY <1>7 DEF AgentCallOK, AgentCallInTime, QuoteHonest, QuoteInTime, Floor
<1> QED
  BY <1>8, <1>9, <1>10 DEF AgentInv

LEMMA ExecuteOpenInv ==
  ASSUME SoundAgents, AgentInv, NEW c \in Apps, ExecuteOpen(c)
  PROVE  AgentInv'
<1> DEFINE fresh == [open |-> TRUE, spent |-> 0, start |-> now]
<1>1. /\ channels \in Seq(AgentChannel) /\ jobs \in Seq(AgentJob) /\ now \in Nat
      /\ \A i \in DOMAIN jobs : jobs[i].deadline - jobs[i].created \in 1..Offset
  BY DEF AgentInv, AgentType
<1>2. fresh \in AgentChannel
  BY <1>1 DEF AgentChannel
<1>3. channels' = Append(channels, fresh) /\ jobs' = jobs /\ call[c].op = "open"
      /\ Includable(c) /\ Executed(c, <<Len(channels) + 1>>)
  BY DEF ExecuteOpen
<1> HIDE DEF fresh
<1>4. channels' \in Seq(AgentChannel) /\ Len(channels) + 1 \in Nat
  BY <1>1, <1>2, <1>3
<1>5. <<Len(channels) + 1>>[1] \in Nat
  BY <1>4
<1> QED
  BY <1>1, <1>3, <1>4, <1>5, ExecutedInv

LEMMA ChannelStays ==
  ASSUME channels \in Seq(AgentChannel), NEW id \in 1..Len(channels), NEW n \in AgentChannel,
         channels' = [channels EXCEPT ![id] = n]
  PROVE  channels' \in Seq(AgentChannel)
OBVIOUS

LEMMA SpendsFacts ==
  ASSUME SoundAgents, AgentInv, NEW id \in 1..Len(channels), Spends(id)
  PROVE  channels' \in Seq(AgentChannel)
<1> DEFINE channel == channels[id]
           spent == IF Rolled(channel) THEN 0 ELSE channel.spent
           start == IF Rolled(channel) THEN now ELSE channel.start
           rolled == [channel EXCEPT !.spent = spent, !.start = start]
           spend == Amount * Scale
           paid == [rolled EXCEPT !.spent = @ + spend]
<1>1. channels \in Seq(AgentChannel) /\ now \in Nat /\ channel \in AgentChannel
  BY DEF AgentInv, AgentType
<1>2. spend \in Int
  BY DEF SoundAgents, Amount
<1>3. channels' = [channels EXCEPT ![id] = paid]
  BY DEF Spends
<1> HIDE DEF spend, channel
<1>4. spent \in Int /\ start \in Int
  BY <1>1 DEF AgentChannel
<1> HIDE DEF spent, start
<1>5. rolled \in AgentChannel
  BY <1>1, <1>4 DEF AgentChannel
<1> HIDE DEF rolled
<1>6. paid \in AgentChannel
  BY <1>2, <1>5 DEF AgentChannel
<1> HIDE DEF paid
<1> QED
  BY <1>1, <1>3, <1>6, ChannelStays

LEMMA SentId ==
  ASSUME AgentInv, NEW c \in Apps, Includable(c), call[c].op \in {"close", "pay", "route"},
         call[c].id <= Len(channels)
  PROVE  call[c].id \in 1..Len(channels)
BY CallBefore DEF AgentCallOK, AgentInv, AgentType, Includable

LEMMA ExecuteCloseInv ==
  ASSUME SoundAgents, AgentInv, NEW c \in Apps, ExecuteClose(c)
  PROVE  AgentInv'
<1> DEFINE id == call[c].id
           shut == [channels[id] EXCEPT !.open = FALSE]
<1>1. /\ channels \in Seq(AgentChannel) /\ jobs \in Seq(AgentJob)
      /\ \A i \in DOMAIN jobs : jobs[i].deadline - jobs[i].created \in 1..Offset
      /\ id \in 1..Len(channels)
  BY SentId DEF AgentInv, AgentType, ExecuteClose
<1>2. channels' = [channels EXCEPT ![id] = shut] /\ jobs' = jobs /\ call[c].op = "close"
      /\ Includable(c) /\ Executed(c, <<>>)
  BY DEF ExecuteClose
<1> HIDE DEF id
<1>3. channels[id] \in AgentChannel
  BY <1>1
<1>4. shut \in AgentChannel
  BY <1>3 DEF AgentChannel
<1> HIDE DEF shut
<1>5. channels' \in Seq(AgentChannel)
  BY <1>1, <1>2, <1>4, ChannelStays
<1> QED
  BY <1>1, <1>2, <1>5, ExecutedInv

LEMMA ExecutePayInv ==
  ASSUME SoundAgents, AgentInv, NEW c \in Apps, ExecutePay(c)
  PROVE  AgentInv'
<1>1. /\ channels \in Seq(AgentChannel) /\ jobs \in Seq(AgentJob)
      /\ \A i \in DOMAIN jobs : jobs[i].deadline - jobs[i].created \in 1..Offset
      /\ call[c].id \in 1..Len(channels)
  BY SentId DEF AgentInv, AgentType, ExecutePay
<1>2. Spends(call[c].id) /\ jobs' = jobs /\ call[c].op = "pay"
      /\ Includable(c) /\ Executed(c, <<>>)
  BY DEF ExecutePay
<1>3. channels' \in Seq(AgentChannel)
  BY <1>1, <1>2, SpendsFacts
<1> QED
  BY <1>1, <1>2, <1>3, ExecutedInv

LEMMA ExecuteRouteInv ==
  ASSUME SoundAgents, AgentInv, NEW c \in Apps, ExecuteRoute(c)
  PROVE  AgentInv'
<1> DEFINE receipt == [received |-> price, ledger |-> now]
<1>1. /\ channels \in Seq(AgentChannel) /\ jobs \in Seq(AgentJob)
      /\ price \in Nat /\ now \in Nat
      /\ \A i \in DOMAIN jobs : jobs[i].deadline - jobs[i].created \in 1..Offset
      /\ call[c].id \in 1..Len(channels)
  BY SentId DEF AgentInv, AgentType, ExecuteRoute
<1>2. /\ Spends(call[c].id) /\ jobs' = jobs /\ call[c].op = "route"
      /\ Includable(c) /\ Executed(c, receipt)
      /\ now <= call[c].quote.until /\ price * Scale >= call[c].quote.minimum
  BY DEF ExecuteRoute
<1>3. channels' \in Seq(AgentChannel)
  BY <1>1, <1>2, SpendsFacts
<1>4. receipt.received = price /\ receipt.ledger = now
  OBVIOUS
<1> HIDE DEF receipt
<1>5. /\ receipt.received \in Nat /\ receipt.received * Scale >= call[c].quote.minimum
      /\ receipt.ledger \in Nat /\ receipt.ledger <= call[c].quote.until
  BY <1>1, <1>2, <1>4
<1> QED
  BY <1>1, <1>2, <1>3, <1>5, ExecutedInv

LEMMA ExecuteJobInv ==
  ASSUME SoundAgents, AgentInv, NEW c \in Apps, ExecuteJob(c)
  PROVE  AgentInv'
<1> DEFINE job == [deadline |-> call[c].ledger, created |-> now]
<1>1. /\ channels \in Seq(AgentChannel) /\ jobs \in Seq(AgentJob) /\ now \in Nat
      /\ \A i \in DOMAIN jobs : jobs[i].deadline - jobs[i].created \in 1..Offset
      /\ Offset \in Nat
  BY DEF AgentInv, AgentType, SoundAgents
<1>2. /\ jobs' = Append(jobs, job) /\ channels' = channels /\ call[c].op = "job"
      /\ Includable(c) /\ Executed(c, <<Len(jobs) + 1>>) /\ call[c].ledger > now
  BY DEF ExecuteJob
<1>3. call[c].at = "invoke" \/ call[c].tx # "none"
  BY <1>2 DEF Includable
<1>4. call[c].ledger \in Nat /\ call[c].ledger <= now + Offset
  BY <1>2, <1>3, CallBefore DEF AgentCallInTime
<1>5. job \in AgentJob /\ job.deadline - job.created \in 1..Offset
  BY <1>1, <1>2, <1>4 DEF AgentJob
<1> HIDE DEF job
<1>6. jobs' \in Seq(AgentJob)
  BY <1>1, <1>2, <1>5
<1>7. ASSUME NEW i \in DOMAIN jobs' PROVE jobs'[i].deadline - jobs'[i].created \in 1..Offset
  <2>1. CASE i \in DOMAIN jobs
    <3>1. jobs'[i] = jobs[i]
      BY <1>1, <1>2, <2>1
    <3> QED
      BY <1>1, <2>1, <3>1
  <2>2. CASE i \notin DOMAIN jobs
    <3>1. jobs'[i] = job
      BY <1>1, <1>2, <1>7, <2>2
    <3> QED
      BY <1>5, <3>1
  <2> QED
    BY <2>1, <2>2
<1> QED
  BY <1>1, <1>2, <1>6, <1>7, ExecutedInv

LEMMA ResolveInv ==
  ASSUME SoundAgents, AgentInv, NEW c \in Apps, Resolve(c)
  PROVE  AgentInv'
<1> DEFINE id == call[c].id
           new == call[c].value[1]
<1>1. /\ AgentCallOK(call[c]) /\ call[c].at = "invoke" /\ call[c].tx = "executed"
      /\ Reject(c, "success") /\ UNCHANGED <<quotes, worldVars>>
      /\ opened \in Seq(Nat) /\ activeChannelId \in Nat /\ ActiveIsLatest
  BY CallBefore DEF Resolve, AgentInv, AgentType
<1>2. AgentCallOK(call'[c]) /\ AgentCallInTime(call'[c], now)
  BY <1>1, RejectInv
<1>3. /\ DOMAIN call' = Apps
      /\ \A d \in Apps : AgentCallOK(call'[d]) /\ AgentCallInTime(call'[d], now')
  BY <1>1, <1>2, OneCallMoves DEF worldVars, Reject
<1>4. activeChannelId' \in Nat /\ opened' \in Seq(Nat) /\ ActiveIsLatest'
  <2>1. CASE call[c].op = "open"
    <3>1. new \in Nat
      BY <1>1, <2>1 DEF AgentCallOK
    <3>2. activeChannelId' = new /\ opened' = Append(opened, new)
      BY <2>1 DEF Resolve
    <3> HIDE DEF new
    <3>3. opened' \in Seq(Nat) /\ opened' # <<>> /\ opened'[Len(opened')] = new
      BY <1>1, <3>1, <3>2
    <3> QED
      BY <3>1, <3>2, <3>3 DEF ActiveIsLatest
  <2>2. CASE call[c].op = "close"
    <3>1. /\ activeChannelId' = IF activeChannelId = id THEN 0 ELSE activeChannelId
          /\ closed' = closed \cup {id} /\ opened' = opened
      BY <2>2 DEF Resolve
    <3> HIDE DEF id
    <3>2. activeChannelId' \in Nat /\ opened' \in Seq(Nat)
      BY <1>1, <3>1
    <3> QED
      BY <1>1, <3>1, <3>2 DEF ActiveIsLatest
  <2>3. CASE call[c].op \notin {"open", "close"}
    <3>1. UNCHANGED <<activeChannelId, opened, closed>>
      BY <2>3 DEF Resolve
    <3> QED
      BY <1>1, <3>1 DEF ActiveIsLatest
  <2> QED
    BY <2>1, <2>2, <2>3
<1>5. AgentType'
  BY <1>1, <1>3, <1>4 DEF AgentInv, AgentType, worldVars, QuoteInTime
<1>6. (\A i \in DOMAIN jobs : jobs[i].deadline - jobs[i].created \in 1..Offset)'
  BY <1>1 DEF AgentInv, worldVars
<1>7. (\A d \in Apps : AgentCallOK(call[d]) /\ AgentCallInTime(call[d], now))'
  BY <1>3 DEF AgentCallOK, AgentCallInTime, QuoteHonest, QuoteInTime, Floor
<1> QED
  BY <1>4, <1>5, <1>6, <1>7 DEF AgentInv

LEMMA CloseLedgerKeeps ==
  ASSUME SoundAgents, AgentInv, CloseLedger
  PROVE  AgentInv'
<1>1. /\ now \in Nat /\ now' = now + 1 /\ price' \in Nat /\ Offset \in Nat
      /\ UNCHANGED <<activeChannelId, call, opened, closed, quotes, channels, jobs>>
  BY DEF CloseLedger, SoundAgents, AgentInv, AgentType, agentVars
<1>2. AgentType' /\ ActiveIsLatest'
  BY <1>1 DEF AgentInv, AgentType, ActiveIsLatest, QuoteInTime
<1>3. \A c \in Apps : AgentCallOK(call[c])'
  BY <1>1 DEF AgentInv, AgentCallOK, QuoteHonest, QuoteInTime, Floor
<1>4. ASSUME NEW c \in Apps PROVE AgentCallInTime(call[c], now)'
  BY <1>1 DEF AgentInv, AgentCallInTime
<1> QED
  BY <1>1, <1>2, <1>3, <1>4 DEF AgentInv

LEMMA AgentInvHolds ==
  ASSUME SoundAgents
  PROVE  ApiSpec => []AgentInv
<1>1. ApiInit => AgentInv
  <2> SUFFICES ASSUME ApiInit PROVE AgentInv
    OBVIOUS
  <2>1. AgentType
    BY DEF ApiInit, AgentType, SoundAgents
  <2>2. ActiveIsLatest /\ \A i \in DOMAIN jobs : jobs[i].deadline - jobs[i].created \in 1..Offset
    BY DEF ApiInit, ActiveIsLatest
  <2>3. AgentCallOK(NewCall) /\ AgentCallInTime(NewCall, now)
    BY DEF NewCall, AgentCallOK, AgentCallInTime, Fields
  <2> QED
    BY <2>1, <2>2, <2>3 DEF ApiInit, AgentInv
<1>2. AgentInv /\ [ApiNext]_apiVars => AgentInv'
  <2> SUFFICES ASSUME AgentInv, [ApiNext]_apiVars PROVE AgentInv'
    OBVIOUS
  <2>1. CASE UNCHANGED apiVars
    <3>1. UNCHANGED <<activeChannelId, call, opened, closed, quotes, channels, jobs, price, now>>
      BY <2>1 DEF apiVars, agentVars, worldVars
    <3>2. AgentType' /\ ActiveIsLatest'
      BY <3>1 DEF AgentInv, AgentType, ActiveIsLatest, QuoteInTime
    <3>3. ASSUME NEW c \in Apps PROVE AgentCallOK(call[c])' /\ AgentCallInTime(call[c], now)'
      <4>1. AgentCallOK(call[c]) /\ AgentCallInTime(call[c], now)
        BY CallBefore
      <4>2. AgentCallOK(call[c])'
        BY <3>1, <4>1 DEF AgentCallOK, QuoteHonest, QuoteInTime, Floor
      <4> QED
        BY <3>1, <4>1, <4>2 DEF AgentCallInTime
    <3> QED
      BY <3>1, <3>2, <3>3 DEF AgentInv
  <2>2. CASE CloseLedger
    BY <2>2, CloseLedgerKeeps
  <2>3. ASSUME NEW c \in Apps, Ask(c) PROVE AgentInv'
    <3>1. Ids \subseteq Nat /\ Price \cup {0} \subseteq Nat
      BY DEF Ids, SoundAgents, AgentInv, AgentType
    <3>2. CASE OpenChannel(c) \/ Quote(c) \/ RequestWork(c)
      BY <3>2, BeginInv DEF OpenChannel, Quote, RequestWork
    <3>3. ASSUME NEW id \in Ids, CloseChannel(c, id) \/ PayForAPI(c, id) \/ GetSpendReport(c, id)
          PROVE  AgentInv'
      BY <3>1, <3>3, BeginInv DEF CloseChannel, PayForAPI, GetSpendReport
    <3>4. ASSUME NEW id \in Ids, NEW least \in Price \cup {0}, PayRouted(c, id, least)
          PROVE  AgentInv'
      BY <3>1, <3>4, PayRoutedInv
    <3>5. ASSUME NEW id \in Ids, NEW configured \in BOOLEAN, Predict(c, id, configured)
          PROVE  AgentInv'
      BY <3>1, <3>5, PredictInv
    <3> QED
      BY <2>3, <3>2, <3>3, <3>4, <3>5 DEF Ask
  <2>4. ASSUME NEW c \in Apps, ApiStep(c) PROVE AgentInv'
    <3>1. CASE GetLatestLedger(c) \/ PlanRoute(c) \/ QuoteFound(c)
      BY <3>1, GetLatestLedgerInv, PlanRouteInv, QuoteFoundInv
    <3>2. CASE ReadChannel(c) \/ ReadRemaining(c) \/ Resolve(c) \/ Fails(c) \/ TimesOut(c)
      BY <3>2, ReadChannelInv, ReadRemainingInv, ResolveInv, FailsInv, TimesOutInv
    <3>3. CASE \E q \in quotes :
                 ReviewedQuote(c, q) \/ ReviewedQuote(c, [q EXCEPT !.minimum = @ - 1])
      <4> PICK q \in quotes :
            ReviewedQuote(c, q) \/ ReviewedQuote(c, [q EXCEPT !.minimum = @ - 1])
        BY <3>3
      <4> DEFINE less == [q EXCEPT !.minimum = @ - 1]
      <4>1. QuoteInTime(q)
        BY DEF AgentInv, AgentType
      <4>2. less \in PaymentQuote /\ less.until = q.until /\ less.at = q.at
        BY <4>1 DEF QuoteInTime, PaymentQuote
      <4>3. QuoteInTime(less)
        BY <4>1, <4>2 DEF QuoteInTime
      <4> QED
        BY <4>1, <4>3, ReviewedQuoteInv
    <3>4. CASE \E expected \in Price, until \in {0, now} : OverrideRoute(c, expected, until)
      <4> PICK expected \in Price, until \in {0, now} : OverrideRoute(c, expected, until)
        BY <3>4
      <4>1. expected \in Int /\ until \in Int
        BY DEF SoundAgents, AgentInv, AgentType
      <4> QED
        BY <4>1, OverrideRouteInv
    <3> QED
      BY <2>4, <3>1, <3>2, <3>3, <3>4 DEF ApiStep
  <2>5. ASSUME NEW c \in Apps, Transaction(c) PROVE AgentInv'
    BY <2>5, ExecuteOpenInv, ExecuteCloseInv, ExecutePayInv, ExecuteRouteInv, ExecuteJobInv
       DEF Transaction
  <2> QED
    BY <2>1, <2>2, <2>3, <2>4, <2>5 DEF ApiNext
<1> QED
  BY <1>1, <1>2, PTL DEF ApiSpec

(* The active channel is the one whose openChannel resolved last, unless   *)
(* the agent closed that one, however many calls of however many           *)
(* applications overlap (StellarAgent.openChannel, closeChannel).          *)
THEOREM ActiveChannelIsLatest ==
  ASSUME SoundAgents
  PROVE  ApiSpec => []ActiveIsLatest
<1>1. AgentInv => ActiveIsLatest
  BY DEF AgentInv
<1> QED
  BY <1>1, AgentInvHolds, PTL

LEMMA ScaleCancels ==
  ASSUME NEW x \in Int, NEW y \in Int, NEW s \in Nat \ {0}, x * s >= y * s
  PROVE  x >= y
<1> SUFFICES ASSUME y - x >= 1 PROVE FALSE
  OBVIOUS
<1>1. (y - x) * s = y * s - x * s
  OBVIOUS
<1>2. PICK d \in Nat : y - x = d + 1
  <2>1. y - x - 1 \in Nat
    OBVIOUS
  <2> QED
    BY <2>1
<1>3. (d + 1) * s = d * s + s /\ d * s \in Nat
  OBVIOUS
<1>4. x * s \in Int /\ y * s \in Int
  OBVIOUS
<1> QED
  BY <1>1, <1>2, <1>3, <1>4

(* Whatever the payment bought, at whatever price and after however many   *)
(* ledgers: no less than the caller asked for, no less than the slippage   *)
(* leaves of the quote, and within its validity; and every job has the     *)
(* time it was asked for with (RoutePlanner.finishQuote, payForAPI,        *)
(* requestWork).                                                           *)
THEOREM PaymentsKeepTheirTerms ==
  ASSUME SoundAgents
  PROVE  ApiSpec => []TermsAreKept
<1>1. AgentInv => TermsAreKept
  <2> SUFFICES ASSUME AgentInv PROVE TermsAreKept
    OBVIOUS
  <2>1. ASSUME NEW c \in Apps, call[c].op = "route", call[c].tx = "executed"
        PROVE  LET q == call[c].quote IN
               /\ call[c].value.received >= call[c].floor
               /\ call[c].value.received * Scale >= Floor(q.expected)
               /\ call[c].value.ledger <= q.at + QuoteValidity
    <3> DEFINE q == call[c].quote
               received == call[c].value.received
               ledger == call[c].value.ledger
               least == call[c].floor
    <3>1. /\ received \in Nat /\ received * Scale >= q.minimum
          /\ ledger \in Nat /\ ledger <= q.until /\ least \in Nat
          /\ QuoteHonest(q) /\ q.minimum >= least * Scale
      BY <2>1, CallBefore DEF AgentCallOK
    <3> HIDE DEF received, ledger, least, q
    <3>2. /\ q.minimum \in Int /\ q.expected \in Int /\ q.until \in Int /\ q.at \in Int
          /\ q.minimum >= Floor(q.expected) /\ q.until <= q.at + QuoteValidity
          /\ Scale \in Nat \ {0} /\ QuoteValidity \in Nat
      BY <3>1 DEF QuoteHonest, QuoteInTime, PaymentQuote, SoundAgents
    <3>3. Floor(q.expected) \in Int /\ received * Scale \in Int /\ least * Scale \in Int
      BY <3>1, <3>2, FloorIsAmount
    <3>4. received * Scale >= Floor(q.expected) /\ received * Scale >= least * Scale
      BY <3>1, <3>2, <3>3
    <3>5. received >= least
      BY <3>1, <3>2, <3>4, ScaleCancels
    <3>6. ledger <= q.at + QuoteValidity
      BY <3>1, <3>2
    <3> QED
      BY <3>4, <3>5, <3>6 DEF received, ledger, least, q
  <2> QED
    BY <2>1 DEF AgentInv, TermsAreKept
<1> QED
  BY <1>1, AgentInvHolds, PTL

-----------------------------------------------------------------------------
(* The fee strategy.                                                       *)

\* What the bounds and the multiplier make of a fee is a fee within them.
LEMMA BidsAreBounded ==
    ASSUME FeeAssumption, NEW fee \in Nat
    PROVE  /\ ClampToContext(Bounded(fee)) \in Nat
           /\ ClampToContext(Bounded(fee)) >= BaseFee
           /\ ClampToContext(Bounded(fee)) <= IF BaseFee > MaximumFee THEN BaseFee ELSE MaximumFee
<1>1. /\ BaseFee \in Nat /\ MinimumFee \in Nat /\ MaximumFee \in Nat /\ MinimumFee <= MaximumFee
  BY DEF FeeAssumption
<1>. QED BY <1>1 DEF ClampToContext, Bounded

LEMMA NetworkBidsAreBounded ==
    ASSUME FeeAssumption, NEW fee \in Nat
    PROVE  /\ FromNetwork(fee) \in Nat
           /\ FromNetwork(fee) >= BaseFee
           /\ FromNetwork(fee) <= IF BaseFee > MaximumFee THEN BaseFee ELSE MaximumFee
<1>1. Percent \in Nat
  BY DEF FeeAssumption
<1>2. fee * Percent \in Nat
  BY <1>1
<1>3. MultiplyCeil(fee) \in Nat
  BY <1>2 DEF MultiplyCeil
<1>. QED BY <1>3, BidsAreBounded DEF FromNetwork

\* How far back the statistics may lie when a bid rests on them: what is kept
\* was made less than a request's time before it arrived, and a request is
\* answered or given up within that time.
BidIsFair(a) ==
    /\ a.at \in {"idle", "waiting", "done"}
    /\ a.at = "done" =>
         /\ a.time \in Nat /\ a.time <= clock /\ a.seen \in Nat \cup {-1} /\ a.fee \in Nat
         /\ a.fee >= BaseFee
         /\ a.fee <= IF BaseFee > MaximumFee THEN BaseFee ELSE MaximumFee
         /\ a.seen = -1 => a.fee = Fallback
         /\ a.seen # -1 => a.time - a.seen < CacheTime + LoadTime \/ a.time - a.seen <= LoadTime

FeeInv ==
    /\ clock \in Nat
    /\ cached.expires \in Nat /\ cached.fee \in Nat \ {0} /\ cached.seen \in Nat
    /\ cached.expires > 0 => cached.expires <= cached.seen + CacheTime + LoadTime
    /\ pending.on \in BOOLEAN
    /\ pending.on => pending.since \in Nat /\ pending.since <= clock /\ clock <= pending.since + LoadTime
    /\ DOMAIN ask = Askers
    /\ \A c \in Askers : BidIsFair(ask[c])

LEMMA FeeInitInv == ASSUME FeeAssumption, FeeInit PROVE FeeInv
<1>1. BaseFee \in Nat \ {0}
  BY DEF FeeAssumption
<1>. QED BY <1>1 DEF FeeInit, FeeInv, BidIsFair, NoRequest, Unasked

LEMMA FeeNextInv ==
    ASSUME FeeAssumption, SoundTimes, FeeInv, [FeeNext]_feeVars
    PROVE  FeeInv'
<1>. USE FeeAssumption, SoundTimes
<1>0. /\ CacheTime \in Nat /\ LoadTime \in Nat /\ BaseFee \in Nat /\ FallbackFee \in Nat
      /\ Congestion \subseteq Nat \ {0}
  BY DEF SoundTimes, FeeAssumption
<1>1. ASSUME NEW c \in Askers, GetFee(c) PROVE FeeInv'
  <2>1. CASE cached.expires > clock
    <3>1. /\ ask' = [ask EXCEPT ![c] = Bid(FromNetwork(cached.fee), cached.seen)]
          /\ UNCHANGED <<clock, cached, pending>>
      BY <1>1, <2>1 DEF GetFee
    <3>2. clock - cached.seen < CacheTime + LoadTime
      BY <2>1, <1>0 DEF FeeInv
    <3>3. /\ FromNetwork(cached.fee) \in Nat /\ FromNetwork(cached.fee) >= BaseFee
          /\ FromNetwork(cached.fee) <= IF BaseFee > MaximumFee THEN BaseFee ELSE MaximumFee
      BY NetworkBidsAreBounded DEF FeeInv
    <3>4. BidIsFair(Bid(FromNetwork(cached.fee), cached.seen))
      BY <3>2, <3>3 DEF BidIsFair, Bid, FeeInv
    <3>5. \A d \in Askers : BidIsFair(ask'[d])
      BY <3>1, <3>4 DEF FeeInv
    <3>. QED BY <3>1, <3>5 DEF FeeInv, BidIsFair
  <2>2. CASE ~(cached.expires > clock)
    <3>1. /\ ask' = [ask EXCEPT ![c] = [Unasked EXCEPT !.at = "waiting"]]
          /\ pending' = IF pending.on THEN pending ELSE [on |-> TRUE, since |-> clock]
          /\ UNCHANGED <<clock, cached>>
      BY <1>1, <2>2 DEF GetFee
    <3>2. BidIsFair([Unasked EXCEPT !.at = "waiting"])
      BY DEF BidIsFair, Unasked
    <3>3. \A d \in Askers : BidIsFair(ask'[d])
      BY <3>1, <3>2 DEF FeeInv
    <3>4. /\ pending'.on \in BOOLEAN /\ pending'.since \in Nat /\ pending'.since <= clock
          /\ clock <= pending'.since + LoadTime
      <4>1. CASE pending.on
        BY <4>1, <3>1 DEF FeeInv
      <4>2. CASE ~pending.on
        <5>1. pending' = [on |-> TRUE, since |-> clock]
          BY <4>2, <3>1
        <5>. QED BY <5>1, <1>0 DEF FeeInv
      <4>. QED BY <4>1, <4>2
    <3>. QED BY <3>1, <3>3, <3>4 DEF FeeInv, BidIsFair
  <2>. QED BY <2>1, <2>2
<1>2. CASE Loaded
  <2>1. PICK fee \in Congestion, seen \in pending.since..clock :
          /\ cached' = [expires |-> clock + CacheTime, fee |-> fee, seen |-> seen]
          /\ ask' = [c \in Askers |-> IF ask[c].at = "waiting" THEN Bid(FromNetwork(fee), seen) ELSE ask[c]]
    BY <1>2 DEF Loaded
  <2>2. pending.on /\ pending' = NoRequest /\ clock' = clock
    BY <1>2 DEF Loaded
  <2>3. /\ seen \in Nat /\ seen <= clock /\ clock <= seen + LoadTime /\ clock \in Nat
        /\ fee \in Nat \ {0}
    BY <2>2, <1>0 DEF FeeInv
  <2>4. /\ FromNetwork(fee) \in Nat /\ FromNetwork(fee) >= BaseFee
        /\ FromNetwork(fee) <= IF BaseFee > MaximumFee THEN BaseFee ELSE MaximumFee
    BY <2>3, NetworkBidsAreBounded
  <2>5. BidIsFair(Bid(FromNetwork(fee), seen))
    BY <2>3, <2>4, <1>0 DEF BidIsFair, Bid
  <2>6. \A d \in Askers : BidIsFair(ask'[d])
    BY <2>1, <2>5 DEF FeeInv
  <2>7. /\ cached'.expires \in Nat /\ cached'.fee \in Nat \ {0} /\ cached'.seen \in Nat
        /\ cached'.expires <= cached'.seen + CacheTime + LoadTime
    BY <2>1, <2>3, <1>0
  <2>. QED BY <2>1, <2>2, <2>6, <2>7 DEF FeeInv, BidIsFair, NoRequest
<1>3. CASE LoadFails
  <2>1. /\ pending' = NoRequest /\ UNCHANGED <<clock, cached>>
        /\ ask' = [c \in Askers |-> IF ask[c].at = "waiting" THEN Bid(Fallback, -1) ELSE ask[c]]
    BY <1>3 DEF LoadFails
  <2>2. /\ Fallback \in Nat /\ Fallback >= BaseFee
        /\ Fallback <= IF BaseFee > MaximumFee THEN BaseFee ELSE MaximumFee
    BY <1>0, BidsAreBounded DEF Fallback
  <2>3. BidIsFair(Bid(Fallback, -1))
    BY <2>2, <1>0 DEF BidIsFair, Bid, FeeInv
  <2>4. \A d \in Askers : BidIsFair(ask'[d])
    BY <2>1, <2>3 DEF FeeInv
  <2>. QED BY <2>1, <2>4 DEF FeeInv, BidIsFair, NoRequest
<1>4. CASE Pass
  <2>1. /\ pending.on => clock < pending.since + LoadTime
        /\ clock' = clock + 1 /\ UNCHANGED <<cached, pending, ask>>
    BY <1>4 DEF Pass
  <2>2. \A d \in Askers : BidIsFair(ask[d])'
    BY <2>1 DEF FeeInv, BidIsFair
  <2>3. /\ pending.on => pending.since \in Nat /\ pending.since <= clock' /\ clock' <= pending.since + LoadTime
        /\ clock' \in Nat
    BY <2>1, <1>0 DEF FeeInv
  <2>. QED BY <2>1, <2>2, <2>3 DEF FeeInv
<1>5. CASE UNCHANGED feeVars
  BY <1>5 DEF feeVars, FeeInv, BidIsFair
<1>. QED BY <1>1, <1>2, <1>3, <1>4, <1>5 DEF FeeNext

\* For any askers, fees, bounds, multiplier and times: a bid of the recent-fee
\* strategy rests on statistics no older than their cache time and one
\* request's time, however many callers share them, and is within the bounds.
THEOREM BidsAreRecent ==
    ASSUME FeeAssumption, SoundTimes
    PROVE  FeeSpec => []FeeIsRecent
<1>1. FeeInit => FeeInv
  BY FeeInitInv
<1>2. FeeInv /\ [FeeNext]_feeVars => FeeInv'
  BY FeeNextInv
<1>3. FeeInv => FeeIsRecent
  <2>. SUFFICES ASSUME FeeInv, NEW c \in Askers, ask[c].at = "done"
       PROVE  /\ ask[c].fee >= BaseFee
              /\ ask[c].fee <= IF BaseFee > MaximumFee THEN BaseFee ELSE MaximumFee
              /\ IF ask[c].seen = -1 THEN ask[c].fee = Fallback
                 ELSE ask[c].time - ask[c].seen < CacheTime + LoadTime \/ ask[c].time - ask[c].seen <= LoadTime
    BY DEF FeeIsRecent
  <2>1. BidIsFair(ask[c])
    BY DEF FeeInv
  <2>. QED BY <2>1 DEF BidIsFair
<1>. QED BY <1>1, <1>2, <1>3, PTL DEF FeeSpec
=============================================================================
