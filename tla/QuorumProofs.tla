---------------------------- MODULE QuorumProofs ----------------------------
(***************************************************************************)
(* Where k of n have to agree, for any k, any n and any bounds: the        *)
(* proposals of the governance contract, the administration of the payment *)
(* channel and of the escrow, and the transactions that several holders    *)
(* sign and submit.                                                        *)
(***************************************************************************)
EXTENDS Governance, AdminQuorum, Cosigning, SequenceTheorems, FiniteSetTheorems, TLAPS

-----------------------------------------------------------------------------
(* The governance contract.                                                *)

(* The length of an Approvals list, which execute compares with the        *)
(* threshold, is the number of distinct addresses that approved, and the   *)
(* stored eta is the one that the completing vote is owed.                 *)
Tallied ==
  \A p \in Ids :
    /\ approvals[p] = Cardinality(voters[p])
    /\ ready[p] = proposals[p].eta

Inv == TypeOK /\ Governable /\ Tallied

(* t is s, a list of n members of S, with one more entry v at its end.     *)
IsExtension(t, s, n, v, S) ==
  /\ t \in [1..n + 1 -> S]
  /\ t[n + 1] = v
  /\ \A i \in 1..n : t[i] = s[i]

LEMMA Extend ==
  ASSUME NEW S, NEW n \in Nat, NEW s \in [1..n -> S], NEW v \in S
  PROVE  IsExtension(Append(s, v), s, n, v, S)
<1>1. s \in Seq(S)
  BY SeqDef
<1>2. Len(s) = n
  BY <1>1, LenProperties
<1>3. /\ Append(s, v) \in Seq(S)
      /\ Len(Append(s, v)) = n + 1
      /\ \A i \in 1..n : Append(s, v)[i] = s[i]
      /\ Append(s, v)[n + 1] = v
  BY <1>1, <1>2, AppendProperties
<1>4. Append(s, v) \in [1..n + 1 -> S]
  BY <1>3, LenProperties
<1> QED
  BY <1>3, <1>4 DEF IsExtension

LEMMA ProposalsType ==
  ASSUME Inv
  PROVE  /\ proposals \in Seq(Proposal)
         /\ Len(proposals) \in Nat
         /\ Ids = 1..Len(proposals)
         /\ \A p \in Ids : proposals[p] \in Proposal
BY LenProperties, ElementOfSeq DEF Inv, TypeOK, Ids

LEMMA InitInv == Init => Inv
<1> SUFFICES ASSUME Init PROVE Inv
  OBVIOUS
<1>1. Ids = {}
  BY DEF Init, Ids
<1>2. IsFiniteSet(config.owners) /\ Cardinality(config.owners) \in Nat
  BY GovernanceAssumption, FS_Subset, FS_CardinalityType DEF Init
<1>3. config \in Config /\ Governable
  <2>1. /\ config \in [owners : SUBSET Accounts,
                       threshold : 1..Cardinality(Accounts),
                       timelock : Timelocks, ttl : Ttls]
        /\ ValidOwners(config.owners, config.threshold)
        /\ config.timelock < config.ttl
    BY DEF Init
  <2>2. Timelocks \subseteq Nat /\ Ttls \subseteq Nat
    BY GovernanceAssumption
  <2>3. config.threshold \in 1..Cardinality(config.owners)
    BY <2>1 DEF ValidOwners
  <2>4. config \in Config
    <3>1. config.threshold \in Nat
      BY <1>2, <2>3
    <3>2. config.timelock \in Nat /\ config.ttl \in Nat
      BY <2>1, <2>2
    <3> QED
      BY <2>1, <3>1, <3>2 DEF Config
  <2> QED
    BY <2>1, <2>3, <2>4 DEF Governable
<1>4. TypeOK
  BY <1>1, <1>3 DEF Init, TypeOK, Ids
<1>5. Tallied
  BY <1>1 DEF Tallied
<1> QED
  BY <1>3, <1>4, <1>5 DEF Inv

LEMMA ProposeInv ==
  ASSUME Inv, NEW owner \in Accounts, NEW request \in Requests,
         Propose(owner, request)
  PROVE  /\ Inv'
         /\ Ids \subseteq Ids'
         /\ \A p \in Ids : proposals'[p] = proposals[p]
<1> DEFINE n == Len(proposals)
           eta == IF 1 >= config.threshold THEN ledger + config.timelock
                  ELSE Never
           new == [proposer |-> owner, request |-> request,
                   status |-> IF 1 >= config.threshold THEN "Approved"
                              ELSE "Pending",
                   created |-> ledger, eta |-> eta]
<1>1. n \in Nat /\ Ids = 1..n
  BY ProposalsType
<1>2. eta \in Nat /\ new \in Proposal
  BY DEF Inv, TypeOK, Config, Proposal, Never
<1>3. /\ proposals' = Append(proposals, new)
      /\ approvals' = Append(approvals, 1)
      /\ voters' = Append(voters, {owner})
      /\ ready' = Append(ready, eta)
      /\ UNCHANGED <<ledger, config>>
  BY DEF Propose
<1> HIDE DEF new, eta
<1>4. /\ proposals' \in Seq(Proposal)
      /\ Ids' = 1..n + 1
      /\ proposals'[n + 1] = new
      /\ \A p \in 1..n : proposals'[p] = proposals[p]
  BY <1>1, <1>2, <1>3, AppendProperties, LenProperties, ProposalsType DEF Ids
<1> HIDE DEF n
<1>5. IsExtension(approvals', approvals, n, 1, Nat)
  <2>1. approvals \in [1..n -> Nat] /\ 1 \in Nat
    BY <1>1 DEF Inv, TypeOK
  <2> QED
    BY <1>1, <1>3, <2>1, Extend
<1>6. IsExtension(voters', voters, n, {owner}, SUBSET Accounts)
  <2>1. {owner} \in SUBSET Accounts /\ voters \in [1..n -> SUBSET Accounts]
    BY <1>1 DEF Inv, TypeOK
  <2> QED
    BY <1>1, <1>3, <2>1, Extend
<1>7. IsExtension(ready', ready, n, eta, Nat)
  <2>1. ready \in [1..n -> Nat]
    BY <1>1 DEF Inv, TypeOK
  <2> QED
    BY <1>1, <1>2, <1>3, <2>1, Extend
<1>8. TypeOK' /\ Governable'
  BY <1>3, <1>4, <1>5, <1>6, <1>7 DEF Inv, TypeOK, Governable, IsExtension
<1>9. Tallied'
  <2>1. ASSUME NEW p \in 1..n + 1
        PROVE  /\ approvals'[p] = Cardinality(voters'[p])
               /\ ready'[p] = proposals'[p].eta
    <3>1. CASE p = n + 1
      <4>1. Cardinality({owner}) = 1
        BY FS_Singleton
      <4>2. new.eta = eta
        BY DEF new
      <4> QED
        BY <1>1, <1>4, <1>5, <1>6, <1>7, <3>1, <4>1, <4>2 DEF IsExtension
    <3>2. CASE p # n + 1
      <4>1. p \in 1..n
        BY <1>1, <3>2
      <4> QED
        BY <1>1, <1>4, <1>5, <1>6, <1>7, <4>1 DEF Inv, Tallied, IsExtension
    <3> QED
      BY <3>1, <3>2
  <2> QED
    BY <1>4, <2>1 DEF Tallied
<1> QED
  BY <1>1, <1>4, <1>8, <1>9 DEF Inv

(* A stored proposal is replaced by another.                               *)
LEMMA ReplaceProposal ==
  ASSUME Inv, NEW p \in Ids, NEW new \in Proposal,
         proposals' = [proposals EXCEPT ![p] = new]
  PROVE  /\ proposals' \in Seq(Proposal)
         /\ Ids' = Ids
         /\ proposals'[p] = new
         /\ \A q \in Ids : q # p => proposals'[q] = proposals[q]
<1>1. p \in 1..Len(proposals)
  BY ProposalsType
<1> QED
  BY <1>1, ProposalsType, ExceptSeq, LenProperties DEF Ids

LEMMA ApproveInv ==
  ASSUME Inv, NEW owner \in Accounts, NEW p \in Ids, Approve(owner, p)
  PROVE  /\ Inv'
         /\ Ids' = Ids
         /\ \A q \in Ids : \/ proposals'[q].status = proposals[q].status
                           \/ /\ proposals[q].status # "Executed"
                              /\ proposals'[q].status # "Executed"
<1> DEFINE count == approvals[p] + 1
           everyone == voters[p] \cup {owner}
           eta == ledger + config.timelock
           isFirst == count >= config.threshold /\ proposals[p].eta = Never
           new == IF isFirst
                  THEN [proposals[p] EXCEPT !.status = "Approved", !.eta = eta]
                  ELSE proposals[p]
<1>1. proposals[p] \in Proposal
  BY ProposalsType
<1>2. eta \in Nat /\ new \in Proposal
  <2>1. eta \in Nat
    BY DEF Inv, TypeOK, Config
  <2> HIDE DEF eta, isFirst
  <2> QED
    BY <1>1, <2>1 DEF Proposal
<1>3. proposals' = [proposals EXCEPT ![p] = new]
  <2>1. proposals' = IF isFirst
          THEN [proposals EXCEPT ![p].status = "Approved", ![p].eta = eta]
          ELSE proposals
    BY DEF Approve
  <2>2. proposals = [proposals EXCEPT ![p] = proposals[p]]
    BY DEF Inv, TypeOK, Ids
  <2> QED
    BY <2>1, <2>2
<1>4. /\ approvals' = [approvals EXCEPT ![p] = count]
      /\ voters' = [voters EXCEPT ![p] = everyone]
      /\ ready' = IF ready[p] = Never /\ Cardinality(everyone) >= config.threshold
                  THEN [ready EXCEPT ![p] = eta] ELSE ready
      /\ UNCHANGED <<ledger, config>>
      /\ proposals[p].status \in {"Pending", "Approved"}
      /\ owner \notin voters[p]
  BY DEF Approve
<1>5. /\ proposals' \in Seq(Proposal)
      /\ Ids' = Ids
      /\ proposals'[p] = new
      /\ \A q \in Ids : q # p => proposals'[q] = proposals[q]
  BY <1>2, <1>3, ReplaceProposal
<1>6. count = Cardinality(everyone)
  <2>1. IsFiniteSet(voters[p])
    BY GovernanceAssumption, FS_Subset DEF Inv, TypeOK
  <2>2. approvals[p] = Cardinality(voters[p])
    BY DEF Inv, Tallied
  <2>3. Cardinality(voters[p] \cup {owner}) = Cardinality(voters[p]) + 1
    BY <1>4, <2>1, FS_AddElement
  <2> QED
    BY <2>2, <2>3
<1>7. ready'[p] = new.eta
  <2>1. ready[p] = proposals[p].eta /\ ready[p] \in Nat
    BY DEF Inv, Tallied, TypeOK
  <2>2. isFirst => new.eta = eta
    BY <1>1 DEF Proposal
  <2>3. ~isFirst => new.eta = proposals[p].eta
    OBVIOUS
  <2>4. isFirst <=> ready[p] = Never /\ Cardinality(everyone) >= config.threshold
    BY <1>6, <2>1
  <2>5. ready \in [Ids -> Nat]
    BY DEF Inv, TypeOK
  <2> HIDE DEF isFirst, new, eta, everyone
  <2>6. CASE isFirst
    BY <1>4, <2>2, <2>4, <2>5, <2>6
  <2>7. CASE ~isFirst
    BY <1>4, <2>1, <2>3, <2>4, <2>7
  <2> QED
    BY <2>6, <2>7
<1>8. new.status = proposals[p].status \/ new.status = "Approved"
  BY <1>1 DEF Proposal
<1> HIDE DEF new, eta, everyone, count
<1>9. /\ approvals' \in [Ids -> Nat]
      /\ voters' \in [Ids -> SUBSET Accounts]
      /\ ready' \in [Ids -> Nat]
  BY <1>2, <1>4 DEF Inv, TypeOK, count, everyone
<1>10. TypeOK' /\ Governable'
  BY <1>4, <1>5, <1>9 DEF Inv, TypeOK, Governable
<1>11. Tallied'
  <2>1. approvals'[p] = Cardinality(voters'[p])
    BY <1>4, <1>6 DEF Inv, TypeOK
  <2>2. \A q \in Ids : q # p => /\ approvals'[q] = approvals[q]
                                /\ voters'[q] = voters[q]
                                /\ ready'[q] = ready[q]
    BY <1>4 DEF Inv, TypeOK
  <2> QED
    BY <1>5, <1>7, <2>1, <2>2 DEF Inv, Tallied
<1> QED
  BY <1>4, <1>5, <1>8, <1>10, <1>11 DEF Inv

(* Execution and cancellation change a status and no tally.                *)
LEMMA StatusInv ==
  ASSUME Inv, NEW p \in Ids, NEW status \in {"Executed", "Cancelled"},
         proposals' = [proposals EXCEPT ![p].status = status],
         UNCHANGED <<ledger, approvals, voters, ready>>,
         config' \in Config, Governable'
  PROVE  /\ Inv'
         /\ Ids' = Ids
         /\ proposals'[p].status = status
         /\ \A q \in Ids : q # p => proposals'[q] = proposals[q]
<1> DEFINE new == [proposals[p] EXCEPT !.status = status]
<1>1. proposals[p] \in Proposal
  BY ProposalsType
<1>2. /\ new \in Proposal
      /\ new.eta = proposals[p].eta
      /\ new.status = status
  BY <1>1 DEF Proposal
<1>3. proposals' = [proposals EXCEPT ![p] = new]
  OBVIOUS
<1> HIDE DEF new
<1>4. /\ proposals' \in Seq(Proposal)
      /\ Ids' = Ids
      /\ proposals'[p] = new
      /\ \A q \in Ids : q # p => proposals'[q] = proposals[q]
  BY <1>2, <1>3, ReplaceProposal
<1>5. TypeOK'
  BY <1>4 DEF Inv, TypeOK
<1>6. Tallied'
  BY <1>2, <1>4 DEF Inv, Tallied
<1> QED
  BY <1>2, <1>4, <1>5, <1>6 DEF Inv

(* Whatever execute_internal_action accepts keeps the contract governable. *)
LEMMA Reconfiguration ==
  ASSUME Inv, NEW request \in Requests, Accepts(request),
         config' = Reconfigured(request)
  PROVE  config' \in Config /\ Governable'
<1>1. request \in AllRequests /\ Timelocks \subseteq Nat /\ Ttls \subseteq Nat
  BY GovernanceAssumption
<1>2. config \in Config /\ Governable
  BY DEF Inv, TypeOK
<1>3. CASE request.action = "rotate_owners"
  <2>1. request.owners \in SUBSET Accounts /\ request.threshold \in Nat
    BY <1>1, <1>3 DEF AllRequests
  <2>2. config' = [config EXCEPT !.owners = request.owners,
                                 !.threshold = request.threshold]
    BY <1>3 DEF Reconfigured
  <2>3. request.threshold \in 1..Cardinality(request.owners)
    BY <1>3 DEF Accepts, ValidOwners
  <2> QED
    BY <1>2, <2>1, <2>2, <2>3 DEF Config, Governable
<1>4. CASE request.action = "set_timelock"
  <2>1. request.delay \in Nat /\ request.delay < config.ttl
    BY <1>1, <1>4 DEF AllRequests, Accepts
  <2>2. config' = [config EXCEPT !.timelock = request.delay]
    BY <1>4 DEF Reconfigured
  <2> QED
    BY <1>2, <2>1, <2>2 DEF Config, Governable
<1>5. CASE request.action = "set_proposal_ttl"
  <2>1. request.ttl \in Nat /\ request.ttl > config.timelock
    BY <1>1, <1>5 DEF AllRequests, Accepts
  <2>2. config' = [config EXCEPT !.ttl = request.ttl]
    BY <1>5 DEF Reconfigured
  <2> QED
    BY <1>2, <2>1, <2>2 DEF Config, Governable
<1>6. CASE request.action \notin {"rotate_owners", "set_timelock",
                                  "set_proposal_ttl"}
  BY <1>2, <1>6 DEF Reconfigured, Governable
<1> QED
  BY <1>3, <1>4, <1>5, <1>6

LEMMA ExecuteInv ==
  ASSUME Inv, NEW p \in Ids, Execute(p)
  PROVE  /\ Inv'
         /\ Ids' = Ids
         /\ proposals[p].status # "Executed"
         /\ \A q \in Ids : q # p => proposals'[q] = proposals[q]
<1>1. proposals[p].request \in Requests
  BY ProposalsType DEF Proposal
<1>2. config' \in Config /\ Governable'
  BY <1>1, Reconfiguration DEF Execute
<1> QED
  BY <1>2, StatusInv DEF Execute, MayExecute

LEMMA CancelInv ==
  ASSUME Inv, NEW caller \in Accounts, NEW p \in Ids, Cancel(caller, p)
  PROVE  /\ Inv'
         /\ Ids' = Ids
         /\ proposals[p].status # "Executed"
         /\ proposals'[p].status = "Cancelled"
         /\ \A q \in Ids : q # p => proposals'[q] = proposals[q]
<1>1. config' \in Config /\ Governable'
  BY DEF Cancel, Cancelled, Inv, TypeOK, Governable
<1> QED
  BY <1>1, StatusInv DEF Cancel, Cancelled

LEMMA IdleInv ==
  ASSUME Inv, CloseLedger \/ UNCHANGED vars
  PROVE  Inv' /\ proposals' = proposals /\ Ids' = Ids
<1>1. ledger' \in Nat \ {0}
  BY DEF CloseLedger, vars, Inv, TypeOK
<1>2. UNCHANGED <<config, proposals, approvals, voters, ready>>
  BY DEF CloseLedger, vars
<1> QED
  BY <1>1, <1>2 DEF Inv, TypeOK, Governable, Tallied, Ids

LEMMA NextInv == Inv /\ [Next]_vars => Inv'
<1> SUFFICES ASSUME Inv, [Next]_vars PROVE Inv'
  OBVIOUS
<1> QED
  BY ProposeInv, ApproveInv, ExecuteInv, CancelInv, IdleInv
     DEF Next, Approve, Execute, Cancel

THEOREM InvHolds == Spec => []Inv
BY InitInv, NextInv, PTL DEF Spec

(* Rotations and changed delays never leave a contract that its owners     *)
(* cannot govern any more.                                                 *)
THEOREM StaysGovernable == Spec => []Governable
<1>1. Inv => Governable
  BY DEF Inv
<1> QED
  BY <1>1, InvHolds, PTL

LEMMA StepExecutes ==
  ASSUME Inv, [Next]_vars, NEW p \in Ids
  PROVE  /\ Executes(p) => Execute(p)
         /\ proposals[p].status = "Executed" => proposals'[p].status = "Executed"
<1>1. CASE \E a \in Accounts, request \in Requests : Propose(a, request)
  BY <1>1, ProposeInv DEF Executes
<1>2. CASE \E a \in Accounts, q \in Ids : Approve(a, q)
  BY <1>2, ApproveInv DEF Executes
<1>3. CASE \E a \in Accounts, q \in Ids : Cancel(a, q)
  BY <1>3, CancelInv DEF Executes
<1>4. CASE \E q \in Ids : Execute(q)
  BY <1>4, ExecuteInv DEF Executes
<1>5. CASE CloseLedger \/ UNCHANGED vars
  BY <1>5, IdleInv DEF Executes
<1> QED
  BY <1>1, <1>2, <1>3, <1>4, <1>5 DEF Next

(* Key invariants 1 to 3 of the contract, for any rotation of the owners,  *)
(* the threshold and the delays in between.                                *)
THEOREM ExecutionNeedsQuorum == Spec => ExecutedWithQuorum
<1>1. ASSUME Inv, [Next]_vars, NEW p \in Ids, Executes(p)
      PROVE  /\ Cardinality(voters[p]) >= config.threshold
             /\ ready[p] # Never /\ ledger >= ready[p]
             /\ ledger <= proposals[p].created + config.ttl
  <2>1. Execute(p)
    BY <1>1, StepExecutes
  <2>2. /\ approvals[p] >= config.threshold
        /\ proposals[p].eta # Never
        /\ ledger >= proposals[p].eta
        /\ ~(ledger > proposals[p].created + config.ttl)
    BY <2>1 DEF Execute, MayExecute, IsExpired
  <2>3. approvals[p] = Cardinality(voters[p]) /\ ready[p] = proposals[p].eta
    BY <1>1 DEF Inv, Tallied
  <2>4. /\ ledger \in Nat
        /\ config.ttl \in Nat
        /\ proposals[p].created \in Nat
    BY <1>1, ProposalsType DEF Inv, TypeOK, Config, Proposal
  <2> QED
    BY <2>2, <2>3, <2>4
<1>2. Inv /\ [Next]_vars =>
        [\A p \in Ids : Executes(p) =>
           /\ Cardinality(voters[p]) >= config.threshold
           /\ ready[p] # Never /\ ledger >= ready[p]
           /\ ledger <= proposals[p].created + config.ttl]_vars
  BY <1>1
<1> QED
  BY <1>2, InvHolds, PTL DEF Spec, ExecutedWithQuorum

(* Key invariant 4: an executed proposal is never executed again.          *)
THEOREM ExecutionIsFinal == Spec => ExecutedOnce
<1>1. Inv /\ [Next]_vars =>
        [\A p \in Ids : proposals[p].status = "Executed" =>
           proposals'[p].status = "Executed"]_vars
  BY StepExecutes
<1> QED
  BY <1>1, InvHolds, PTL DEF Spec, ExecutedOnce

-----------------------------------------------------------------------------
(* The administration of the channel and of the escrow.                    *)

AdminTypeOK ==
  /\ adminLedger \in Nat /\ proposable \in BOOLEAN
  /\ multisig \in [owners : Seq(Admins), threshold : Nat, window : Nat]
  /\ proposedAt \in [Subjects -> [Admins -> Nat \cup {NotProposed}]]
  /\ fresh \in [Subjects -> SUBSET Admins]

\* Every proposal that is kept is one since the last switch it counted for;
\* a threshold above one has owners; without proposals of a configuration
\* there are none.
AdminInv ==
  /\ AdminTypeOK
  /\ \A s \in Subjects : \A a \in Admins :
       proposedAt[s][a] # NotProposed => a \in fresh[s]
  /\ multisig.threshold > 1 => multisig.owners # <<>>
  /\ proposable = FALSE =>
       \A a \in Admins : proposedAt["configuration"][a] = NotProposed

LEMMA OwnersAreListed ==
  ASSUME AdminTypeOK
  PROVE  /\ Len(multisig.owners) \in Nat
         /\ DOMAIN multisig.owners = 1..Len(multisig.owners)
         /\ \A i \in DOMAIN multisig.owners : multisig.owners[i] \in Admins
         /\ multisig.threshold \in Nat
<1>1. multisig.owners \in Seq(Admins) /\ multisig.threshold \in Nat
  BY DEF AdminTypeOK
<1> QED
  BY <1>1, LenProperties, ElementOfSeq

(* The places that are counted hold as many owners, where none is listed   *)
(* twice.                                                                  *)
LEMMA CountedOwnersBack ==
  ASSUME AdminInv, NEW s \in Subjects,
         Cardinality(ToSet(multisig.owners)) = Len(multisig.owners)
  PROVE  CountValidProposals(s) <= Cardinality(Backers(s))
<1> DEFINE owners == multisig.owners
           n == Len(owners)
           places == {i \in DOMAIN owners : InWindow(s, owners[i])}
           owner == [i \in places |-> owners[i]]
<1>1. /\ n \in Nat /\ DOMAIN owners = 1..n
      /\ \A i \in 1..n : owners[i] \in Admins
  BY OwnersAreListed DEF AdminInv
<1>2. ToSet(owners) = {owners[i] : i \in 1..n}
  BY <1>1 DEF ToSet
<1>3. IsFiniteSet(1..n) /\ Cardinality(1..n) = n
  BY <1>1, FS_Interval
<1>4. \A i, j \in 1..n : owners[i] = owners[j] => i = j
  <2> DEFINE f == [i \in 1..n |-> owners[i]]
  <2>1. f \in Surjection(1..n, ToSet(owners))
    BY <1>2 DEF Surjection
  <2>2. Cardinality(1..n) = Cardinality(ToSet(owners))
    BY <1>3
  <2> HIDE DEF f
  <2>3. f \in Injection(1..n, ToSet(owners))
    BY <1>3, <2>1, <2>2, FS_SurjSameCardinalityImpliesInj
  <2>4. \A i, j \in 1..n : f[i] = f[j] => i = j
    BY <2>3 DEF Injection, IsInjective
  <2> QED
    BY <2>4 DEF f
<1>5. \A i \in places : owners[i] \in Backers(s)
  <2> SUFFICES ASSUME NEW i \in 1..n, InWindow(s, owners[i])
               PROVE  owners[i] \in Backers(s)
    BY <1>1
  <2>1. owners[i] \in Admins /\ IsOwner(owners[i])
    BY <1>1, <1>2 DEF IsOwner
  <2>2. owners[i] \in fresh[s]
    BY <2>1 DEF InWindow, AdminInv
  <2> QED
    BY <2>1, <2>2 DEF Backers
<1>6. places \subseteq 1..n
  BY <1>1
<1> HIDE DEF places
<1>7. owner \in Injection(places, Backers(s))
  <2>1. owner \in [places -> Backers(s)]
    BY <1>5
  <2>2. \A i, j \in places : owner[i] = owner[j] => i = j
    BY <1>4, <1>6
  <2> QED
    BY <2>1, <2>2 DEF Injection, IsInjective
<1>8. IsFiniteSet(Backers(s))
  <2>1. Backers(s) \subseteq ToSet(owners)
    BY DEF Backers, IsOwner
  <2>2. IsFiniteSet(ToSet(owners))
    <3> DEFINE f == [i \in 1..n |-> owners[i]]
    <3>1. f \in Surjection(1..n, ToSet(owners))
      BY <1>2 DEF Surjection
    <3> HIDE DEF f
    <3> QED
      BY <1>3, <3>1, FS_Surjection
  <2> QED
    BY <2>1, <2>2, FS_Subset
<1> HIDE DEF owner
<1>9. Cardinality(places) <= Cardinality(Backers(s))
  BY <1>7, <1>8, FS_Injection
<1> QED
  BY <1>9 DEF CountValidProposals, places

(* What is carried out by a quorum is backed by one.                       *)
LEMMA QuorumsBack ==
  ASSUME AdminInv, NEW admin, NEW s \in Subjects, Carries(admin, s),
         multisig.threshold > 1,
         Cardinality(ToSet(multisig.owners)) = Len(multisig.owners)
  PROVE  Cardinality(Backers(s)) >= multisig.threshold
<1>1. multisig.owners # <<>>
  BY DEF AdminInv
<1>2. CountValidProposals(s) >= multisig.threshold
  BY <1>1 DEF Carries
<1>3. CountValidProposals(s) <= Cardinality(Backers(s))
  BY CountedOwnersBack
<1>4. multisig.threshold \in Nat
  BY OwnersAreListed DEF AdminInv
<1>5. CountValidProposals(s) \in Nat /\ Cardinality(Backers(s)) \in Nat
  <2>1. IsFiniteSet(DOMAIN multisig.owners)
    BY OwnersAreListed, FS_Interval DEF AdminInv
  <2>2. CountValidProposals(s) \in Nat
    <3> DEFINE places == {i \in DOMAIN multisig.owners :
                            InWindow(s, multisig.owners[i])}
    <3>1. places \subseteq DOMAIN multisig.owners
      OBVIOUS
    <3> HIDE DEF places
    <3>2. Cardinality(places) \in Nat
      BY <2>1, <3>1, FS_Subset, FS_CardinalityType
    <3> QED
      BY <3>2 DEF CountValidProposals, places
  <2>3. IsFiniteSet(ToSet(multisig.owners))
    <3> DEFINE f == [i \in DOMAIN multisig.owners |-> multisig.owners[i]]
    <3>1. f \in Surjection(DOMAIN multisig.owners, ToSet(multisig.owners))
      BY DEF Surjection, ToSet
    <3> HIDE DEF f
    <3> QED
      BY <2>1, <3>1, FS_Surjection
  <2>4. Backers(s) \subseteq ToSet(multisig.owners)
    BY DEF Backers, IsOwner
  <2> QED
    BY <2>2, <2>3, <2>4, FS_Subset, FS_CardinalityType
<1> QED
  BY <1>2, <1>3, <1>4, <1>5

LEMMA CarryingKeepsSoundness ==
  ASSUME SoundAdmin, AdminInv, NEW admin, NEW s \in Subjects,
         Carries(admin, s)
  PROVE  /\ proposedAt' \in [Subjects -> [Admins -> Nat \cup {NotProposed}]]
         /\ fresh' \in [Subjects -> SUBSET Admins]
         /\ \A t \in Subjects : \A a \in Admins :
              proposedAt'[t][a] # NotProposed =>
                a \in fresh'[t] /\ proposedAt[t][a] # NotProposed
<1>1. /\ proposedAt \in [Subjects -> [Admins -> Nat \cup {NotProposed}]]
      /\ fresh \in [Subjects -> SUBSET Admins]
      /\ \A t \in Subjects : \A a \in Admins :
           proposedAt[t][a] # NotProposed => a \in fresh[t]
  BY DEF AdminInv, AdminTypeOK
<1>2. CASE UNCHANGED <<proposedAt, fresh>>
  BY <1>1, <1>2
<1>3. CASE /\ proposedAt' = Consumed(s)
           /\ fresh' = [fresh EXCEPT ![s] = {}]
  BY <1>1, <1>3 DEF Consumed
<1> QED
  BY <1>2, <1>3 DEF Carries

LEMMA AdminStepsKeepInv ==
  ASSUME SoundAdmin, AdminInv, [AdminNext]_adminVars
  PROVE  AdminInv'
<1>1. /\ AdminTypeOK /\ "configuration" \in Subjects
      /\ Addresses \subseteq Subjects
  BY DEF AdminInv, Subjects
<1>2. CASE UNCHANGED adminVars
  BY <1>2 DEF adminVars, AdminInv, AdminTypeOK
<1>3. CASE NextLedger
  <2>1. adminLedger' \in Nat
    BY <1>1, <1>3 DEF NextLedger, AdminTypeOK
  <2> QED
    BY <1>3, <2>1 DEF NextLedger, AdminInv, AdminTypeOK
<1>4. ASSUME NEW admin \in Admins, NEW s \in Subjects, ProposeAdmin(admin, s)
      PROVE  AdminInv'
  <2>1. /\ UNCHANGED <<adminLedger, proposable, multisig>>
        /\ s = "configuration" => proposable
        /\ proposedAt' = [proposedAt EXCEPT ![s][admin] = adminLedger]
        /\ fresh' = [fresh EXCEPT ![s] = @ \cup {admin}]
    BY <1>4 DEF ProposeAdmin
  <2>2. AdminTypeOK'
    BY <1>1, <2>1 DEF AdminTypeOK
  <2>3. \A t \in Subjects : \A a \in Admins :
          proposedAt'[t][a] # NotProposed => a \in fresh'[t]
    BY <1>1, <2>1 DEF AdminInv, AdminTypeOK
  <2>4. proposable = FALSE =>
          \A a \in Admins : proposedAt'["configuration"][a] = NotProposed
    BY <1>1, <2>1 DEF AdminInv, AdminTypeOK
  <2> QED
    BY <2>1, <2>2, <2>3, <2>4 DEF AdminInv
<1>5. ASSUME NEW admin \in Admins, NEW address \in Addresses,
             SetAddress(admin, address)
      PROVE  AdminInv'
  <2>1. /\ UNCHANGED <<adminLedger, proposable, multisig>>
        /\ Carries(admin, address)
    BY <1>5 DEF SetAddress
  <2>2. address \in Subjects
    BY <1>1
  <2> QED
    BY <1>1, <2>1, <2>2, CarryingKeepsSoundness DEF AdminInv, AdminTypeOK
<1>6. ASSUME NEW admin \in Admins, NEW owners \in Rosters,
             NEW window \in AdminWindows, NEW threshold \in 1..Len(owners),
             SetMultisigConfig(admin, owners, threshold, window)
      PROVE  AdminInv'
  <2>1. /\ UNCHANGED <<adminLedger, proposable>>
        /\ Carries(admin, "configuration")
        /\ multisig' = [owners |-> owners, threshold |-> threshold,
                        window |-> window]
    BY <1>6 DEF SetMultisigConfig
  <2>2. owners \in Seq(Admins) /\ window \in Nat
    BY DEF SoundAdmin
  <2>3. threshold \in Nat /\ owners # <<>>
    BY <2>2
  <2>4. multisig' \in [owners : Seq(Admins), threshold : Nat, window : Nat]
        /\ multisig'.owners = owners
    BY <2>1, <2>2, <2>3
  <2> QED
    BY <1>1, <2>1, <2>3, <2>4, CarryingKeepsSoundness DEF AdminInv, AdminTypeOK
<1> QED
  BY <1>2, <1>3, <1>4, <1>5, <1>6 DEF AdminNext

LEMMA AdminStartsSound ==
  ASSUME SoundAdmin, AdminInit
  PROVE  AdminInv
<1>1. /\ adminLedger = 0 /\ proposable \in BOOLEAN
      /\ multisig = [owners |-> <<>>, threshold |-> 1, window |-> LastApproval]
      /\ proposedAt = [s \in Subjects |-> [a \in Admins |-> NotProposed]]
      /\ fresh = [s \in Subjects |-> {}]
  BY DEF AdminInit
<1>2. <<>> \in Seq(Admins) /\ LastApproval \in Nat
  BY DEF SoundAdmin
<1>3. multisig \in [owners : Seq(Admins), threshold : Nat, window : Nat]
      /\ multisig.threshold = 1
  BY <1>1, <1>2
<1>4. proposedAt \in [Subjects -> [Admins -> Nat \cup {NotProposed}]]
      /\ fresh \in [Subjects -> SUBSET Admins]
  BY <1>1
<1>5. \A s \in Subjects : \A a \in Admins : proposedAt[s][a] = NotProposed
  BY <1>1
<1>6. "configuration" \in Subjects
  BY DEF Subjects
<1> QED
  BY <1>1, <1>3, <1>4, <1>5, <1>6 DEF AdminInv, AdminTypeOK

(* Whatever owners propose, rotate and carry out, for any lists of owners  *)
(* and any windows: with a threshold above one and no owner listed twice,  *)
(* an address or a configuration is switched only with as many current     *)
(* owners behind it who approved within the window and since its last      *)
(* switch (set_circuit_breaker, set_multisig_config).                      *)
THEOREM SwitchesAreBacked ==
  ASSUME SoundAdmin
  PROVE  AdminSpec => SwitchIsBacked
<1>1. AdminInit => AdminInv
  BY AdminStartsSound
<1>2. AdminInv /\ [AdminNext]_adminVars => AdminInv'
  BY AdminStepsKeepInv
<1>3. AdminInv /\ [AdminNext]_adminVars =>
        [\A s \in Subjects :
           /\ Switched(s) /\ multisig.threshold > 1
           /\ Cardinality(ToSet(multisig.owners)) = Len(multisig.owners)
           => Cardinality(Backers(s)) >= multisig.threshold]_adminVars
  <2> SUFFICES ASSUME AdminInv, AdminNext, NEW s \in Subjects, Switched(s),
                      multisig.threshold > 1,
                      Cardinality(ToSet(multisig.owners)) = Len(multisig.owners)
               PROVE  Cardinality(Backers(s)) >= multisig.threshold
    OBVIOUS
  <2>1. "configuration" \notin Addresses
    BY DEF SoundAdmin
  <2>2. CASE s = "configuration"
    <3>1. multisig' # multisig
      BY <2>2 DEF Switched
    <3>2. \E admin \in Admins : Carries(admin, s)
      BY <2>2, <3>1 DEF AdminNext, NextLedger, ProposeAdmin, SetAddress,
                        SetMultisigConfig
    <3> QED
      BY <3>2, QuorumsBack
  <2>3. CASE s # "configuration"
    <3>1. wired' = s /\ wired # s
      BY <2>3 DEF Switched
    <3>2. \E admin \in Admins : Carries(admin, s)
      BY <3>1 DEF AdminNext, NextLedger, ProposeAdmin, SetAddress,
                  SetMultisigConfig
    <3> QED
      BY <3>2, QuorumsBack
  <2> QED
    BY <2>2, <2>3
<1> QED
  BY <1>1, <1>2, <1>3, PTL DEF AdminSpec, SwitchIsBacked

(* An escrow whose configuration asks for more than one owner keeps it,    *)
(* and who wired the first address stays the one that may, for every       *)
(* instance (escrow/src/lib.rs:331, set_circuit_breaker).                  *)
THEOREM ConfigurationsLast ==
  ASSUME SoundAdmin
  PROVE  AdminSpec => ConfigurationIsLast
<1>1. AdminInit => AdminInv
  BY AdminStartsSound
<1>2. AdminInv /\ [AdminNext]_adminVars => AdminInv'
  BY AdminStepsKeepInv
<1>3. AdminInv /\ [AdminNext]_adminVars =>
        [/\ ~proposable /\ multisig.threshold > 1 => UNCHANGED multisig
         /\ installer # Nobody => UNCHANGED installer]_adminVars
  <2> SUFFICES ASSUME AdminInv, AdminNext
               PROVE  /\ ~proposable /\ multisig.threshold > 1 => UNCHANGED multisig
                      /\ installer # Nobody => UNCHANGED installer
    OBVIOUS
  <2>1. ASSUME ~proposable, multisig.threshold > 1,
               NEW admin, Carries(admin, "configuration")
        PROVE  FALSE
    <3>1. CountValidProposals("configuration") >= multisig.threshold
      BY <2>1 DEF Carries, AdminInv
    <3>2. \A i \in DOMAIN multisig.owners :
            ~InWindow("configuration", multisig.owners[i])
      BY <2>1, OwnersAreListed DEF AdminInv, AdminTypeOK, InWindow
    <3>3. {i \in DOMAIN multisig.owners :
             InWindow("configuration", multisig.owners[i])} = {}
      BY <3>2
    <3>4. CountValidProposals("configuration") = 0
      BY <3>3, FS_EmptySet DEF CountValidProposals
    <3>5. multisig.threshold \in Nat
      BY OwnersAreListed DEF AdminInv
    <3> QED
      BY <2>1, <3>1, <3>4, <3>5
  <2>2. ASSUME ~proposable, multisig.threshold > 1
        PROVE  UNCHANGED multisig
    BY <2>1, <2>2 DEF AdminNext, NextLedger, ProposeAdmin, SetAddress,
                      SetMultisigConfig
  <2>3. installer # Nobody => UNCHANGED installer
    BY DEF AdminNext, NextLedger, ProposeAdmin, SetAddress, SetMultisigConfig
  <2> QED
    BY <2>2, <2>3
<1> QED
  BY <1>1, <1>2, <1>3, PTL DEF AdminSpec, ConfigurationIsLast

-----------------------------------------------------------------------------
(* The submitters of a transaction that was signed by several.             *)

Calls ==
  [at : {"idle", "signing", "sending", "polling", "sleeping", "done"},
   tx : Envelopes, polls : Nat,
   answer : {"none", "SigningError", "NOT_AUTHORIZED", "NETWORK_ERROR",
             "SUBMISSION_FAILED", "success", "TRANSACTION_FAILED",
             "TRANSACTION_TIMEOUT"}]

CosignTypeOK ==
  /\ tx \in [Envelopes -> [kind : {"none", "multisig", "own"}, seq : Nat, until : Nat]]
  /\ submit \in [Holders -> Calls]
  /\ pooled \subseteq Envelopes
  /\ outcome \in [Envelopes -> {"none", "ok", "failed"}]
  /\ sequence \in Nat /\ second \in Nat

\* The network has e, or had it.
Reached(e) == e \in pooled \/ outcome[e] # "none"

\* The call s may have handed its transaction to the network.
MaySent(s) ==
  \/ s.at \in {"polling", "sleeping"}
  \/ s.at = "done" /\ s.answer \in {"NETWORK_ERROR", "success", "TRANSACTION_FAILED",
                                    "TRANSACTION_TIMEOUT"}

\* What the call s was told is so, and it polled once a second.
CallIsSound(s) ==
  /\ s.answer # "none" => s.at = "done"
  /\ s.at # "idle" => tx[s.tx].kind # "none"
  /\ s.at = "polling" => second + Validity >= tx[s.tx].until + s.polls
  /\ s.at = "sleeping" => second + 1 + Validity >= tx[s.tx].until + s.polls
  /\ s.answer = "success" => outcome[s.tx] = "ok"
  /\ s.answer = "TRANSACTION_FAILED" => outcome[s.tx] = "failed"
  /\ s.answer = "TRANSACTION_TIMEOUT" => second >= tx[s.tx].until

CosignInv ==
  /\ CosignTypeOK
  /\ \A e \in Envelopes : tx[e].until <= second + Validity
  /\ \A e \in pooled : outcome[e] = "none"
  /\ \A e \in Envelopes :
       Reached(e) => \E h \in Holders : submit[h].tx = e /\ MaySent(submit[h])
  /\ \A h \in Holders : CallIsSound(submit[h])

(* A call that has not yet reached the network, or goes on with what it    *)
(* sent, moves, and may hand over its transaction.                         *)
LEMMA OneCallMoves ==
  ASSUME CosignInv, NEW h \in Holders, NEW s \in Calls, CallIsSound(s),
         UNCHANGED <<tx, outcome, sequence, second>>,
         submit' = [submit EXCEPT ![h] = s],
         MaySent(submit[h]) => MaySent(s) /\ s.tx = submit[h].tx,
         \/ pooled' = pooled
         \/ pooled' = pooled \cup {s.tx} /\ outcome[s.tx] = "none" /\ MaySent(s)
  PROVE  CosignInv'
<1>1. /\ submit \in [Holders -> Calls] /\ pooled \subseteq Envelopes
      /\ s.tx \in Envelopes
  BY DEF CosignInv, CosignTypeOK, Calls
<1>2. submit'[h] = s /\ \A g \in Holders : g # h => submit'[g] = submit[g]
  BY <1>1
<1>3. CosignTypeOK'
  <2>1. submit' \in [Holders -> Calls]
    BY <1>1
  <2>2. pooled' \subseteq Envelopes
    BY <1>1
  <2> QED
    BY <2>1, <2>2 DEF CosignInv, CosignTypeOK
<1>4. (\A e \in Envelopes : tx[e].until <= second + Validity)'
  BY DEF CosignInv
<1>5. (\A e \in pooled : outcome[e] = "none")'
  BY DEF CosignInv
<1>6. ASSUME NEW e \in Envelopes, Reached(e)'
      PROVE  \E g \in Holders : submit'[g].tx = e /\ MaySent(submit'[g])
  <2>1. CASE Reached(e)
    <3>1. PICK g \in Holders : submit[g].tx = e /\ MaySent(submit[g])
      BY <2>1 DEF CosignInv
    <3>2. submit'[g].tx = e /\ MaySent(submit'[g])
      BY <1>2, <3>1
    <3> QED
      BY <3>2
  <2>2. CASE ~Reached(e)
    <3>1. e = s.tx /\ MaySent(s)
      BY <1>6, <2>2 DEF Reached
    <3> QED
      BY <1>2, <3>1
  <2> QED
    BY <2>1, <2>2
<1>7. (\A g \in Holders : CallIsSound(submit[g]))'
  <2> SUFFICES ASSUME NEW g \in Holders PROVE CallIsSound(submit[g])'
    OBVIOUS
  <2>1. CASE g = h
    BY <1>2, <2>1 DEF CallIsSound
  <2>2. CASE g # h
    <3>1. CallIsSound(submit[g]) /\ submit'[g] = submit[g]
      BY <1>2, <2>2 DEF CosignInv
    <3> QED
      BY <3>1 DEF CallIsSound
  <2> QED
    BY <2>1, <2>2
<1>8. (\A e \in Envelopes :
         Reached(e) => \E g \in Holders : submit[g].tx = e /\ MaySent(submit[g]))'
  BY <1>6 DEF MaySent
<1> QED
  BY <1>3, <1>4, <1>5, <1>7, <1>8 DEF CosignInv

(* A call may end with what it knows.                                      *)
LEMMA AnswersKeepInv ==
  ASSUME CosignInv, NEW h \in Holders, NEW answer,
         UNCHANGED <<tx, outcome, sequence, second>>,
         submit[h].at \notin {"idle", "done"}, Answered(h, answer),
         \/ answer \in {"SigningError", "SUBMISSION_FAILED"} /\ ~MaySent(submit[h])
         \/ answer = "NETWORK_ERROR"
         \/ answer = "success" /\ outcome[submit[h].tx] = "ok"
         \/ answer = "TRANSACTION_FAILED" /\ outcome[submit[h].tx] = "failed",
         \/ pooled' = pooled
         \/ /\ pooled' = pooled \cup {submit[h].tx}
            /\ outcome[submit[h].tx] = "none" /\ answer = "NETWORK_ERROR"
  PROVE  CosignInv'
<1> DEFINE s == [submit[h] EXCEPT !.at = "done", !.answer = answer]
<1>1. submit \in [Holders -> Calls] /\ submit[h] \in Calls
  BY DEF CosignInv, CosignTypeOK
<1>2. /\ s.at = "done" /\ s.answer = answer
      /\ s.tx = submit[h].tx /\ s.polls = submit[h].polls
  BY <1>1 DEF Calls
<1>3. s \in Calls
  BY <1>1 DEF Calls
<1>4. submit' = [submit EXCEPT ![h] = s]
  BY <1>1 DEF Answered
<1> HIDE DEF s
<1>5. CallIsSound(submit[h])
  BY DEF CosignInv
<1>6. CallIsSound(s)
  BY <1>2, <1>5 DEF CallIsSound
<1>7. MaySent(submit[h]) => MaySent(s) /\ s.tx = submit[h].tx
  BY <1>2 DEF MaySent
<1>8. answer = "NETWORK_ERROR" => MaySent(s)
  BY <1>2 DEF MaySent
<1> QED
  BY <1>2, <1>3, <1>4, <1>6, <1>7, <1>8, OneCallMoves

(* A new transaction is one that nobody has sent.                          *)
LEMMA BuildingKeepsInv ==
  ASSUME CosignInv, NEW h \in Holders, NEW e \in Envelopes,
         NEW kind \in {"multisig", "own"}, Build(h, e, kind),
         UNCHANGED <<networkVars, second>>,
         \/ UNCHANGED submit
         \/ /\ submit[h].at = "idle"
            /\ submit' = [submit EXCEPT ![h].at = "signing", ![h].tx = e]
  PROVE  CosignInv'
<1> DEFINE b == [kind |-> kind, seq |-> sequence + 1, until |-> second + Validity]
<1>1. /\ tx \in [Envelopes -> [kind : {"none", "multisig", "own"}, seq : Nat, until : Nat]]
      /\ submit \in [Holders -> Calls] /\ submit[h] \in Calls
      /\ sequence \in Nat /\ second \in Nat /\ Validity \in Nat
  BY CosigningAssumption DEF CosignInv, CosignTypeOK
<1>2. tx[e].kind = "none" /\ tx' = [tx EXCEPT ![e] = b]
  BY DEF Build, NotBuilt
<1>3. /\ UNCHANGED <<outcome, pooled, sequence, second>>
  BY DEF networkVars
<1>4. /\ tx'[e] = b /\ tx'[e].kind = kind /\ tx'[e].until = second + Validity
      /\ \A f \in Envelopes : f # e => tx'[f] = tx[f]
  BY <1>1, <1>2
<1>5. tx' \in [Envelopes -> [kind : {"none", "multisig", "own"}, seq : Nat, until : Nat]]
  <2>1. b \in [kind : {"none", "multisig", "own"}, seq : Nat, until : Nat]
    BY <1>1
  <2> QED
    BY <1>1, <1>2, <2>1
<1>6. /\ \A g \in Holders : submit'[g] = submit[g]
           \/ /\ g = h /\ submit[g].at = "idle" /\ submit'[g].at = "signing"
              /\ submit'[g].tx = e /\ submit'[g].answer = submit[g].answer
      /\ submit' \in [Holders -> Calls]
  <2>1. CASE UNCHANGED submit
    BY <1>1, <2>1
  <2>2. CASE submit' # submit
    <3> DEFINE s == [submit[h] EXCEPT !.at = "signing", !.tx = e]
    <3>1. s \in Calls /\ s.at = "signing" /\ s.tx = e /\ s.answer = submit[h].answer
      BY <1>1 DEF Calls
    <3>2. submit' = [submit EXCEPT ![h] = s] /\ submit[h].at = "idle"
      BY <1>1, <2>2
    <3> HIDE DEF s
    <3> QED
      BY <1>1, <3>1, <3>2
  <2> QED
    BY <2>1, <2>2
<1> HIDE DEF b
<1>7. CosignTypeOK'
  BY <1>3, <1>5, <1>6 DEF CosignInv, CosignTypeOK
<1>8. (\A f \in Envelopes : tx[f].until <= second + Validity)'
  BY <1>1, <1>3, <1>4 DEF CosignInv
<1>9. (\A f \in pooled : outcome[f] = "none")'
  BY <1>3 DEF CosignInv
<1>10. (\A f \in Envelopes :
          Reached(f) => \E g \in Holders : submit[g].tx = f /\ MaySent(submit[g]))'
  <2> SUFFICES ASSUME NEW f \in Envelopes, Reached(f)'
               PROVE  (\E g \in Holders : submit[g].tx = f /\ MaySent(submit[g]))'
    OBVIOUS
  <2>1. Reached(f)
    BY <1>3 DEF Reached
  <2>2. PICK g \in Holders : submit[g].tx = f /\ MaySent(submit[g])
    BY <2>1 DEF CosignInv
  <2>3. submit[g].at # "idle"
    BY <2>2 DEF MaySent
  <2>4. submit'[g] = submit[g]
    BY <1>6, <2>3
  <2>5. submit'[g].tx = f /\ MaySent(submit[g])'
    BY <2>2, <2>4 DEF MaySent
  <2> QED
    BY <2>5
<1>11. (\A g \in Holders : CallIsSound(submit[g]))'
  <2> SUFFICES ASSUME NEW g \in Holders PROVE CallIsSound(submit[g])'
    OBVIOUS
  <2>1. CallIsSound(submit[g]) /\ submit[g] \in Calls
    BY <1>1 DEF CosignInv
  <2>2. CASE submit'[g] = submit[g] /\ submit[g].at = "idle"
    BY <2>1, <2>2 DEF CallIsSound
  <2>3. CASE submit'[g] = submit[g] /\ submit[g].at # "idle"
    <3>1. submit[g].tx \in Envelopes /\ submit[g].tx # e
      BY <1>2, <2>1, <2>3 DEF CallIsSound, Calls
    <3>2. tx'[submit[g].tx] = tx[submit[g].tx]
      BY <1>4, <3>1
    <3> QED
      BY <1>3, <2>1, <2>3, <3>2 DEF CallIsSound
  <2>4. CASE submit'[g] # submit[g]
    <3>1. /\ submit[g].at = "idle" /\ submit'[g].at = "signing" /\ submit'[g].tx = e
          /\ submit'[g].answer = submit[g].answer
      BY <1>6, <2>4
    <3>2. submit'[g].answer = "none"
      BY <2>1, <3>1 DEF CallIsSound
    <3>3. tx'[e].kind # "none"
      BY <1>4
    <3> QED
      BY <3>1, <3>2, <3>3 DEF CallIsSound
  <2> QED
    BY <2>2, <2>3, <2>4
<1> QED
  BY <1>7, <1>8, <1>9, <1>10, <1>11 DEF CosignInv

(* A second passes: who slept polls again, or has polled long enough.      *)
LEMMA SecondsKeepInv ==
  ASSUME CosignInv, SoundCosigning, Tick
  PROVE  CosignInv'
<1>1. /\ submit \in [Holders -> Calls] /\ pooled \subseteq Envelopes
      /\ second \in Nat /\ Validity \in Nat /\ MaxPolls \in Nat /\ Validity <= MaxPolls
      /\ \A e \in Envelopes : tx[e].until \in Nat
  BY CosigningAssumption DEF CosignInv, CosignTypeOK, SoundCosigning
<1>2. /\ second' = second + 1 /\ UNCHANGED <<tx, outcome, sequence>>
      /\ pooled' \subseteq pooled
      /\ submit' = [h \in Holders |-> Woken(submit[h])]
  BY DEF Tick
<1>3. ASSUME NEW h \in Holders
      PROVE  /\ submit'[h] \in Calls /\ submit'[h].tx = submit[h].tx
             /\ MaySent(submit[h]) => MaySent(submit'[h])
             /\ CallIsSound(submit[h])'
  <2> DEFINE s == submit[h]
             done == [s EXCEPT !.at = "done", !.answer = "TRANSACTION_TIMEOUT"]
             again == [s EXCEPT !.at = "polling"]
  <2>1. /\ s \in Calls /\ submit'[h] = Woken(s) /\ CallIsSound(s)
        /\ s.polls \in Nat /\ s.tx \in Envelopes /\ tx[s.tx].until \in Nat
    BY <1>1, <1>2 DEF CosignInv, Calls
  <2>2. /\ done \in Calls /\ done.at = "done" /\ done.answer = "TRANSACTION_TIMEOUT"
        /\ done.tx = s.tx
    BY <2>1 DEF Calls
  <2>3. /\ again \in Calls /\ again.at = "polling" /\ again.answer = s.answer
        /\ again.tx = s.tx /\ again.polls = s.polls
    BY <2>1 DEF Calls
  <2>4. CASE s.at # "sleeping"
    <3>1. submit'[h] = submit[h] /\ s.at # "sleeping"
      BY <2>1, <2>4 DEF Woken
    <3>2. /\ s.at = "polling" => second + 1 + Validity >= tx[s.tx].until + s.polls
          /\ s.answer = "TRANSACTION_TIMEOUT" => second + 1 >= tx[s.tx].until
      BY <1>1, <2>1 DEF CallIsSound
    <3>3. CallIsSound(submit[h])'
      BY <1>2, <2>1, <3>1, <3>2 DEF CallIsSound
    <3>4. submit'[h] \in Calls /\ submit'[h].tx = submit[h].tx
      BY <2>1, <3>1
    <3>5. MaySent(submit[h]) => MaySent(submit'[h])
      BY <3>1 DEF MaySent
    <3> QED
      BY <3>3, <3>4, <3>5
  <2>5. CASE s.at = "sleeping" /\ s.polls = MaxPolls
    <3>1. submit'[h] = done
      BY <2>1, <2>5 DEF Woken
    <3>2. second + 1 + Validity >= tx[s.tx].until + MaxPolls
      BY <2>1, <2>5 DEF CallIsSound
    <3>3. second + 1 >= tx[s.tx].until
      BY <1>1, <2>1, <3>2
    <3>4. tx[s.tx].kind # "none"
      BY <2>1, <2>5 DEF CallIsSound
    <3>5. CallIsSound(submit[h])'
      BY <1>2, <2>2, <3>1, <3>3, <3>4 DEF CallIsSound
    <3>6. MaySent(done)
      BY <2>2 DEF MaySent
    <3> HIDE DEF done
    <3> QED
      BY <2>2, <3>1, <3>5, <3>6
  <2>6. CASE s.at = "sleeping" /\ s.polls # MaxPolls
    <3>1. submit'[h] = again
      BY <2>1, <2>6 DEF Woken
    <3>2. second + 1 + Validity >= tx[s.tx].until + s.polls /\ s.answer = "none"
      BY <2>1, <2>6 DEF CallIsSound
    <3>3. tx[s.tx].kind # "none"
      BY <2>1, <2>6 DEF CallIsSound
    <3>4. CallIsSound(submit[h])'
      BY <1>2, <2>3, <3>1, <3>2, <3>3 DEF CallIsSound
    <3>5. MaySent(again)
      BY <2>3 DEF MaySent
    <3> HIDE DEF again
    <3> QED
      BY <2>3, <3>1, <3>4, <3>5
  <2> QED
    BY <2>4, <2>5, <2>6
<1>4. CosignTypeOK'
  <2>1. submit' \in [Holders -> Calls]
    BY <1>2, <1>3
  <2> QED
    BY <1>1, <1>2, <2>1 DEF CosignInv, CosignTypeOK
<1>5. (\A e \in Envelopes : tx[e].until <= second + Validity)'
  <2> SUFFICES ASSUME NEW e \in Envelopes PROVE tx[e].until <= second + 1 + Validity
    BY <1>2
  <2>1. tx[e].until <= second + Validity
    BY DEF CosignInv
  <2> QED
    BY <1>1, <2>1
<1>6. (\A e \in pooled : outcome[e] = "none")'
  BY <1>2 DEF CosignInv
<1>7. (\A e \in Envelopes :
         Reached(e) => \E g \in Holders : submit[g].tx = e /\ MaySent(submit[g]))'
  <2> SUFFICES ASSUME NEW e \in Envelopes, Reached(e)'
               PROVE  (\E g \in Holders : submit[g].tx = e /\ MaySent(submit[g]))'
    OBVIOUS
  <2>1. Reached(e)
    BY <1>2 DEF Reached
  <2>2. PICK g \in Holders : submit[g].tx = e /\ MaySent(submit[g])
    BY <2>1 DEF CosignInv
  <2>3. submit'[g].tx = e /\ MaySent(submit'[g])
    BY <1>3, <2>2
  <2>4. MaySent(submit[g])'
    BY <2>3 DEF MaySent
  <2> QED
    BY <2>3, <2>4
<1>8. (\A g \in Holders : CallIsSound(submit[g]))'
  BY <1>3
<1> QED
  BY <1>4, <1>5, <1>6, <1>7, <1>8 DEF CosignInv

(* What the network executes it was handed, and nobody was told of it yet. *)
LEMMA ExecutionsKeepInv ==
  ASSUME CosignInv, NetworkExecutes
  PROVE  CosignInv'
<1>1. /\ submit \in [Holders -> Calls] /\ pooled \subseteq Envelopes
      /\ outcome \in [Envelopes -> {"none", "ok", "failed"}] /\ sequence \in Nat
  BY DEF CosignInv, CosignTypeOK
<1>2. PICK e \in pooled, result \in {"ok", "failed"} :
        /\ outcome' = [outcome EXCEPT ![e] = result]
        /\ sequence' = sequence + 1 /\ pooled' \subseteq pooled \ {e}
        /\ UNCHANGED <<tx, copy, submit, second>>
  BY DEF NetworkExecutes
<1>3. outcome[e] = "none" /\ e \in Envelopes
  BY <1>1 DEF CosignInv
<1>4. outcome'[e] = result /\ \A f \in Envelopes : f # e => outcome'[f] = outcome[f]
  BY <1>1, <1>2
<1>5. CosignTypeOK'
  BY <1>1, <1>2 DEF CosignInv, CosignTypeOK
<1>6. (\A f \in Envelopes : tx[f].until <= second + Validity)'
  BY <1>2 DEF CosignInv
<1>7. (\A f \in pooled : outcome[f] = "none")'
  BY <1>1, <1>2, <1>4 DEF CosignInv
<1>8. (\A f \in Envelopes :
         Reached(f) => \E g \in Holders : submit[g].tx = f /\ MaySent(submit[g]))'
  <2> SUFFICES ASSUME NEW f \in Envelopes, Reached(f)'
               PROVE  (\E g \in Holders : submit[g].tx = f /\ MaySent(submit[g]))'
    OBVIOUS
  <2>1. Reached(f)
    BY <1>2, <1>4 DEF Reached
  <2>2. PICK g \in Holders : submit[g].tx = f /\ MaySent(submit[g])
    BY <2>1 DEF CosignInv
  <2>3. MaySent(submit[g])'
    BY <1>2, <2>2 DEF MaySent
  <2> QED
    BY <1>2, <2>2, <2>3
<1>9. (\A g \in Holders : CallIsSound(submit[g]))'
  <2> SUFFICES ASSUME NEW g \in Holders PROVE CallIsSound(submit[g])'
    OBVIOUS
  <2>1. CallIsSound(submit[g]) /\ submit[g].tx \in Envelopes
    BY <1>1 DEF CosignInv, Calls
  <2>2. submit'[g] = submit[g] /\ tx' = tx /\ second' = second
    BY <1>2
  <2>3. CASE submit[g].tx # e
    BY <1>4, <2>1, <2>2, <2>3 DEF CallIsSound
  <2>4. CASE submit[g].tx = e
    BY <1>3, <2>1, <2>2, <2>4 DEF CallIsSound
  <2> QED
    BY <2>3, <2>4
<1> QED
  BY <1>5, <1>6, <1>7, <1>8, <1>9 DEF CosignInv

LEMMA CosignStarts ==
  ASSUME SoundCosigning, CosignInit
  PROVE  CosignInv
<1>1. Validity \in Nat
  BY CosigningAssumption
<1>2. /\ tx = [e \in Envelopes |-> NotBuilt] /\ submit = [h \in Holders |-> Idle]
      /\ pooled = {} /\ outcome = [e \in Envelopes |-> "none"]
      /\ sequence = 0 /\ second = 0
  BY DEF CosignInit
<1>3. Idle \in Calls /\ Idle.at = "idle" /\ Idle.answer = "none"
  BY DEF Idle, Calls, SoundCosigning
<1>4. NotBuilt \in [kind : {"none", "multisig", "own"}, seq : Nat, until : Nat]
      /\ NotBuilt.until = 0
  BY DEF NotBuilt
<1>5. CosignTypeOK
  BY <1>2, <1>3, <1>4 DEF CosignTypeOK
<1>6. \A e \in Envelopes : tx[e].until <= second + Validity
  BY <1>1, <1>2, <1>4
<1>7. \A h \in Holders : CallIsSound(submit[h])
  BY <1>2, <1>3 DEF CallIsSound
<1> QED
  BY <1>2, <1>5, <1>6, <1>7 DEF CosignInv, Reached

LEMMA SubmissionsKeepInv ==
  ASSUME CosignInv, NEW h \in Holders, NEW e \in Envelopes, SubmitSigned(h, e)
  PROVE  CosignInv'
<1> DEFINE done == [submit[h] EXCEPT !.tx = e, !.at = "done", !.answer = "NOT_AUTHORIZED"]
           sending == [submit[h] EXCEPT !.tx = e, !.at = "sending"]
           s == IF Len(copy[h][e]) < Threshold THEN done ELSE sending
<1>1. submit \in [Holders -> Calls] /\ submit[h] \in Calls /\ CallIsSound(submit[h])
  BY DEF CosignInv, CosignTypeOK
<1>2. /\ submit[h].at = "idle" /\ tx[e].kind = "multisig"
      /\ UNCHANGED <<tx, outcome, sequence, second, pooled>>
      /\ submit' = [submit EXCEPT ![h] = s]
  BY <1>1 DEF SubmitSigned, networkVars
<1>3. submit[h].answer = "none" /\ ~MaySent(submit[h])
  BY <1>1, <1>2 DEF CallIsSound, MaySent
<1>4. /\ done \in Calls /\ done.at = "done" /\ done.answer = "NOT_AUTHORIZED"
      /\ done.tx = e
  BY <1>1 DEF Calls
<1>5. /\ sending \in Calls /\ sending.at = "sending" /\ sending.answer = "none"
      /\ sending.tx = e
  BY <1>1, <1>3 DEF Calls
<1> HIDE DEF done, sending
<1>6. s \in Calls /\ CallIsSound(s)
  BY <1>2, <1>4, <1>5 DEF CallIsSound
<1> HIDE DEF s
<1> QED
  BY <1>2, <1>3, <1>6, OneCallMoves

LEMMA SigningsKeepInv ==
  ASSUME CosignInv, NEW h \in Holders, SignerAnswers(h)
  PROVE  CosignInv'
<1>1. /\ submit \in [Holders -> Calls] /\ submit[h] \in Calls /\ CallIsSound(submit[h])
      /\ submit[h].at = "signing" /\ UNCHANGED <<tx, outcome, sequence, second, pooled>>
      /\ ~MaySent(submit[h])
  BY DEF CosignInv, CosignTypeOK, SignerAnswers, networkVars, MaySent
<1>2. CASE Answered(h, "SigningError")
  BY <1>1, <1>2, AnswersKeepInv
<1>3. CASE submit' = [submit EXCEPT ![h].at = "sending"]
  <2> DEFINE s == [submit[h] EXCEPT !.at = "sending"]
  <2>1. s \in Calls /\ s.at = "sending" /\ s.answer = submit[h].answer /\ s.tx = submit[h].tx
    BY <1>1 DEF Calls
  <2>2. submit' = [submit EXCEPT ![h] = s]
    BY <1>1, <1>3
  <2> HIDE DEF s
  <2>3. CallIsSound(s)
    BY <1>1, <2>1 DEF CallIsSound
  <2> QED
    BY <1>1, <2>1, <2>2, <2>3, OneCallMoves
<1> QED
  BY <1>2, <1>3 DEF SignerAnswers

LEMMA SendsKeepInv ==
  ASSUME CosignInv, NEW h \in Holders, Send(h)
  PROVE  CosignInv'
<1> DEFINE e == submit[h].tx
<1>1. /\ submit \in [Holders -> Calls] /\ submit[h] \in Calls /\ CallIsSound(submit[h])
      /\ submit[h].at = "sending" /\ UNCHANGED <<tx, outcome, sequence, second>>
      /\ ~MaySent(submit[h])
  BY DEF CosignInv, CosignTypeOK, Send, MaySent
<1>2. CASE Answered(h, "NETWORK_ERROR") /\ pooled' = pooled
  BY <1>1, <1>2, AnswersKeepInv
<1>3. CASE Answered(h, "SUBMISSION_FAILED") /\ pooled' = pooled
  BY <1>1, <1>3, AnswersKeepInv
<1>4. CASE /\ Answered(h, "NETWORK_ERROR")
           /\ NetworkTakes(h, e) /\ pooled' = pooled \cup {e}
  <2>1. outcome[submit[h].tx] = "none"
    BY <1>4 DEF NetworkTakes
  <2> QED
    BY <1>1, <1>4, <2>1, AnswersKeepInv
<1>5. CASE /\ NetworkTakes(h, e) /\ pooled' = pooled \cup {e}
           /\ submit' = [submit EXCEPT ![h].at = "polling", ![h].polls = 0]
  <2> DEFINE s == [submit[h] EXCEPT !.at = "polling", !.polls = 0]
  <2>1. /\ s \in Calls /\ s.at = "polling" /\ s.answer = submit[h].answer /\ s.tx = e
        /\ s.polls = 0
    BY <1>1 DEF Calls
  <2>2. submit' = [submit EXCEPT ![h] = s]
    BY <1>1, <1>5
  <2>3. outcome[e] = "none" /\ e \in Envelopes
    BY <1>1, <1>5 DEF NetworkTakes, Calls
  <2>4. tx[e].until \in Nat /\ second \in Nat /\ Validity \in Nat
        /\ tx[e].until <= second + Validity
    BY <2>3, CosigningAssumption DEF CosignInv, CosignTypeOK
  <2>5. pooled' = pooled \cup {s.tx}
    BY <1>5, <2>1
  <2> HIDE DEF s
  <2>6. CallIsSound(s) /\ MaySent(s) /\ outcome[s.tx] = "none"
    BY <1>1, <2>1, <2>3, <2>4 DEF CallIsSound, MaySent
  <2> QED
    BY <1>1, <2>1, <2>2, <2>5, <2>6, OneCallMoves
<1> QED
  BY <1>2, <1>3, <1>4, <1>5 DEF Send

LEMMA PollsKeepInv ==
  ASSUME CosignInv, NEW h \in Holders, Poll(h)
  PROVE  CosignInv'
<1>1. /\ submit \in [Holders -> Calls] /\ submit[h] \in Calls /\ CallIsSound(submit[h])
      /\ submit[h].at = "polling" /\ UNCHANGED <<tx, outcome, sequence, second, pooled>>
      /\ MaySent(submit[h])
  BY DEF CosignInv, CosignTypeOK, Poll, networkVars, MaySent
<1>2. CASE Answered(h, "NETWORK_ERROR")
  BY <1>1, <1>2, AnswersKeepInv
<1>3. CASE outcome[submit[h].tx] = "ok" /\ Answered(h, "success")
  BY <1>1, <1>3, AnswersKeepInv
<1>4. CASE outcome[submit[h].tx] = "failed" /\ Answered(h, "TRANSACTION_FAILED")
  BY <1>1, <1>4, AnswersKeepInv
<1>5. CASE submit' = [submit EXCEPT ![h].at = "sleeping", ![h].polls = submit[h].polls + 1]
  <2> DEFINE n == submit[h].polls + 1
             s == [submit[h] EXCEPT !.at = "sleeping", !.polls = n]
  <2>1. submit[h].polls \in Nat /\ submit[h].tx \in Envelopes /\ n \in Nat
    BY <1>1 DEF Calls
  <2>2. submit' = [submit EXCEPT ![h] = s]
    BY <1>1, <1>5
  <2>3. tx[submit[h].tx].until \in Nat /\ second \in Nat /\ Validity \in Nat
    BY <2>1, CosigningAssumption DEF CosignInv, CosignTypeOK
  <2>4. second + Validity >= tx[submit[h].tx].until + submit[h].polls
    BY <1>1 DEF CallIsSound
  <2>5. second + 1 + Validity >= tx[submit[h].tx].until + n
    BY <2>1, <2>3, <2>4
  <2> HIDE DEF n
  <2>6. /\ s \in Calls /\ s.at = "sleeping" /\ s.answer = submit[h].answer
        /\ s.tx = submit[h].tx /\ s.polls = n
    BY <1>1, <2>1 DEF Calls
  <2> HIDE DEF s
  <2>7. CallIsSound(s) /\ MaySent(s)
    BY <1>1, <2>5, <2>6 DEF CallIsSound, MaySent
  <2> QED
    BY <1>1, <2>2, <2>6, <2>7, OneCallMoves
<1> QED
  BY <1>2, <1>3, <1>4, <1>5 DEF Poll

LEMMA CosignStepsKeepInv ==
  ASSUME SoundCosigning, CosignInv, [CosignNext]_cosignVars
  PROVE  CosignInv'
<1>1. CASE UNCHANGED <<tx, submit, pooled, outcome, sequence, second>>
  BY <1>1 DEF CosignInv, CosignTypeOK, Reached, MaySent, CallIsSound
<1>2. ASSUME NEW h \in Holders, NEW e \in Envelopes,
             BuildMultisig(h, e) \/ Invoke(h, e)
      PROVE  CosignInv'
  BY <1>2, BuildingKeepsInv DEF BuildMultisig, Invoke
<1>3. ASSUME NEW h \in Holders, NEW e \in Envelopes, SignUnsignedTx(h, e)
      PROVE  UNCHANGED <<tx, submit, pooled, outcome, sequence, second>>
  BY <1>3 DEF SignUnsignedTx, networkVars
<1>4. ASSUME NEW h \in Holders, NEW g \in Holders, NEW e \in Envelopes, HandOver(h, g, e)
      PROVE  UNCHANGED <<tx, submit, pooled, outcome, sequence, second>>
  BY <1>4 DEF HandOver, networkVars
<1>5. CASE UNCHANGED cosignVars
  BY <1>1, <1>5 DEF cosignVars
<1> QED
  BY <1>1, <1>2, <1>3, <1>4, <1>5, SubmissionsKeepInv, SigningsKeepInv, SendsKeepInv,
     PollsKeepInv, SecondsKeepInv, ExecutionsKeepInv DEF CosignNext

(* What a submitter is told is what became of the transaction, whoever     *)
(* else submits a copy of it, for any number of holders, transactions,     *)
(* signatures and seconds (multi-sig.ts, submitSigned; circuitBreaker.ts,  *)
(* invoke).                                                                *)
THEOREM AnswersAreTrue ==
  ASSUME SoundCosigning
  PROVE  CosignSpec => []SubmittersAreToldTheTruth
<1>1. CosignInit => CosignInv
  BY CosignStarts
<1>2. CosignInv /\ [CosignNext]_cosignVars => CosignInv'
  BY CosignStepsKeepInv
<1>3. CosignInv => SubmittersAreToldTheTruth
  <2> SUFFICES ASSUME CosignInv, NEW h \in Holders
               PROVE  LET e == submit[h].tx
                          answer == submit[h].answer
                      IN /\ answer = "success" => outcome[e] = "ok"
                         /\ answer = "TRANSACTION_FAILED" => outcome[e] = "failed"
                         /\ answer \in {"SUBMISSION_FAILED", "NOT_AUTHORIZED", "SigningError"}
                              /\ Submitters(e) = {h} => outcome[e] = "none" /\ e \notin pooled
                         /\ answer = "TRANSACTION_TIMEOUT" => second >= tx[e].until
    BY DEF SubmittersAreToldTheTruth
  <2>1. CallIsSound(submit[h]) /\ submit[h].tx \in Envelopes
    BY DEF CosignInv, CosignTypeOK, Calls
  <2>2. ASSUME submit[h].answer \in {"SUBMISSION_FAILED", "NOT_AUTHORIZED", "SigningError"},
               Submitters(submit[h].tx) = {h}
        PROVE  ~Reached(submit[h].tx)
    <3>1. \A g \in Holders : submit[g].tx = submit[h].tx /\ MaySent(submit[g]) => g = h
      BY <2>2 DEF Submitters, MaySent
    <3>2. ~MaySent(submit[h])
      BY <2>1, <2>2 DEF CallIsSound, MaySent
    <3> QED
      BY <2>1, <3>1, <3>2 DEF CosignInv
  <2>3. CASE submit[h].answer \in {"SUBMISSION_FAILED", "NOT_AUTHORIZED", "SigningError"}
    BY <2>2, <2>3 DEF Reached
  <2>4. CASE submit[h].answer \notin {"SUBMISSION_FAILED", "NOT_AUTHORIZED", "SigningError"}
    BY <2>1, <2>4 DEF CallIsSound
  <2> QED
    BY <2>3, <2>4
<1> QED
  BY <1>1, <1>2, <1>3, PTL DEF CosignSpec

=============================================================================
