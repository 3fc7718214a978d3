----------------------------- MODULE Governance -----------------------------
(***************************************************************************)
(* contracts/governance: owners propose administrative calls, approve them *)
(* k of n, and execute them after a timelock and before they expire.       *)
(*                                                                         *)
(* An invocation that returns an error or traps is rolled back, so each    *)
(* successful invocation is one step and each error is a guard.  Hence     *)
(* the status Expired, which approve and execute write just before they    *)
(* return an error, is never stored.  A contract is initialized at once.   *)
(***************************************************************************)
EXTENDS Naturals, Sequences, FiniteSets

CONSTANTS
  Accounts,
  Timelocks, Ttls,  \* the delays and lifetimes that may be asked for
  Requests,         \* the calls that may be proposed
  MaxProposals,     \* bound: proposals ever made
  MaxLedger         \* bound: last ledger

\* A repeated owner is rejected, so a list of owners is a set.
AllRequests ==
  [action : {"rotate_owners"}, owners : SUBSET Accounts, threshold : Nat]
    \cup [action : {"set_timelock"}, delay : Timelocks]
    \cup [action : {"set_proposal_ttl"}, ttl : Ttls]
    \cup [action : {"call"}]

ASSUME GovernanceAssumption ==
  /\ IsFiniteSet(Accounts)
  /\ Timelocks \subseteq Nat /\ Ttls \subseteq Nat
  /\ Requests \subseteq AllRequests
  /\ MaxProposals \in Nat /\ MaxLedger \in Nat

VARIABLES
  ledger,
  config,     \* Owners, Threshold, TimelockDelay, ProposalTtl
  proposals,  \* the stored proposals, by id - 1
  approvals,  \* how many addresses each proposal's Approvals lists
  voters,     \* whose HasApproved flag is set for each proposal
  ready       \* history: when the vote that completed a quorum takes effect

vars == <<ledger, config, proposals, approvals, voters, ready>>

Ids == DOMAIN proposals
Never == 0

Config == [owners : SUBSET Accounts, threshold : Nat, timelock : Nat, ttl : Nat]

ValidOwners(owners, threshold) ==
  /\ owners # {}
  /\ threshold \in 1..Cardinality(owners)

Proposal ==
  [proposer : Accounts, request : Requests,
   status : {"Pending", "Approved", "Executed", "Cancelled"},
   created : Nat, eta : Nat]

Init ==
  /\ ledger = 1
  /\ config \in [owners : SUBSET Accounts, threshold : 1..Cardinality(Accounts),
                 timelock : Timelocks, ttl : Ttls]
  /\ ValidOwners(config.owners, config.threshold)
  /\ config.timelock < config.ttl
  /\ proposals = <<>>
  /\ approvals = <<>>
  /\ voters = <<>>
  /\ ready = <<>>

-----------------------------------------------------------------------------
IsExpired(p) == ledger > proposals[p].created + config.ttl

\* The proposer's own approval may complete the quorum.
Propose(owner, request) ==
  LET quorum == 1 >= config.threshold
      eta == IF quorum THEN ledger + config.timelock ELSE Never
  IN /\ Len(proposals) < MaxProposals
     /\ owner \in config.owners
     /\ proposals' = Append(proposals,
          [proposer |-> owner, request |-> request,
           status |-> IF quorum THEN "Approved" ELSE "Pending",
           created |-> ledger, eta |-> eta])
     /\ approvals' = Append(approvals, 1)
     /\ voters' = Append(voters, {owner})
     /\ ready' = Append(ready, eta)
     /\ UNCHANGED <<ledger, config>>

\* The approval that completes the quorum starts the timelock, once.
Approve(owner, p) ==
  LET count == approvals[p] + 1
      everyone == voters[p] \cup {owner}
      eta == ledger + config.timelock
      isFirst == count >= config.threshold /\ proposals[p].eta = Never
  IN /\ p \in Ids
     /\ owner \in config.owners
     /\ ~IsExpired(p)
     /\ proposals[p].status \in {"Pending", "Approved"}
     /\ owner \notin voters[p]
     /\ approvals' = [approvals EXCEPT ![p] = count]
     /\ voters' = [voters EXCEPT ![p] = everyone]
     /\ proposals' = IF isFirst
          THEN [proposals EXCEPT ![p].status = "Approved", ![p].eta = eta]
          ELSE proposals
     /\ ready' = IF ready[p] = Never /\ Cardinality(everyone) >= config.threshold
                 THEN [ready EXCEPT ![p] = eta] ELSE ready
     /\ UNCHANGED <<ledger, config>>

\* Off by one.
MutantAccepts(request) ==
  /\ request.action = "rotate_owners" =>
       ValidOwners(request.owners, request.threshold)
  /\ request.action = "set_timelock" => request.delay <= config.ttl
  /\ request.action = "set_proposal_ttl" => request.ttl > config.timelock

\* What execute_internal_action refuses; a contract called may refuse too.
Accepts(request) ==
  /\ request.action = "rotate_owners" =>
       ValidOwners(request.owners, request.threshold)
  /\ request.action = "set_timelock" => request.delay < config.ttl
  /\ request.action = "set_proposal_ttl" => request.ttl > config.timelock

Reconfigured(request) ==
  CASE request.action = "rotate_owners" ->
         [config EXCEPT !.owners = request.owners,
                        !.threshold = request.threshold]
    [] request.action = "set_timelock" ->
         [config EXCEPT !.timelock = request.delay]
    [] request.action = "set_proposal_ttl" ->
         [config EXCEPT !.ttl = request.ttl]
    [] OTHER -> config

\* The quorum is trusted to have been counted once.
MutantMayExecute(p) ==
  /\ proposals[p].status # "Executed"
  /\ ~IsExpired(p)
  /\ proposals[p].eta # Never
  /\ ledger >= proposals[p].eta

\* The quorum is counted again, with the threshold of now.
MayExecute(p) ==
  /\ proposals[p].status # "Executed"
  /\ ~IsExpired(p)
  /\ approvals[p] >= config.threshold
  /\ proposals[p].eta # Never
  /\ ledger >= proposals[p].eta

\* Anyone may execute.
Execute(p) ==
  /\ p \in Ids
  /\ MayExecute(p)
  /\ proposals' = [proposals EXCEPT ![p].status = "Executed"]
  /\ Accepts(proposals[p].request)
  /\ config' = Reconfigured(proposals[p].request)
  /\ UNCHANGED <<ledger, approvals, voters, ready>>

Cancelled(p) ==
  /\ proposals' = [proposals EXCEPT ![p].status = "Cancelled"]
  /\ UNCHANGED <<ledger, config, approvals, voters, ready>>

MutantCancel(caller, p) ==
  /\ p \in Ids
  /\ caller = proposals[p].proposer \/ caller \in config.owners
  /\ Cancelled(p)

Cancel(caller, p) ==
  /\ p \in Ids
  /\ caller = proposals[p].proposer \/ caller \in config.owners
  /\ proposals[p].status # "Executed"
  /\ Cancelled(p)

CloseLedger ==
  /\ ledger < MaxLedger
  /\ ledger' = ledger + 1
  /\ UNCHANGED <<config, proposals, approvals, voters, ready>>

Next ==
  \/ \E a \in Accounts, request \in Requests : Propose(a, request)
  \/ \E a \in Accounts, p \in Ids : Approve(a, p) \/ Cancel(a, p)
  \/ \E p \in Ids : Execute(p)
  \/ CloseLedger

Spec == Init /\ [][Next]_vars

-----------------------------------------------------------------------------
TypeOK ==
  /\ ledger \in Nat \ {0}
  /\ config \in Config
  /\ proposals \in Seq(Proposal)
  /\ approvals \in [Ids -> Nat]
  /\ voters \in [Ids -> SUBSET Accounts]
  /\ ready \in [Ids -> Nat]

(* Self-governed rotation: whatever proposals were executed, in whatever   *)
(* order, the owners can still reach a quorum, and a proposal that reaches *)
(* one when it is made outlives its timelock.  Nobody else could repair a  *)
(* contract in which that fails.                                           *)
Governable ==
  /\ config.threshold \in 1..Cardinality(config.owners)
  /\ config.timelock < config.ttl

Executes(p) == proposals[p].status # "Executed" /\ proposals'[p].status = "Executed"

(* "k-of-n Quorum", "Timelock Delay" and "Proposal Expiry" (the contract's *)
(* key invariants 1 to 3), across rotations and changed delays: an action  *)
(* is executed only with as many distinct approvals, each of somebody who  *)
(* was an owner when giving it, as the threshold in force demands; not     *)
(* before the delay in force at the completing vote is over; and not after *)
(* the proposal expired.                                                   *)
ExecutedWithQuorum ==
  [][\A p \in Ids : Executes(p) =>
       /\ Cardinality(voters[p]) >= config.threshold
       /\ ready[p] # Never /\ ledger >= ready[p]
       /\ ledger <= proposals[p].created + config.ttl]_vars

(* "Replay Protection" (key invariant 4): an executed proposal stays so,   *)
(* whoever approves or cancels it afterwards, so it acts once.             *)
ExecutedOnce ==
  [][\A p \in Ids :
       proposals[p].status = "Executed" => proposals'[p].status = "Executed"]_vars

(* test.rs: "Cancelled proposal cannot be approved or executed".           *)
CancelledIsNotExecuted ==
  [][\A p \in Ids : proposals[p].status = "Cancelled" => ~Executes(p)]_vars
=============================================================================
