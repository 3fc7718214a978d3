--------------------------- MODULE CircuitBreaker ---------------------------
(***************************************************************************)
(* contracts/circuit_breaker: a quorum of trusted nodes pauses, and        *)
(* another quorum unpauses, the payment contracts.  Proposals count while  *)
(* they are inside a window of ledgers.                                    *)
(*                                                                         *)
(* Each invocation is one atomic step.  The contract's QUORUM is 5; here   *)
(* it is a parameter.  The trusted set is a Vec in the contract, hence a   *)
(* sequence, in which a node may appear twice.                             *)
(***************************************************************************)
EXTENDS Integers, Sequences, Functions, FiniteSetTheorems, TLAPS

CONSTANTS
  Nodes, Quorum,
  Rosters,          \* the trusted node lists the admin may set
  Windows,          \* the proposal windows the admin may set
  MaxLedger         \* bound: last ledger

VARIABLES
  ledger, trusted, window, paused,
  proposals,  \* PauseProposals and UnpauseProposals: when each node proposed
  calls,      \* history: when each node last called for a switch, since the
              \* switch was last executed or the trusted set rotated
  lapsed      \* history: nodes whose last proposal fell out of the window,
              \* and the window was not enlarged since

vars == <<ledger, trusted, window, paused, proposals, calls, lapsed>>

Switches == {"pause", "unpause"}
Ledgers == 1..MaxLedger

\* No entry in the map; ledgers are numbered from 1.
NoProposals == [n \in Nodes |-> 0]

SaturatingSub(a, b) == IF a > b THEN a - b ELSE 0

Init ==
  /\ ledger = 1
  /\ trusted \in Rosters
  /\ window \in Windows
  /\ paused = FALSE
  /\ proposals = [s \in Switches |-> NoProposals]
  /\ calls = [s \in Switches |-> NoProposals]
  /\ lapsed = [s \in Switches |-> {}]

-----------------------------------------------------------------------------
MutantIsValid(at) == at > 0

IsValid(at) == at > 0 /\ at >= SaturatingSub(ledger, window)

\* count_valid goes through the list, not through the set of its nodes.
CountValid(s) ==
  Cardinality({i \in DOMAIN trusted : IsValid(proposals[s][trusted[i]])})

Valid(s) == {n \in Range(trusted) : IsValid(proposals[s][n])}

Without(table, S) ==
  [s \in Switches |-> IF s \in S THEN NoProposals ELSE table[s]]

\* What a rotation or an execution of the switches S does to the history.
Forget(S) ==
  /\ calls' = Without(calls, S)
  /\ lapsed' = [s \in Switches |-> IF s \in S THEN {} ELSE lapsed[s]]

MutantRotate(roster) ==
  /\ trusted' = roster
  /\ Forget(Switches)
  /\ UNCHANGED <<ledger, window, paused, proposals>>

\* set_trusted_nodes: a rotation drops every proposal.
Rotate(roster) ==
  /\ trusted' = roster
  /\ proposals' = Without(proposals, Switches)
  /\ Forget(Switches)
  /\ UNCHANGED <<ledger, window, paused>>

\* The proposals that a window of w has let lapse by ledger l.
LapsedBy(l, w, s) == {n \in Nodes : proposals[s][n] > 0 /\ proposals[s][n] + w < l}

\* The proposals stay: a larger window revives those that lapsed.
SetProposeWindow(w) ==
  /\ window' = w
  /\ lapsed' = [s \in Switches |-> LapsedBy(ledger, w, s)
                   \cup (IF w > window THEN {} ELSE lapsed[s])]
  /\ UNCHANGED <<ledger, trusted, paused, proposals, calls>>

\* propose_pause has a cooldown, propose_unpause has none.
CooledDown(s, n) ==
  \/ s = "unpause"
  \/ proposals[s][n] = 0
  \/ ledger >= proposals[s][n] + window

Propose(s, n) ==
  /\ n \in Range(trusted)
  /\ CooledDown(s, n)
  /\ proposals' = [proposals EXCEPT ![s][n] = ledger]
  /\ calls' = [calls EXCEPT ![s][n] = ledger]
  /\ lapsed' = [lapsed EXCEPT ![s] = @ \ {n}]
  /\ UNCHANGED <<ledger, trusted, window, paused>>

\* execute_pause and unpause.
Execute(s) ==
  /\ CountValid(s) >= Quorum
  /\ paused' = (s = "pause")
  /\ proposals' = Without(proposals, {s})
  /\ Forget({s})
  /\ UNCHANGED <<ledger, trusted, window>>

CloseLedger ==
  /\ ledger < MaxLedger
  /\ ledger' = ledger + 1
  /\ lapsed' = [s \in Switches |-> lapsed[s] \cup LapsedBy(ledger', window, s)]
  /\ UNCHANGED <<trusted, window, paused, proposals, calls>>

Next ==
  \/ \E roster \in Rosters : Rotate(roster)
  \/ \E w \in Windows : SetProposeWindow(w)
  \/ \E s \in Switches, n \in Nodes : Propose(s, n)
  \/ \E s \in Switches : Execute(s)
  \/ CloseLedger

Spec == Init /\ [][Next]_vars

-----------------------------------------------------------------------------
TypeOK ==
  /\ ledger \in Ledgers
  /\ trusted \in Rosters
  /\ window \in Windows
  /\ paused \in BOOLEAN
  /\ proposals \in [Switches -> [Nodes -> 0..ledger]]
  /\ calls \in [Switches -> [Nodes -> 0..ledger]]
  /\ lapsed \in [Switches -> SUBSET Nodes]

\* The trusted nodes that called for a switch inside the window, since its
\* proposals were last used up or dropped by a rotation.
Approvers(s) ==
  {n \in Range(trusted) : calls[s][n] > 0 /\ calls[s][n] + window >= ledger}

(* "Minimum number of distinct trusted nodes that must propose (within the *)
(* validity window) before a pause or unpause can be executed", whose      *)
(* proposals are used once, are no proposals of the other switch, and are  *)
(* no older than the last rotation (set_trusted_nodes): the flag changes   *)
(* only with as many approvers.                                            *)
SwitchIsApproved ==
  [][paused' # paused =>
       LET s == IF paused' THEN "pause" ELSE "unpause"
       IN Cardinality(Approvers(s)) >= Quorum]_vars

(* count_valid: "A stale proposal from days ago falls out of the window    *)
(* and stops counting": a proposal that fell out never counts again, as    *)
(* long as the admin does not enlarge the window (set_propose_window).     *)
StaleStaysStale == \A s \in Switches : Valid(s) \cap lapsed[s] = {}

-----------------------------------------------------------------------------
(* For any nodes, rosters, windows and quorum.                             *)

\* What the theorems assume of the constants.
SoundConstants ==
  /\ MaxLedger \in Nat \ {0}
  /\ Windows \subseteq Nat
  /\ Rosters \subseteq Seq(Nodes)

\* Whether count_valid counts a proposal, said with an addition.
InWindow(at) == at > 0 /\ at + window >= ledger

\* The history variables agree with what is stored.
HistoryIsSound ==
  /\ \A s \in Switches, n \in Nodes : calls[s][n] = proposals[s][n]
  /\ \A s \in Switches : \A n \in lapsed[s] : ~InWindow(proposals[s][n])

Inv == TypeOK /\ HistoryIsSound

LEMMA Counted ==
  ASSUME SoundConstants, TypeOK, NEW at \in Nat
  PROVE  IsValid(at) <=> InWindow(at)
<1>1. ledger \in Nat /\ window \in Nat
  BY DEF SoundConstants, TypeOK, Ledgers
<1> QED
  BY <1>1 DEF IsValid, InWindow, SaturatingSub

LEMMA ProposalsAreDated ==
  ASSUME SoundConstants, TypeOK
  PROVE  /\ ledger \in Nat \ {0} /\ window \in Nat
         /\ proposals \in [Switches -> [Nodes -> 0..ledger]]
         /\ \A s \in Switches, n \in Nodes : proposals[s][n] \in Nat
BY DEF SoundConstants, TypeOK, Ledgers

LEMMA InitInv == SoundConstants /\ Init => Inv
<1> SUFFICES ASSUME SoundConstants, Init PROVE Inv
  OBVIOUS
<1>1. TypeOK
  <2>1. ledger \in Ledgers /\ 0 \in 0..ledger
    BY DEF SoundConstants, Init, Ledgers
  <2>2. NoProposals \in [Nodes -> 0..ledger]
    BY <2>1 DEF NoProposals
  <2> QED
    BY <2>1, <2>2 DEF Init, TypeOK
<1>2. HistoryIsSound
  BY DEF Init, HistoryIsSound, NoProposals
<1> QED
  BY <1>1, <1>2 DEF Inv

LEMMA RotateInv ==
  ASSUME SoundConstants, Inv, NEW roster \in Rosters, Rotate(roster)
  PROVE  Inv'
<1>1. /\ proposals' = [s \in Switches |-> [n \in Nodes |-> 0]]
      /\ calls' = [s \in Switches |-> [n \in Nodes |-> 0]]
      /\ lapsed' = [s \in Switches |-> {}]
      /\ trusted' = roster
      /\ UNCHANGED <<ledger, window, paused>>
  BY DEF Rotate, Forget, Without, NoProposals
<1>2. TypeOK'
  BY <1>1, ProposalsAreDated DEF Inv, TypeOK
<1>3. HistoryIsSound'
  BY <1>1 DEF HistoryIsSound
<1> QED
  BY <1>2, <1>3 DEF Inv

LEMMA SetProposeWindowInv ==
  ASSUME SoundConstants, Inv, NEW w \in Windows, SetProposeWindow(w)
  PROVE  Inv'
<1>1. /\ window' = w
      /\ lapsed' = [s \in Switches |-> LapsedBy(ledger, w, s)
                      \cup (IF w > window THEN {} ELSE lapsed[s])]
      /\ UNCHANGED <<ledger, trusted, paused, proposals, calls>>
  BY DEF SetProposeWindow
<1>2. w \in Nat /\ ledger \in Nat /\ window \in Nat
      /\ \A s \in Switches, n \in Nodes : proposals[s][n] \in Nat
  BY ProposalsAreDated DEF SoundConstants, Inv
<1>3. \A s \in Switches : LapsedBy(ledger, w, s) \subseteq Nodes
  BY DEF LapsedBy
<1>4. lapsed \in [Switches -> SUBSET Nodes]
  BY DEF Inv, TypeOK
<1>5. TypeOK'
  BY <1>1, <1>3, <1>4 DEF Inv, TypeOK
<1>6. ASSUME NEW s \in Switches, NEW n \in lapsed'[s]
      PROVE  ~(proposals[s][n] > 0 /\ proposals[s][n] + w >= ledger)
  <2>1. n \in Nodes
    BY <1>1, <1>3, <1>4
  <2>2. CASE n \in LapsedBy(ledger, w, s)
    BY <1>2, <2>1, <2>2 DEF LapsedBy
  <2>3. CASE n \in lapsed[s] /\ ~(w > window)
    <3>1. ~InWindow(proposals[s][n])
      BY <2>3 DEF Inv, HistoryIsSound
    <3> QED
      BY <1>2, <2>1, <2>3, <3>1 DEF InWindow
  <2> QED
    BY <1>1, <2>2, <2>3
<1>7. HistoryIsSound'
  BY <1>1, <1>6 DEF Inv, HistoryIsSound, InWindow
<1> QED
  BY <1>5, <1>7 DEF Inv

LEMMA ProposeInv ==
  ASSUME SoundConstants, Inv, NEW s \in Switches, NEW n \in Nodes, Propose(s, n)
  PROVE  Inv'
<1>1. /\ proposals' = [proposals EXCEPT ![s][n] = ledger]
      /\ calls' = [calls EXCEPT ![s][n] = ledger]
      /\ lapsed' = [lapsed EXCEPT ![s] = @ \ {n}]
      /\ UNCHANGED <<ledger, trusted, window, paused>>
  BY DEF Propose
<1>2. /\ proposals \in [Switches -> [Nodes -> 0..ledger]]
      /\ calls \in [Switches -> [Nodes -> 0..ledger]]
      /\ lapsed \in [Switches -> SUBSET Nodes]
      /\ ledger \in 0..ledger
  BY ProposalsAreDated DEF Inv, TypeOK
<1>3. /\ proposals' \in [Switches -> [Nodes -> 0..ledger]]
      /\ calls' \in [Switches -> [Nodes -> 0..ledger]]
      /\ lapsed' \in [Switches -> SUBSET Nodes]
  BY <1>1, <1>2
<1>4. TypeOK'
  BY <1>1, <1>3 DEF Inv, TypeOK
<1>5. \A t \in Switches, m \in Nodes :
        /\ proposals'[t][m] = IF t = s /\ m = n THEN ledger ELSE proposals[t][m]
        /\ calls'[t][m] = IF t = s /\ m = n THEN ledger ELSE calls[t][m]
  BY <1>1, <1>2
<1>6. \A t \in Switches : \A m \in lapsed'[t] :
        m \in Nodes /\ m \in lapsed[t] /\ ~(t = s /\ m = n)
  BY <1>1, <1>2
<1>7. HistoryIsSound'
  BY <1>1, <1>5, <1>6 DEF Inv, HistoryIsSound, InWindow
<1> QED
  BY <1>4, <1>7 DEF Inv

LEMMA ExecuteInv ==
  ASSUME SoundConstants, Inv, NEW s \in Switches, Execute(s)
  PROVE  Inv'
<1>1. /\ \A t \in Switches :
           /\ proposals'[t] = IF t = s THEN NoProposals ELSE proposals[t]
           /\ calls'[t] = IF t = s THEN NoProposals ELSE calls[t]
           /\ lapsed'[t] = IF t = s THEN {} ELSE lapsed[t]
      /\ paused' \in BOOLEAN
      /\ UNCHANGED <<ledger, trusted, window>>
  BY DEF Execute, Without, Forget
<1>2. NoProposals \in [Nodes -> 0..ledger]
  BY ProposalsAreDated DEF NoProposals, Inv
<1>3. /\ proposals' \in [Switches -> [Nodes -> 0..ledger]]
      /\ calls' \in [Switches -> [Nodes -> 0..ledger]]
      /\ lapsed' \in [Switches -> SUBSET Nodes]
  BY <1>2 DEF Execute, Without, Forget, Inv, TypeOK
<1>4. TypeOK'
  BY <1>1, <1>3 DEF Inv, TypeOK
<1>5. HistoryIsSound'
  BY <1>1 DEF Inv, HistoryIsSound, InWindow
<1> QED
  BY <1>4, <1>5 DEF Inv

LEMMA CloseLedgerInv ==
  ASSUME SoundConstants, Inv, CloseLedger
  PROVE  Inv'
<1>1. /\ ledger < MaxLedger /\ ledger' = ledger + 1
      /\ lapsed' = [s \in Switches |-> lapsed[s] \cup LapsedBy(ledger', window, s)]
      /\ UNCHANGED <<trusted, window, paused, proposals, calls>>
  BY DEF CloseLedger
<1>2. /\ ledger \in Nat /\ ledger' \in Nat /\ window \in Nat
      /\ \A s \in Switches, n \in Nodes : proposals[s][n] \in Nat
  BY <1>1, ProposalsAreDated DEF Inv
<1>3. \A s \in Switches : LapsedBy(ledger', window, s) \subseteq Nodes
  BY DEF LapsedBy
<1>4. TypeOK'
  <2>1. ledger' \in Ledgers
    BY <1>1 DEF SoundConstants, Inv, TypeOK, Ledgers
  <2>2. 0..ledger \subseteq 0..ledger'
    BY <1>1, <1>2
  <2>3. /\ proposals \in [Switches -> [Nodes -> 0..ledger']]
        /\ calls \in [Switches -> [Nodes -> 0..ledger']]
    BY <2>2 DEF Inv, TypeOK
  <2>4. lapsed' \in [Switches -> SUBSET Nodes]
    BY <1>1, <1>3 DEF Inv, TypeOK
  <2> QED
    BY <1>1, <2>1, <2>3, <2>4 DEF Inv, TypeOK
<1>5. ASSUME NEW s \in Switches, NEW n \in lapsed'[s]
      PROVE  ~(proposals[s][n] > 0 /\ proposals[s][n] + window >= ledger')
  <2>1. n \in Nodes
    BY <1>1, <1>3 DEF Inv, TypeOK
  <2>2. CASE n \in LapsedBy(ledger', window, s)
    BY <1>2, <2>1, <2>2 DEF LapsedBy
  <2>3. CASE n \in lapsed[s]
    <3>1. ~InWindow(proposals[s][n])
      BY <2>3 DEF Inv, HistoryIsSound
    <3> QED
      BY <1>1, <1>2, <2>1, <3>1 DEF InWindow
  <2> QED
    BY <1>1, <2>2, <2>3
<1>6. HistoryIsSound'
  BY <1>1, <1>5 DEF Inv, HistoryIsSound, InWindow
<1> QED
  BY <1>4, <1>6 DEF Inv

LEMMA NextInv == SoundConstants /\ Inv /\ [Next]_vars => Inv'
<1> SUFFICES ASSUME SoundConstants, Inv, [Next]_vars PROVE Inv'
  OBVIOUS
<1>1. CASE UNCHANGED vars
  BY <1>1 DEF vars, Inv, TypeOK, HistoryIsSound, InWindow
<1> QED
  BY <1>1, RotateInv, SetProposeWindowInv, ProposeInv, ExecuteInv,
     CloseLedgerInv DEF Next

LEMMA InvIsStale == SoundConstants /\ Inv => StaleStaysStale
<1> SUFFICES ASSUME SoundConstants, Inv, NEW s \in Switches, NEW n \in lapsed[s]
             PROVE  ~IsValid(proposals[s][n])
  BY DEF StaleStaysStale, Valid
<1>1. n \in Nodes /\ proposals[s][n] \in Nat
  BY ProposalsAreDated DEF Inv, TypeOK
<1> QED
  BY <1>1, Counted DEF Inv, HistoryIsSound

(* StaleStaysStale, for any nodes, rosters and windows: a proposal that    *)
(* fell out of the window does not count again while the admin does not    *)
(* enlarge the window (count_valid, set_propose_window).                   *)
THEOREM StaleProposalsStayStale ==
  ASSUME SoundConstants
  PROVE  Spec => [](TypeOK /\ StaleStaysStale)
<1>1. Inv => TypeOK /\ StaleStaysStale
  BY InvIsStale DEF Inv
<1> QED
  BY <1>1, InitInv, NextInv, PTL DEF Spec

-----------------------------------------------------------------------------
\* set_trusted_nodes does not look for an address that appears twice.
DistinctRosters ==
  \A r \in Rosters : \A i, j \in 1..Len(r) : r[i] = r[j] => i = j

(* When no node is listed twice, count_valid counts nodes.                 *)
LEMMA CountIsOfApprovers ==
  ASSUME SoundConstants, DistinctRosters, Inv, NEW s \in Switches
  PROVE  Cardinality(Approvers(s)) = CountValid(s)
<1> DEFINE places == {i \in DOMAIN trusted : IsValid(proposals[s][trusted[i]])}
           node == [i \in places |-> trusted[i]]
<1>1. trusted \in Rosters /\ trusted \in Seq(Nodes) /\ Len(trusted) \in Nat
      /\ DOMAIN trusted = 1..Len(trusted)
  BY DEF SoundConstants, Inv, TypeOK
<1>2. IsFiniteSet(1..Len(trusted))
  BY <1>1, FS_Interval
<1>3. places \subseteq 1..Len(trusted)
  BY <1>1
<1>4. IsFiniteSet(places)
  BY <1>2, <1>3, FS_Subset
<1>5. \A i \in 1..Len(trusted) :
        /\ trusted[i] \in Nodes
        /\ IsValid(proposals[s][trusted[i]]) <=>
             calls[s][trusted[i]] > 0 /\ calls[s][trusted[i]] + window >= ledger
  <2> SUFFICES ASSUME NEW i \in 1..Len(trusted)
               PROVE  /\ trusted[i] \in Nodes
                      /\ IsValid(proposals[s][trusted[i]]) <=>
                           /\ calls[s][trusted[i]] > 0
                           /\ calls[s][trusted[i]] + window >= ledger
    OBVIOUS
  <2>1. trusted[i] \in Nodes
    BY <1>1
  <2>2. proposals[s][trusted[i]] \in Nat
    BY <2>1, ProposalsAreDated DEF Inv
  <2>3. calls[s][trusted[i]] = proposals[s][trusted[i]]
    BY <2>1 DEF Inv, HistoryIsSound
  <2> QED
    BY <2>1, <2>2, <2>3, Counted DEF Inv, InWindow
<1>6. Approvers(s) = {trusted[i] : i \in places}
  BY <1>1, <1>5 DEF Approvers, Range
<1>7. \A i, j \in places : trusted[i] = trusted[j] => i = j
  BY <1>1, <1>3 DEF DistinctRosters
<1> HIDE DEF places
<1>8. node \in Bijection(places, Approvers(s))
  <2>1. node \in [places -> Approvers(s)]
    BY <1>6
  <2>2. IsInjective(node)
    BY <1>7 DEF IsInjective
  <2>3. \A n \in Approvers(s) : \E i \in places : node[i] = n
    BY <1>6
  <2> QED
    BY <2>1, <2>2, <2>3 DEF Bijection, Injection, Surjection
<1> HIDE DEF node
<1>9. Cardinality(places) = Cardinality(Approvers(s))
  BY <1>4, <1>8, FS_Bijection DEF ExistsBijection
<1> QED
  BY <1>9 DEF CountValid, places

(* SwitchIsApproved, for any quorum and any rotations: nothing pauses or   *)
(* unpauses without as many nodes that are trusted now and called for it   *)
(* within the window, since it was last executed and since the trusted     *)
(* nodes last changed.                                                     *)
THEOREM SwitchesAreApproved ==
  ASSUME SoundConstants, DistinctRosters
  PROVE  Spec => SwitchIsApproved
<1>1. ASSUME Inv, [Next]_vars, paused' # paused
      PROVE  LET s == IF paused' THEN "pause" ELSE "unpause"
             IN Cardinality(Approvers(s)) >= Quorum
  <2>1. PICK s \in Switches : Execute(s)
    BY <1>1 DEF Next, Rotate, SetProposeWindow, Propose, CloseLedger, vars
  <2>2. (IF paused' THEN "pause" ELSE "unpause") = s
    BY <2>1 DEF Execute, Switches
  <2>3. CountValid(s) >= Quorum
    BY <2>1 DEF Execute
  <2> QED
    BY <1>1, <2>2, <2>3, CountIsOfApprovers
<1> QED
  BY <1>1, InitInv, NextInv, PTL DEF Spec, SwitchIsApproved
=============================================================================
