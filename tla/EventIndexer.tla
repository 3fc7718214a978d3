---------------------------- MODULE EventIndexer ----------------------------
(***************************************************************************)
(* packages/indexer: the process that copies contract events from a        *)
(* Soroban RPC into its event store.  Every poll re-reads the last ledgers *)
(* it committed, page by page, and replaces that range in one transaction; *)
(* the chain grows and forks meanwhile.                                    *)
(*                                                                         *)
(* A ledger holds at most one event of the indexed contracts, identified   *)
(* by its ledger and by the fork that closed it.                           *)
(***************************************************************************)
EXTENDS Integers, Sequences, FiniteSets, FiniteSetsExt

CONSTANTS
  StartLedger, RollbackWindow, FinalityLag, PageSize,
  Depth,            \* a fork replaces at most that many ledgers
  MaxHead,          \* bound: last ledger of the chain
  MaxForks,         \* bound: forks
  MaxFailures,      \* bound: crashes, and RPC errors before tailing
  MaxBlips,         \* bound: RPC errors while tailing
  Kinds,            \* what a ledger may hold
  NoRun

ASSUME IndexerAssumption ==
  /\ StartLedger \in 1..MaxHead + 1
  /\ RollbackWindow \in Nat
  /\ FinalityLag \in Nat
  /\ PageSize \in Nat \ {0}
  /\ Depth \in Nat
  /\ MaxHead \in Nat /\ MaxForks \in Nat
  /\ MaxFailures \in Nat /\ MaxBlips \in Nat
  \* nothing, an event, an event that decode rejects
  /\ Kinds \subseteq {"none", "event", "garbled"}

VARIABLES
  chain,      \* the canonical ledgers, from 1 to the head
  forks,      \* forks so far
  process,    \* "down", "starting" (first run), "tailing", "stalled"
  run,        \* the run in progress: what runOnceInternal holds
  stored,     \* the events table
  next,       \* the checkpoint: next ledger; 0 in a fresh database
  failures, blips

indexerVars == <<chain, forks, process, run, stored, next, failures, blips>>

Block == [fork : 0..MaxForks, kind : Kinds]

\* An event as the RPC identifies it.
Item == [ledger : 1..MaxHead, fork : 0..MaxForks]
ItemAt(l) == [ledger |-> l, fork |-> chain[l].fork]

Run ==
  [from : 1..MaxHead + 1, latest : 0..MaxHead, fetched : SUBSET Item,
   after : 0..MaxHead, done : BOOLEAN]

Within(item, from, through) == from <= item.ledger /\ item.ledger <= through

IndexerInit ==
  /\ chain = <<>>
  /\ forks = 0
  /\ process = "starting"
  /\ run = NoRun
  /\ stored = {}
  /\ next = 0
  /\ failures = 0
  /\ blips = 0

-----------------------------------------------------------------------------
(* The chain the RPC reports.                                              *)

CloseLedger(kind) ==
  /\ Len(chain) < MaxHead
  /\ chain' = Append(chain, [fork |-> forks, kind |-> kind])
  /\ UNCHANGED <<forks, process, run, stored, next, failures, blips>>

\* Ledger l and everything after it are replaced.
Fork(l, kinds) ==
  /\ forks < MaxForks
  /\ l \in 1..Len(chain)
  /\ l > Len(chain) - Depth
  /\ forks' = forks + 1
  /\ chain' = [m \in 1..Len(chain) |->
       IF m < l THEN chain[m]
                ELSE [fork |-> forks + 1, kind |-> kinds[m - l + 1]]]
  /\ UNCHANGED <<process, run, stored, next, failures, blips>>

-----------------------------------------------------------------------------
(* A run: fetch every page, then commit.                                   *)

MutantResumeAt == IF next = 0 THEN StartLedger ELSE next

ResumeAt ==
  LET checkpoint == IF next = 0 THEN StartLedger ELSE next
  IN Max({StartLedger, checkpoint - RollbackWindow})

Begin(from) ==
  /\ run = NoRun
  /\ run' = [from |-> from, latest |-> from - 1, fetched |-> {},
             after |-> from - 1, done |-> FALSE]
  /\ UNCHANGED <<chain, forks, process, stored, next, failures, blips>>

\* runOnce of the live tail, and catchUp without --from-ledger.
Poll == process \in {"starting", "tailing"} /\ Begin(ResumeAt)

\* catchUp at start-up with --from-ledger: a replay of what was indexed.
CatchUpFrom(from) ==
  /\ process = "starting"
  /\ from >= StartLedger
  /\ from < next
  /\ Begin(from)

\* One getEvents call.  The head is the one the first page reported.
Latest == IF run.latest < run.from THEN Len(chain) ELSE run.latest

FetchPage ==
  /\ run # NoRun
  /\ ~run.done
  /\ LET due == {l \in run.after + 1..Len(chain) : chain[l].kind # "none"}
         page == {l \in due : Cardinality({m \in due : m < l}) < PageSize}
         full == Cardinality(page) = PageSize
     IN run' = [run EXCEPT
                  !.latest = Latest,
                  !.fetched = @ \cup
                    {ItemAt(l) : l \in {m \in page : chain[m].kind = "event"}},
                  !.after = IF full THEN Max(page) ELSE @,
                  !.done = ~full]
  /\ UNCHANGED <<chain, forks, process, stored, next, failures, blips>>

MutantThrough == Max({run.from - 1, run.latest})

\* The last ledger a run commits: the head is held back.
Through == Max({run.from - 1, run.latest - FinalityLag})

\* The events table after the range was deleted and filled again.
Replaced(from, through, new) ==
  {i \in stored : ~Within(i, from, through)}
    \cup {i \in new : Within(i, from, through)}

\* replaceRange, and the end of the run.
Commit ==
  /\ run # NoRun
  /\ run.done
  /\ IF Through >= run.from
     THEN /\ stored' = Replaced(run.from, Through, run.fetched)
          /\ next' = Through + 1
     ELSE UNCHANGED <<stored, next>>
  /\ run' = NoRun
  /\ process' = "tailing"
  /\ UNCHANGED <<chain, forks, failures, blips>>

-----------------------------------------------------------------------------
(* Failures.  A crash, or an error of the first run, ends the process and  *)
(* a supervisor starts it again.  An error while tailing makes liveTail    *)
(* reject, but the API server keeps the process alive: nothing polls any   *)
(* more, and nothing restarts it.                                          *)

IndexerCrash ==
  /\ failures < MaxFailures
  /\ process # "down"
  /\ failures' = failures + 1
  /\ process' = "down"
  /\ run' = NoRun
  /\ UNCHANGED <<chain, forks, stored, next, blips>>

RpcFails ==
  /\ run # NoRun
  /\ ~run.done
  /\ IF process = "starting"
     THEN /\ failures < MaxFailures
          /\ failures' = failures + 1
          /\ process' = "down"
          /\ UNCHANGED blips
     ELSE /\ blips < MaxBlips
          /\ blips' = blips + 1
          /\ process' = "stalled"
          /\ UNCHANGED failures
  /\ run' = NoRun
  /\ UNCHANGED <<chain, forks, stored, next>>

Start ==
  /\ process = "down"
  /\ process' = "starting"
  /\ UNCHANGED <<chain, forks, run, stored, next, failures, blips>>

-----------------------------------------------------------------------------
ChainMoves ==
  \/ \E kind \in Kinds : CloseLedger(kind)
  \/ \E l \in 1..Len(chain) :
       \E kinds \in [1..Len(chain) - l + 1 -> Kinds] : Fork(l, kinds)

Indexes ==
  \/ Poll
  \/ \E from \in 1..MaxHead : CatchUpFrom(from)
  \/ FetchPage
  \/ Commit

IndexerNext ==
  \/ ChainMoves
  \/ Indexes
  \/ IndexerCrash \/ RpcFails \/ Start

IndexerSpec == IndexerInit /\ [][IndexerNext]_indexerVars

\* The tail polls for ever, the RPC answers, a dead process is restarted.
IndexerFairness ==
  /\ WF_indexerVars(Poll) /\ WF_indexerVars(FetchPage)
  /\ WF_indexerVars(Commit) /\ WF_indexerVars(Start)

IndexerFairSpec == IndexerSpec /\ IndexerFairness

-----------------------------------------------------------------------------
IndexerTypeOK ==
  /\ chain \in Seq(Block) /\ Len(chain) <= MaxHead
  /\ forks \in 0..MaxForks
  /\ process \in {"down", "starting", "tailing", "stalled"}
  /\ run \in Run \cup {NoRun}
  /\ stored \subseteq Item
  /\ next \in {0} \cup StartLedger + 1..MaxHead + 1 - FinalityLag
  /\ failures \in 0..MaxFailures
  /\ blips \in 0..MaxBlips

\* The rows the store should hold for ledger l.
Canonical(l) == IF chain[l].kind = "event" THEN {ItemAt(l)} ELSE {}

IsStale(l) == {i \in stored : i.ledger = l} # Canonical(l)

(* README.md, "Reorg depth guarantee": a ledger whose rows are not those   *)
(* of the winning chain is one the next poll reads again, also when the    *)
(* chain grew or forked between two pages of a run, a run was lost in a    *)
(* crash, or a replay moved the checkpoint.                                *)
StaleIsReread ==
  \A l \in 1..Len(chain) :
    StartLedger <= l /\ l < next /\ IsStale(l) => l >= ResumeAt

(* FINALITY_LAG holds ledgers back: a ledger is committed only once the    *)
(* RPC reported a head that far beyond it.                                 *)
HeldBack ==
  /\ next - 1 <= Len(chain) - FinalityLag \/ next = 0
  /\ \A i \in stored : i.ledger <= Len(chain) - FinalityLag

(* --from-ledger does not skip over ledgers the next poll would read again: *)
(* the run commits only from there on, and the checkpoint moves past them. *)
ReplaysReachBack ==
  \A from \in 1..MaxHead : CatchUpFrom(from) => from <= ResumeAt

\* The promises about what is stored, together.
StaleIsRepaired == IndexerTypeOK /\ StaleIsReread /\ HeldBack

Consistent ==
  \A l \in StartLedger..Len(chain) - FinalityLag : ~IsStale(l)

(* README.md, "Repaired on the next poll": once the chain stops moving the *)
(* store becomes, and stays, a copy of the winning chain, across crashes   *)
(* and restarts, unless an RPC error stopped the tail.  (The bounds stop   *)
(* the chain in every behaviour.)                                          *)
BecomesConsistent == <>[](Consistent \/ process = "stalled")

(* README.md on /health: it stays true through an RPC blip "so a liveness  *)
(* probe does not restart a recoverable process": the process recovers,    *)
(* and the store catches up without a restart.                             *)
RecoversFromBlips == <>[]Consistent
=============================================================================
