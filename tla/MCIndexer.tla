----------------------------- MODULE MCIndexer -----------------------------
(***************************************************************************)
(* A behaviour exercises one side of the indexer, chosen at the start: the *)
(* process that fills the store, or the books made from what it holds.     *)
(***************************************************************************)
EXTENDS EventIndexer, AuditLedger

VARIABLE mode
mcVars == <<mode, indexerVars, auditVars>>

MCInit == mode \in {"index", "audit"} /\ IndexerInit /\ AuditInit

MCNext ==
    /\ UNCHANGED mode
    /\ \/ mode = "index" /\ IndexerNext /\ UNCHANGED auditVars
       \/ mode = "audit" /\ AuditNext /\ UNCHANGED indexerVars

Indexing(A) == mode = "index" /\ A /\ UNCHANGED <<mode, auditVars>>

\* The fairness of EventIndexer.
MCSpec ==
    /\ MCInit /\ [][MCNext]_mcVars
    /\ WF_mcVars(Indexing(Poll)) /\ WF_mcVars(Indexing(FetchPage))
    /\ WF_mcVars(Indexing(Commit)) /\ WF_mcVars(Indexing(Start))

\* The postings reconcile with the chain, and statements add up to them.
BooksAddUp == BooksReconcile /\ StatementIsCustody /\ StatementsChain
============================================================================
