---------------------------- MODULE MCContracts ----------------------------
(***************************************************************************)
(* A behaviour exercises one contract, chosen at the start: the spend      *)
(* limit of a payment channel, the circuit breaker, the escrow, the bug    *)
(* bounty oracle, or the quorum that administers a channel or an escrow.   *)
(***************************************************************************)
EXTENDS SpendRate

CONSTANTS
    Nodes, Quorum, n1, n2, n3, BreakerWindows, BreakerLedger,
    Accounts, None, Pays, Durations, DisputeTimeout, MaxJobs, MaxCreated,
    AdminWindows, LastApproval, NotProposed, Nobody,
    NoWinner

VARIABLES
    mode,
    breakerLedger, trusted, window, breakerPaused, proposals, calls, lapsed,
    height, halted, jobs, escrowed, payouts,
    now, proposable, multisig, proposedAt, wired, installer, fresh,
    bountyLedger, bounties, submissions, bountyFunds, received

breakerVars == <<breakerLedger, trusted, window, breakerPaused, proposals, calls, lapsed>>
jobVars == <<height, halted, jobs, escrowed, payouts>>
adminVars == <<now, proposable, multisig, proposedAt, wired, installer, fresh>>
bountyVars == <<bountyLedger, bounties, submissions, bountyFunds, received>>
mcVars == <<mode, rateVars, breakerVars, jobVars, adminVars, bountyVars>>

LedgersOf == [p \in Periods |-> IF p = "PerLedger" THEN 1 ELSE 2]

Hop(venue, from, to, min) ==
  [venue |-> venue, from_token |-> from, to_token |-> to, min_out |-> min]

\* Routes an agent may pass: direct, through another asset, empty, and
\* (to be refused) disconnected, cyclic and through the channel itself.
SomeRoutes ==
  {<<>>,
   <<Hop("amm", "USDC", "XLM", 1)>>,
   <<Hop("amm", "USDC", "EURC", 0), Hop("bridge", "EURC", "XLM", 2)>>,
   <<Hop("amm", "EURC", "XLM", 0)>>,
   <<Hop("amm", "USDC", "EURC", 0), Hop("amm", "EURC", "USDC", 0)>>,
   <<Hop("self", "USDC", "XLM", 0)>>}

\* Rosters without repetition.
Breaker == INSTANCE CircuitBreaker WITH
    ledger <- breakerLedger, paused <- breakerPaused, MaxLedger <- BreakerLedger,
    Windows <- BreakerWindows, Rosters <- {<<n1, n2, n3>>, <<n1, n2>>}

Jobs == INSTANCE Escrow WITH
    ledger <- height, paused <- halted, custody <- escrowed, Amounts <- Pays

\* The rosters of owners may name one twice, which the contracts allow.
Admin == INSTANCE AdminQuorum WITH
    adminLedger <- now, Admins <- {n1, n2}, Addresses <- {"v", "w"},
    Rosters <- {<<n1>>, <<n1, n2>>, <<n2, n2>>}

\* Deadlines at the first ledger, which two more follow.
Bounties == INSTANCE BugBounty WITH
    ledgerSeq <- bountyLedger, balance <- bountyFunds, Tokens <- {"USDC"},
    Participants <- Accounts, Rewards <- Pays,
    Payloads <- {"p", "q"}, Deadlines <- {1}, MaxBounties <- 2, MaxSubmissions <- 2,
    LastLedger <- 2

MCInit ==
    /\ mode \in {"rate", "breaker", "escrow", "admin", "bounty"}
    /\ Bounties!BountyInit
    /\ Admin!AdminInit /\ (mode = "admin" \/ proposable)
    /\ RateInit /\ Jobs!Init
    /\ Breaker!Init /\ (mode = "breaker" \/ (trusted = <<n1, n2>> /\ window = 1))

MCNext ==
    /\ UNCHANGED mode
    /\ \/ /\ mode = "rate" /\ RateNext
          /\ UNCHANGED <<breakerVars, jobVars, adminVars, bountyVars>>
       \/ /\ mode = "breaker" /\ Breaker!Next
          /\ UNCHANGED <<rateVars, jobVars, adminVars, bountyVars>>
       \/ /\ mode = "escrow" /\ Jobs!Next
          /\ UNCHANGED <<rateVars, breakerVars, adminVars, bountyVars>>
       \/ /\ mode = "admin" /\ Admin!AdminNext
          /\ UNCHANGED <<rateVars, breakerVars, jobVars, bountyVars>>
       \/ /\ mode = "bounty" /\ Bounties!BountyNext
          /\ UNCHANGED <<rateVars, breakerVars, jobVars, adminVars>>

\* Ledgers close, and requesters and sponsors take back what they may.
LedgerCloses ==
    \/ /\ mode = "escrow" /\ Jobs!CloseLedger
       /\ UNCHANGED <<mode, rateVars, breakerVars, adminVars, bountyVars>>
    \/ /\ mode = "bounty" /\ Bounties!LedgerCloses
       /\ UNCHANGED <<mode, rateVars, breakerVars, jobVars, adminVars>>
TakenBack ==
    \/ /\ mode = "escrow" /\ Jobs!Reclaim
       /\ UNCHANGED <<mode, rateVars, breakerVars, adminVars, bountyVars>>
    \/ /\ mode = "bounty" /\ \E b \in 1..2 : Bounties!CloseExpired(b)
       /\ UNCHANGED <<mode, rateVars, breakerVars, jobVars, adminVars>>

MCSpec == MCInit /\ [][MCNext]_mcVars /\ WF_mcVars(LedgerCloses) /\ WF_mcVars(TakenBack)

StaleStaysStale == Breaker!TypeOK /\ Breaker!StaleStaysStale
SwitchIsApproved ==
    Breaker!SwitchIsApproved /\ Admin!SwitchIsBacked /\ Admin!ConfigurationIsLast
EscrowsPayOnce ==
    /\ Jobs!TypeOK /\ Jobs!Solvent /\ Jobs!PaidOnce
    /\ Bounties!BountyTypeOK /\ Bounties!Funded /\ Bounties!BountyPaidOnce /\ Bounties!OneWinner
NoEarlyRefund == Jobs!NoEarlyRefund
EscrowsSettle == /\ mode = "escrow" => Jobs!EveryJobSettles
                 /\ mode = "bounty" => Bounties!EveryBountyEnds
============================================================================
