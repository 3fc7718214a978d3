---------------------------- MODULE AdminQuorum ----------------------------
(***************************************************************************)
(* The k-of-n administration of the payment channel and of the escrow      *)
(* (contracts/payment_channel/src/lib.rs, contracts/escrow/src/lib.rs):    *)
(* owners approve the address of a circuit breaker, an oracle or an AMM,   *)
(* or a new configuration of themselves, and one of them then carries it   *)
(* out.  The three kinds of address are handled alike; one is modelled.    *)
(***************************************************************************)
EXTENDS Naturals, Sequences, FiniteSets, SequencesExt

CONSTANTS
    Admins,
    Addresses,     \* what may be wired
    Rosters,       \* owners a configuration may name: sequences of admins
    AdminWindows,
    LastApproval,  \* bound: ledgers
    NotProposed, Nobody

VARIABLES
    adminLedger,
    proposable,    \* the payment channel has propose_multisig_config, the escrow not
    multisig,      \* ms_own, ms_thresh, ms_win
    proposedAt,    \* proposedAt[subject][admin]: the ledger of the last proposal
    wired,
    installer,     \* cb_admin: who wired the first address, while there are no owners
    fresh          \* fresh[subject]: who proposed it since a quorum last carried it out

adminVars == <<adminLedger, proposable, multisig, proposedAt, wired, installer, fresh>>

\* Proposals of an address name it; those of a configuration name none.
Subjects == Addresses \cup {"configuration"}

AdminInit ==
    /\ adminLedger = 0 /\ proposable \in BOOLEAN /\ wired = Nobody /\ installer = Nobody
    /\ multisig = [owners |-> <<>>, threshold |-> 1, window |-> LastApproval]
    /\ proposedAt = [s \in Subjects |-> [a \in Admins |-> NotProposed]]
    /\ fresh = [s \in Subjects |-> {}]

NextLedger ==
    /\ adminLedger < LastApproval /\ adminLedger' = adminLedger + 1
    /\ UNCHANGED <<proposable, multisig, proposedAt, wired, installer, fresh>>

IsOwner(admin) == admin \in ToSet(multisig.owners)

InWindow(subject, admin) ==
    /\ proposedAt[subject][admin] # NotProposed
    /\ proposedAt[subject][admin] + multisig.window >= adminLedger

\* An owner that is listed twice is counted twice.
CountValidProposals(subject) ==
    Cardinality({i \in DOMAIN multisig.owners : InWindow(subject, multisig.owners[i])})

ProposeAdmin(admin, subject) ==
    /\ IsOwner(admin) /\ (subject = "configuration" => proposable)
    /\ proposedAt' = [proposedAt EXCEPT ![subject][admin] = adminLedger]
    /\ fresh' = [fresh EXCEPT ![subject] = @ \cup {admin}]
    /\ UNCHANGED <<adminLedger, proposable, multisig, wired, installer>>

MutantConsumed(subject) == proposedAt
Consumed(subject) == [proposedAt EXCEPT ![subject] = [a \in Admins |-> NotProposed]]

\* With owners and a threshold above one, the proposals are counted and used up.
Carries(admin, subject) ==
    IF multisig.owners # <<>> /\ multisig.threshold > 1
    THEN /\ IsOwner(admin) /\ CountValidProposals(subject) >= multisig.threshold
         /\ proposedAt' = Consumed(subject)
         /\ fresh' = [fresh EXCEPT ![subject] = {}]
    ELSE /\ multisig.owners # <<>> => IsOwner(admin)
         /\ UNCHANGED <<proposedAt, fresh>>

SetAddress(admin, address) ==
    /\ Carries(admin, address) /\ wired' = address
    /\ IF multisig.owners = <<>>
       THEN installer \in {Nobody, admin} /\ installer' = admin
       ELSE UNCHANGED installer
    /\ UNCHANGED <<adminLedger, proposable, multisig>>

SetMultisigConfig(caller, owners, threshold, window) ==
    /\ threshold \in 1..Len(owners) /\ window > 0
    /\ Carries(caller, "configuration")
    /\ multisig' = [owners |-> owners, threshold |-> threshold, window |-> window]
    /\ UNCHANGED <<adminLedger, proposable, wired, installer>>

AdminNext ==
    \/ NextLedger
    \/ \E admin \in Admins :
         \/ \E subject \in Subjects : ProposeAdmin(admin, subject)
         \/ \E address \in Addresses : SetAddress(admin, address)
         \/ \E owners \in Rosters, window \in AdminWindows : \E threshold \in 1..Len(owners) :
              SetMultisigConfig(admin, owners, threshold, window)

AdminSpec == AdminInit /\ [][AdminNext]_adminVars

-----------------------------------------------------------------------------

\* Constants as the contracts have them; what is not wired, or was not proposed,
\* is told from what is.
SoundAdmin ==
    /\ Rosters \subseteq Seq(Admins) /\ AdminWindows \subseteq Nat
    /\ LastApproval \in Nat /\ "configuration" \notin Addresses
    /\ NotProposed \notin Nat /\ Nobody \notin Admins

\* Whoever counted towards a switch of an address or of the configuration is an
\* owner now, has approved that address or a configuration within the window and
\* since a quorum last carried it out, and there are as many of them as the
\* threshold asks for, while no owner is listed twice.  So one round of approvals
\* carries out one switch, whatever rotations of the owners happen in between.
\* (What a single owner carries out uses no approvals up: those given earlier
\* count again when a threshold above one returns.)
Backers(subject) ==
    {a \in fresh[subject] : IsOwner(a) /\ InWindow(subject, a)}
Switched(subject) ==
    IF subject = "configuration" THEN multisig' # multisig
    ELSE wired' = subject /\ wired # subject
SwitchIsBacked ==
    [][\A s \in Subjects :
         /\ Switched(s) /\ multisig.threshold > 1
         /\ Cardinality(ToSet(multisig.owners)) = Len(multisig.owners)
         => Cardinality(Backers(s)) >= multisig.threshold]_adminVars

\* The escrow has no proposals of a configuration: one with a threshold above
\* one is its last (escrow/src/lib.rs:331).  And who wired the first address
\* stays the one that may, until there are owners.
ConfigurationIsLast ==
    [][/\ ~proposable /\ multisig.threshold > 1 => UNCHANGED multisig
       /\ installer # Nobody => UNCHANGED installer]_adminVars
=============================================================================
