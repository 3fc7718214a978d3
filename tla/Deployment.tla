----------------------------- MODULE Deployment -----------------------------
(***************************************************************************)
(* How contracts come to be where the SDK finds them.  Operators run the   *)
(* deployment script (scripts/deploy.ts), a sequence of commands any of    *)
(* which may fail or be killed, and publish deployments/<network>.json.    *)
(* The test harness (packages/harness) waits for the devnet, funds its     *)
(* identities, loads what was published, exports it to the environment and *)
(* seeds a scenario; core/contracts.ts resolves an agent's addresses.      *)
(***************************************************************************)
EXTENDS Naturals, Sequences, FiniteSets

CONSTANTS
    Operators,    \* people who run the script
    MaxRuns,      \* bound: deployments started
    Identities,   \* the harness's accounts
    Tries,        \* polls before waitForDevnet times out
    MaxSeeds,     \* bound: scenarios seeded
    Unresolved,
    Torn,         \* a file whose writer was killed
    Fallback,     \* the harness's fixed addresses: no contract ids
    Elsewhere     \* addresses on another network

VARIABLES
    script,       \* script[o]: the operator's run of the script
    chain,        \* the contracts deployed; a contract's id is its place
    published,    \* deployments/<network>.json
    harness,
    funded,       \* the accounts that exist
    snapshots,    \* SNAPSHOT_STORE
    env,          \* the network's own variables and those for any network
    created       \* the addresses of the agent created last

deployVars == <<script, chain, published, harness, funded, snapshots, env, created>>

Crates == <<"factory", "channel", "escrow", "limiter", "breaker", "oracle", "amm">>
SdkKeys == {"factory", "channel", "escrow", "limiter", "breaker"}
Nobody == "nobody"
Other == "other"         \* an admin whose key no operator has
Nowhere == 0
Missing == [c \in {Crates[i] : i \in DOMAIN Crates} |-> Nowhere]

Scenarios == {"standard", "rate_limited", "escrow_dispute", "multi_hop"}

DeployInit ==
    /\ script = [o \in Operators |->
                   [at |-> "idle", admin |-> Nobody, dry |-> FALSE, plan |-> <<>>, ids |-> Missing]]
    /\ chain = <<>> /\ published = Unresolved
    /\ harness = [at |-> "new", tries |-> 0, contracts |-> Unresolved, scenario |-> Unresolved, seeds |-> 0]
    /\ funded = {} /\ snapshots = [s \in Scenarios |-> Unresolved]
    /\ env \in [own : {Unresolved}, any : {Unresolved, Elsewhere}]
    /\ created = Unresolved

-----------------------------------------------------------------------------
(* The script.                                                             *)

Command(fn, on, ref) == [fn |-> fn, on |-> on, ref |-> ref]
DeployAll == [i \in DOMAIN Crates |-> Command("deploy", Crates[i], Nobody)]
InitializeAll ==
    <<Command("initialize", "factory", Nobody), Command("initialize", "breaker", Nobody),
      Command("initialize", "oracle", Nobody), Command("initialize", "amm", Nobody)>>
WireAll ==
    <<Command("set", "channel", "breaker"), Command("set", "channel", "oracle"),
      Command("set", "channel", "amm"), Command("set", "escrow", "breaker")>>

MutantPlan(build) ==
    build \o DeployAll \o WireAll \o InitializeAll \o <<Command("write", Nobody, Nobody)>>

Plan(build) ==
    build \o DeployAll \o InitializeAll \o WireAll \o <<Command("write", Nobody, Nobody)>>

Runs == Len(SelectSeq(chain, LAMBDA c : c.crate = "factory"))

\* parseArgs: a run without a source or with an empty window ends here.  The
\* admin is the source's own account, or another one whose key it has not.
Start(o) ==
    \E build \in {<<>>, <<Command("build", Nobody, Nobody)>>}, admin \in {o, Other}, dry \in BOOLEAN :
        /\ script[o].at \in {"idle", "exited", "done"} /\ Runs < MaxRuns
        /\ script' = [script EXCEPT ![o] =
                        [at |-> "running", admin |-> admin, dry |-> dry, plan |-> Plan(build), ids |-> Missing]]
        /\ UNCHANGED <<chain, published, harness, funded, snapshots, env, created>>

\* What the ledger makes of a command: a new contract, or a change of the
\* one it is sent to.  A contract that is already initialized stays as it is.
Effect(o, c) ==
    LET id == script[o].ids[c.on] IN
    CASE c.fn = "deploy" -> Append(chain, [crate |-> c.on, admin |-> Nobody, refs |-> Missing])
      [] c.fn = "initialize" /\ chain[id].admin = Nobody -> [chain EXCEPT ![id].admin = script[o].admin]
      [] c.fn = "set" -> [chain EXCEPT ![id].refs[c.ref] = script[o].ids[c.ref]]
      [] OTHER -> chain

\* The factory asks for nobody's signature.
Authorized(o, c) ==
    c.fn \in {"initialize", "set"} => c.on = "factory" \/ script[o].admin = o

Done(o, c) ==
    script' = [script EXCEPT ![o].plan = Tail(@),
                 ![o].ids = IF c.fn = "deploy" THEN [@ EXCEPT ![c.on] = Len(chain) + 1] ELSE @,
                 ![o].at = IF Len(script[o].plan) = 1 THEN "done" ELSE @]

Running(o) == script[o].at = "running"

\* What of a deployment the SDK and the harness read: no oracle, no AMM.
BuildDeployment(ids) == [k \in SdkKeys |-> ids[k]]

\* run and runIdempotent echo a command, and but for a dry run execute it.
Execute(o) ==
    LET c == Head(script[o].plan) IN
    /\ Running(o) /\ ~script[o].dry /\ Authorized(o, c)
    /\ Done(o, c) /\ chain' = Effect(o, c)
    /\ published' = IF c.fn = "write" THEN BuildDeployment(script[o].ids) ELSE published
    /\ UNCHANGED <<harness, funded, snapshots, env, created>>

DryRun(o) ==
    /\ Running(o) /\ script[o].dry
    /\ script' = [script EXCEPT ![o].at = "done", ![o].plan = <<>>]
    /\ UNCHANGED <<chain, published, harness, funded, snapshots, env, created>>

\* An error of a command that is not "already initialized" is not fatal.
MutantFail(o) ==
    LET c == Head(script[o].plan) IN
    /\ Running(o) /\ c.fn \notin {"write", "deploy"}
    /\ Done(o, c)
    /\ UNCHANGED <<chain, published, harness, funded, snapshots, env, created>>

\* A command fails, whether or not the ledger executed it, or the script is
\* killed: process.exit.
Fail(o) ==
    LET c == Head(script[o].plan) IN
    /\ Running(o) /\ ~script[o].dry
    /\ script' = [script EXCEPT ![o].at = "exited", ![o].plan = <<>>]
    /\ chain' \in {chain} \cup {Effect(o, d) : d \in {d \in {c} : Authorized(o, d)}}
    /\ published' \in {published} \cup {Torn : d \in {d \in {c} : d.fn = "write"}}
    /\ UNCHANGED <<harness, funded, snapshots, env, created>>

\* printEnvBlock, pasted by the operator into the environment.
PasteEnv(o) ==
    /\ script[o].at = "done" /\ ~script[o].dry
    /\ env' = [env EXCEPT !.own = BuildDeployment(script[o].ids)]
    /\ UNCHANGED <<script, chain, published, harness, funded, snapshots, created>>

-----------------------------------------------------------------------------
(* The harness.                                                            *)

At(s) == harness.at = s
HarnessMoves == UNCHANGED <<script, chain, published, created>>

SetUp ==
    /\ harness.at \in {"new", "failed"}
    /\ harness' = [harness EXCEPT !.at = "waiting", !.tries = 0]
    /\ HarnessMoves /\ UNCHANGED <<funded, snapshots, env>>

\* waitForDevnet: both services answered, or not, or it is over.
WaitForDevnet ==
    /\ At("waiting")
    /\ harness' \in
         {[harness EXCEPT !.at = "funding"]}
         \cup (IF harness.tries < Tries THEN {[harness EXCEPT !.tries = @ + 1]}
               ELSE {[harness EXCEPT !.at = "failed"]})
    /\ HarnessMoves /\ UNCHANGED <<funded, snapshots, env>>

FundNext ==
    /\ At("funding") /\ Identities \ funded # {}
    /\ \/ \E i \in Identities \ funded : funded' = funded \cup {i} /\ harness' = harness
       \/ funded' = funded /\ harness' = [harness EXCEPT !.at = "failed"]
    /\ HarnessMoves /\ UNCHANGED <<snapshots, env>>

\* scripts/devnet.ts and scripts/seed.ts leave nothing behind but accounts: the
\* one stops at the first that friendbot refuses, the other goes on.
DevnetOrSeedScript ==
    /\ harness.at \in {"new", "failed"} /\ Identities \ funded # {}
    /\ \E some \in SUBSET Identities : funded' = funded \cup some
    /\ HarnessMoves /\ UNCHANGED <<harness, snapshots, env>>

\* loadDeployment: what cannot be read or parsed is no deployment, and the
\* harness goes on with fixed addresses.
LoadDeployment == IF published \in {Unresolved, Torn} THEN Fallback ELSE published

Load ==
    /\ At("funding") /\ Identities \subseteq funded
    /\ harness' = [harness EXCEPT !.at = "seeding", !.contracts = LoadDeployment]
    /\ env' = [env EXCEPT !.own = LoadDeployment]     \* exportDeploymentEnv
    /\ HarnessMoves /\ UNCHANGED <<funded, snapshots>>

\* seedScenario: every scenario is made from the standard one, which is
\* stored first; multi_hop is that one.  seed tells seedings apart.
Seeded(name, seed) == [name |-> IF name = "multi_hop" THEN "standard" ELSE name, seed |-> seed]

SeedScenario(name) ==
    LET seed == harness.seeds + 1 IN
    /\ harness.at \in {"seeding", "ready"} /\ harness.seeds < MaxSeeds
    /\ harness' = [harness EXCEPT !.at = "ready", !.seeds = seed, !.scenario = Seeded(name, seed)]
    /\ snapshots' = [snapshots EXCEPT !["standard"] = Seeded("standard", seed),
                                      ![Seeded(name, seed).name] = Seeded(name, seed)]
    /\ HarnessMoves /\ UNCHANGED <<funded, env>>

RestoreSnapshot(name) ==
    /\ At("ready") /\ snapshots[name] # Unresolved
    /\ harness' = [harness EXCEPT !.scenario = snapshots[name]]
    /\ HarnessMoves /\ UNCHANGED <<funded, snapshots, env>>

-----------------------------------------------------------------------------
(* core/contracts.ts: resolveContracts and assertDeployed, when an agent   *)
(* is created for this network without addresses of its own.               *)

ResolveContracts == IF env.own # Unresolved THEN env.own ELSE env.any

CreateAgent ==
    /\ ResolveContracts \notin {Unresolved, Fallback}
    /\ created' = [contracts |-> ResolveContracts, told |-> env.own # Unresolved]
    /\ UNCHANGED <<script, chain, published, harness, funded, snapshots, env>>

DeployNext ==
    \/ \E o \in Operators : Start(o) \/ Execute(o) \/ DryRun(o) \/ Fail(o) \/ PasteEnv(o)
    \/ SetUp \/ WaitForDevnet \/ FundNext \/ DevnetOrSeedScript \/ Load \/ CreateAgent
    \/ \E name \in Scenarios : SeedScenario(name) \/ RestoreSnapshot(name)

DeploySpec == DeployInit /\ [][DeployNext]_deployVars

\* A name that is nobody's; a scenario is told from none.
SoundDeployment ==
    /\ Nobody \notin Operators
    /\ \A name \in Scenarios, seed \in Nat : Seeded(name, seed) # Unresolved

-----------------------------------------------------------------------------

IsA(id, crate) ==
    /\ id # Nowhere /\ chain[id].crate = crate
    /\ \A i \in DOMAIN InitializeAll : InitializeAll[i].on = crate => chain[id].admin # Nobody
IsWired(ids) ==
    /\ \A k \in SdkKeys : IsA(ids[k], k)
    /\ \A i \in DOMAIN WireAll :
         LET c == WireAll[i]
             target == chain[ids[c.on]].refs[c.ref]
         IN IsA(target, c.ref) /\ (c.ref \in SdkKeys => target = ids[c.ref])

\* A deployment that was published, and every one the harness or an agent
\* took up, is complete: its contracts are of one run, initialized, and refer
\* to each other and to an oracle and an AMM that are initialized too, although
\* runs fail at any command, are killed, and are repeated (deploy.ts, main;
\* deployer.ts, loadDeployment; contracts.ts, resolveContracts).
PublishedIsWired ==
    /\ published \notin {Unresolved, Torn} => IsWired(published)
    /\ harness.contracts \notin {Unresolved, Fallback} => IsWired(harness.contracts)
    /\ created # Unresolved /\ created.told => IsWired(created.contracts)

\* deploy.ts: "the circuit breaker must be initialized before payment_channel
\* /escrow are pointed at it", in every run, finished or not.
BreakerComesFirst ==
    \A i \in DOMAIN chain :
        LET breaker == chain[i].refs["breaker"]
        IN breaker # Nowhere => chain[breaker].admin # Nobody

\* A harness that is ready has all its accounts, and can go back to the
\* scenario it was given last (runner.ts, setup; scenarios.ts).
HarnessIsReady ==
    At("ready") =>
        /\ Identities \subseteq funded
        /\ snapshots[harness.scenario.name] # Unresolved
        /\ snapshots[harness.scenario.name].name = harness.scenario.name
============================================================================
