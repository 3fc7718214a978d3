----------------------------- MODULE Cosigning -----------------------------
(***************************************************************************)
(* The SDK's two plain submitters, which take no channel account and bump  *)
(* no fee.  A multisig owner builds an unsigned transaction, passes copies *)
(* of it to co-signers and any holder of a copy submits it (multi-sig.ts). *)
(* A trusted node's call of the circuit breaker builds, signs and submits  *)
(* in one call (circuitBreaker.ts), with a signer that may be a remote     *)
(* service (signer.ts).  Both send once and poll once a second.            *)
(*                                                                         *)
(* All transactions have the same source account; the network executes one  *)
(* per sequence number, and only what enough distinct signers signed.      *)
(***************************************************************************)
EXTENDS Integers, Sequences, FiniteSets, SequencesExt

CONSTANTS
    Holders,      \* who builds, signs and submits
    Envelopes,    \* transactions
    Threshold,    \* signatures a multisig transaction needs
    MaxSignings,  \* signatures on a copy
    Validity,     \* seconds a transaction is valid for after it was built: 30
    MaxPolls,     \* polls of a submission: 30
    LastSecond

ASSUME CosigningAssumption ==
    {Threshold, MaxSignings, Validity, MaxPolls, LastSecond} \subseteq Nat \ {0}

VARIABLES
    tx,      \* [kind, seq, until], kind "none" before it is built
    copy,    \* copy[h][e]: the signatures on h's copy, or NoCopy
    submit,  \* submit[h]: h's call: [at, tx, polls, answer]
    pooled,  \* transactions the network may still execute
    outcome, \* outcome[e] on the network: "none", "ok" or "failed"
    sequence, \* sequence number of the source account
    second

cosignVars == <<tx, copy, submit, pooled, outcome, sequence, second>>

NoCopy == <<"none">>
NotBuilt == [kind |-> "none", seq |-> 0, until |-> 0]
Idle == [at |-> "idle", tx |-> CHOOSE e \in Envelopes : TRUE, polls |-> 0, answer |-> "none"]

CosignInit ==
    /\ tx = [e \in Envelopes |-> NotBuilt]
    /\ copy = [h \in Holders |-> [e \in Envelopes |-> NoCopy]]
    /\ submit = [h \in Holders |-> Idle]
    /\ pooled = {} /\ outcome = [e \in Envelopes |-> "none"]
    /\ sequence = 0 /\ second = 0

networkVars == <<pooled, outcome, sequence>>

Answered(h, answer) == submit' = [submit EXCEPT ![h].at = "done", ![h].answer = answer]

-----------------------------------------------------------------------------
(* Building and signing.                                                   *)

\* The account's sequence number is read when the transaction is built.  A
\* failed simulation, or a lost request, leaves nothing behind.
Build(h, e, kind) ==
    /\ tx[e] = NotBuilt
    /\ tx' = [tx EXCEPT ![e] = [kind |-> kind, seq |-> sequence + 1, until |-> second + Validity]]
    /\ copy' = [copy EXCEPT ![h][e] = <<>>]

BuildMultisig(h, e) ==
    Build(h, e, "multisig") /\ UNCHANGED <<submit, networkVars, second>>

\* signUnsignedTx; nothing keeps one from signing twice.
SignUnsignedTx(h, e) ==
    /\ copy[h][e] # NoCopy /\ tx[e].kind = "multisig"
    /\ Len(copy[h][e]) < MaxSignings
    /\ copy' = [copy EXCEPT ![h][e] = Append(@, h)]
    /\ UNCHANGED <<tx, submit, networkVars, second>>

HandOver(h, g, e) ==
    /\ tx[e].kind = "multisig" /\ copy[h][e] # NoCopy /\ copy[g][e] # copy[h][e]
    /\ copy' = [copy EXCEPT ![g][e] = copy[h][e]]
    /\ UNCHANGED <<tx, submit, networkVars, second>>

\* The circuit breaker's invoke: build, then have the signer sign; a remote
\* signer may refuse or time out, which leaves the transaction unsent.
Invoke(h, e) ==
    /\ submit[h].at = "idle"
    /\ Build(h, e, "own")
    /\ submit' = [submit EXCEPT ![h].at = "signing", ![h].tx = e]
    /\ UNCHANGED <<networkVars, second>>

SignerAnswers(h) ==
    LET e == submit[h].tx IN
    /\ submit[h].at = "signing"
    /\ \/ /\ copy' = [copy EXCEPT ![h][e] = <<h>>]
          /\ submit' = [submit EXCEPT ![h].at = "sending"]
       \/ Answered(h, "SigningError") /\ UNCHANGED copy
    /\ UNCHANGED <<tx, networkVars, second>>

-----------------------------------------------------------------------------
(* Submission.                                                             *)

Needed(e) == IF tx[e].kind = "multisig" THEN Threshold ELSE 1

\* submitSigned counts the signatures of the copy.
SubmitSigned(h, e) ==
    /\ submit[h].at = "idle" /\ copy[h][e] # NoCopy /\ tx[e].kind = "multisig"
    /\ submit' = [submit EXCEPT ![h] =
         IF Len(copy[h][e]) < Threshold
         THEN [@ EXCEPT !.tx = e, !.at = "done", !.answer = "NOT_AUTHORIZED"]
         ELSE [@ EXCEPT !.tx = e, !.at = "sending"]]
    /\ UNCHANGED <<tx, copy, networkVars, second>>

NetworkTakes(h, e) ==
    /\ outcome[e] = "none" /\ tx[e].seq = sequence + 1 /\ second <= tx[e].until
    /\ Cardinality(ToSet(copy[h][e])) >= Needed(e)
    /\ IsInjective(copy[h][e])

\* The answer may be lost whether or not the network took it.
Send(h) ==
    LET e == submit[h].tx IN
    /\ submit[h].at = "sending"
    /\ \/ /\ NetworkTakes(h, e) /\ pooled' = pooled \cup {e}
          /\ \/ submit' = [submit EXCEPT ![h].at = "polling", ![h].polls = 0]
             \/ Answered(h, "NETWORK_ERROR")
       \/ /\ ~NetworkTakes(h, e) /\ Answered(h, "SUBMISSION_FAILED") /\ UNCHANGED pooled
       \* TRY_AGAIN_LATER
       \/ /\ e \notin pooled /\ Answered(h, "SUBMISSION_FAILED") /\ UNCHANGED pooled
       \/ Answered(h, "NETWORK_ERROR") /\ UNCHANGED pooled
    /\ UNCHANGED <<tx, copy, outcome, sequence, second>>

\* NOT_FOUND is taken for a terminal status.
MutantPoll(h) ==
    /\ submit[h].at = "polling"
    /\ Answered(h, IF outcome[submit[h].tx] = "ok" THEN "success" ELSE "TRANSACTION_FAILED")
    /\ UNCHANGED <<tx, copy, networkVars, second>>

\* One getTransaction, then a second's sleep.
Poll(h) ==
    LET s == submit[h] IN
    /\ s.at = "polling"
    /\ \/ Answered(h, "NETWORK_ERROR")
       \/ outcome[s.tx] = "ok" /\ Answered(h, "success")
       \/ outcome[s.tx] = "failed" /\ Answered(h, "TRANSACTION_FAILED")
       \/ /\ outcome[s.tx] = "none"
          /\ submit' = [submit EXCEPT ![h].at = "sleeping", ![h].polls = s.polls + 1]
    /\ UNCHANGED <<tx, copy, networkVars, second>>

Woken(s) ==
    IF s.at # "sleeping" THEN s
    ELSE IF s.polls = MaxPolls THEN [s EXCEPT !.at = "done", !.answer = "TRANSACTION_TIMEOUT"]
    ELSE [s EXCEPT !.at = "polling"]

Tick ==
    /\ second < LastSecond /\ \A h \in Holders : submit[h].at # "polling"
    /\ second' = second + 1
    /\ submit' = [h \in Holders |-> Woken(submit[h])]
    /\ pooled' = {e \in pooled : tx[e].until >= second + 1}
    /\ UNCHANGED <<tx, copy, outcome, sequence>>

NetworkExecutes ==
    \E e \in pooled, result \in {"ok", "failed"} :
        /\ tx[e].seq = sequence + 1
        /\ outcome' = [outcome EXCEPT ![e] = result]
        /\ sequence' = sequence + 1 /\ pooled' = {f \in pooled \ {e} : tx[f].seq > sequence + 1}
        /\ UNCHANGED <<tx, copy, submit, second>>

CosignNext ==
    \/ \E h \in Holders, e \in Envelopes :
         BuildMultisig(h, e) \/ SignUnsignedTx(h, e) \/ Invoke(h, e) \/ SubmitSigned(h, e)
         \/ \E g \in Holders \ {h} : HandOver(h, g, e)
    \/ \E h \in Holders : SignerAnswers(h) \/ Send(h) \/ Poll(h)
    \/ Tick \/ NetworkExecutes

CosignSpec == CosignInit /\ [][CosignNext]_cosignVars

-----------------------------------------------------------------------------
(* Properties.                                                             *)

\* There is something to submit, and whoever polls to the end has polled as
\* long as a transaction is valid (30 polls, 30 seconds).
SoundCosigning == Envelopes # {} /\ Validity <= MaxPolls

Submitters(e) == {h \in Holders : submit[h].tx = e /\ submit[h].at \notin {"idle", "signing"}}

\* What a submitter is told is what became of the transaction, whoever else
\* submits a copy: success only if it was executed, a failure only if it was
\* executed and failed, and a refused submission of which nobody else sent a
\* copy is not executed later.  A submitter gives up no sooner than the
\* transaction's time bound (multi-sig.ts, submitSigned; circuitBreaker.ts,
\* invoke).
SubmittersAreToldTheTruth ==
    \A h \in Holders :
        LET e == submit[h].tx
            answer == submit[h].answer
        IN /\ answer = "success" => outcome[e] = "ok"
           /\ answer = "TRANSACTION_FAILED" => outcome[e] = "failed"
           /\ answer \in {"SUBMISSION_FAILED", "NOT_AUTHORIZED", "SigningError"}
                /\ Submitters(e) = {h} => outcome[e] = "none" /\ e \notin pooled
           /\ answer = "TRANSACTION_TIMEOUT" => second >= tx[e].until
=============================================================================
