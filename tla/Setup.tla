------------------------------- MODULE Setup --------------------------------
(***************************************************************************)
(* The first installation of ONE deployment: Apply of                      *)
(* internal/setup/service.go, which checks a request, migrates the         *)
(* database it names, creates the first administrator and publishes the    *)
(* configuration; the two files that record it, runtime.env and the        *)
(* install state; the start of the process (internal/app/run.go), which    *)
(* chooses between setup, normal service and a closed process; and the     *)
(* token reset of mgsctl, another process with a lock of its own.          *)
(*                                                                         *)
(* One action is one read, one write of a file or one transaction of the   *)
(* database: between any two of them the process may die.  The lock on     *)
(* runtime.env admits one Apply at a time; callers of the same operation   *)
(* wait for its result and are not told apart from it.                     *)
(***************************************************************************)
EXTENDS Integers, FiniteSets

CONSTANTS
    Operations,      \* operation ids, chosen by the browser
    Forms,           \* submitted configurations, administrator included
    Databases,
    DatabaseOf,      \* form -> the database it names
    Kinds,           \* what the databases may be
    MaxResets,       \* bound: token resets
    MaxFaults        \* bound: deaths, failed writes and calls, lost answers

NoOperation == "no operation"
NoForm == "no form"
ASSUME SetupAssumption ==
    /\ NoOperation \notin Operations /\ NoForm \notin Forms
    /\ DatabaseOf \in [Forms -> Databases]
    /\ Kinds \subseteq {"empty", "taken", "foreign", "unreachable"}
    /\ MaxResets \in Nat /\ MaxFaults \in Nat

(* What an attempt, a commit journal and the database record of a request: *)
(* the operation and the digest of the final configuration, to which the   *)
(* version of the setup token belongs.                                     *)
Proofs == [op: Operations, form: Forms, token: 1 .. MaxResets + 1]
NoProof == [op |-> NoOperation, form |-> NoForm, token |-> 0]

VARIABLES
    env,         \* runtime.env: a draft, or the completed configuration
    install,     \* the install state: phase, attempt, commit journal
    base,        \* database -> its kind: empty, with an administrator of
                 \* no setup, of another installation, or unreachable;
                 \* schema, administrators, installation binding
    mode,        \* what the process serves
    open,        \* its setup authentication still accepts sessions
    job,         \* the Apply under way
    reset,       \* the token reset under way, with the token version it read
    faults

vars == <<env, install, base, mode, open, job, reset, faults>>

Phases == {"pending", "committing", "completed"}
Modes == {"down", "setup", "broken", "normal"}
Steps == {"idle", "reserve", "lookup", "probe", "clear", "migrate", "initialize",
          "verify", "begin", "write", "finalize", "close", "restart"}
ResetSteps == {"idle", "check", "write", "restart"}

Idle == [step |-> "idle", proof |-> NoProof, secret |-> FALSE, had |-> FALSE,
         bound |-> FALSE, migrated |-> FALSE]
Jobs == [step: Steps, proof: Proofs \cup {NoProof}, secret: BOOLEAN, had: BOOLEAN,
         bound: BOOLEAN, migrated: BOOLEAN]

(* InstallState.Validate *)
ValidState ==
    /\ install.phase = "pending" <=> install.commit = NoProof
    /\ install.phase # "pending" => install.attempt = NoProof

TypeOK ==
    /\ env \in [done: BOOLEAN, form: Forms \cup {NoForm}, token: 1 .. MaxResets + 1]
    /\ install \in [phase: Phases, attempt: Proofs \cup {NoProof},
                    commit: Proofs \cup {NoProof}]
    /\ ValidState
    /\ base \in [Databases -> [kind: Kinds, schema: BOOLEAN, admins: Nat,
                               bound: Proofs \cup {NoProof}]]
    /\ mode \in Modes
    /\ open \in BOOLEAN
    /\ job \in Jobs
    /\ reset \in [step: ResetSteps, token: 0 .. MaxResets]
    /\ faults \in 0 .. MaxFaults

AsFound(kind) == [kind |-> kind, schema |-> FALSE,
                  admins |-> IF kind = "taken" THEN 1 ELSE 0, bound |-> NoProof]

Init ==
    /\ env = [done |-> FALSE, form |-> NoForm, token |-> 1]
    /\ install = [phase |-> "pending", attempt |-> NoProof, commit |-> NoProof]
    /\ \E kind \in [Databases -> Kinds] : base = [d \in Databases |-> AsFound(kind[d])]
    /\ mode = "down"
    /\ open = FALSE
    /\ job = Idle
    /\ reset = [step |-> "idle", token |-> 0]
    /\ faults = 0

-----------------------------------------------------------------------------
(* A write or a call succeeds, fails before it had its effect, or has its  *)
(* effect and reports an error: a directory that cannot be synchronized    *)
(* after the rename, a connection lost after the commit.                   *)
Outcomes == {"ok", "failed", "applied"}
Costs(outcome) ==
    \/ outcome = "ok" /\ UNCHANGED faults
    \/ outcome # "ok" /\ faults < MaxFaults /\ faults' = faults + 1

Home == DatabaseOf[job.proof.form]
Answers == base[Home].kind # "unreachable"
(* It answers and holds no other installation (ErrSetupBindingMismatch,    *)
(* CompatibilityInstallationMismatch).                                     *)
Accepts == base[Home].kind \notin {"unreachable", "foreign"}

(* failOperation: the request ends with an error and its lock is released. *)
GoOn(outcome, step) == job' = IF outcome = "ok" THEN [job EXCEPT !.step = step] ELSE Idle

(* prepareApply: a request continues the attempt recorded before only with *)
(* the same operation and the same digest.                                 *)
MayContinue(recorded, proof) == recorded \in {NoProof, proof}

(* HandleApply, acquireOperation and prepareApply.  A process that serves  *)
(* setup with an open authentication finds no completed configuration, and *)
(* the journal of a commit only before its configuration was written.      *)
Prepare(o, f, secret) ==
    LET proof == [op |-> o, form |-> f, token |-> env.token]
        request == [Idle EXCEPT !.proof = proof, !.secret = secret]
    IN  /\ mode = "setup" /\ open /\ job.step = "idle"
        /\ \/ /\ install.phase = "pending"
              /\ MayContinue(install.attempt, proof)
              /\ install.attempt = NoProof => secret
              /\ job' = [request EXCEPT !.step = "reserve",
                                        !.had = install.attempt # NoProof]
           \/ /\ install.phase = "committing"
              /\ install.commit = proof
              /\ job' = [request EXCEPT !.step = "verify"]
        /\ UNCHANGED <<env, install, base, mode, open, reset, faults>>

(* StateStore.BeginAttempt *)
BeginAttempt ==
    /\ job.step = "reserve"
    /\ \E outcome \in Outcomes :
        /\ Costs(outcome)
        /\ install' = IF outcome = "failed" THEN install
                      ELSE [install EXCEPT !.attempt = job.proof]
        /\ GoOn(outcome, IF job.had THEN "lookup" ELSE "probe")
    /\ UNCHANGED <<env, base, mode, open, reset>>

(* lookupBinding and, without a binding, lookupMigration.  The error of a  *)
(* database that does not accept the installation keeps the attempt, and   *)
(* comes again with every repetition.                                      *)
Lookup ==
    /\ job.step = "lookup"
    /\ \E outcome \in {"ok", "failed"} :
        /\ Costs(outcome)
        /\ job' = IF \/ outcome = "failed"
                     \/ ~Accepts
                     \/ base[Home].bound \notin {NoProof, job.proof}
                     \/ base[Home].bound = NoProof /\ ~job.secret
                  THEN Idle
                  ELSE [job EXCEPT !.step = "probe", !.migrated = base[Home].schema,
                                   !.bound = base[Home].bound # NoProof]
    /\ UNCHANGED <<env, install, base, mode, open, reset>>

(* Faulty: the attempt is dropped although its administrator exists.       *)
AfterProbeAlwaysClears(passed) ==
    CASE ~passed -> "clear" [] passed /\ job.bound -> "begin" [] OTHER -> "migrate"
(* What follows the final probes: an attempt is dropped only without an    *)
(* administrator of its own.                                               *)
AfterProbe(passed) ==
    CASE passed /\ job.bound -> "begin"
      [] passed /\ ~job.bound -> IF job.migrated THEN "initialize" ELSE "migrate"
      [] ~passed /\ ~job.bound -> "clear"
      [] OTHER -> "idle"

(* runFinalProbes *)
Probe ==
    /\ job.step = "probe"
    /\ \E outcome \in {"ok", "failed"} :
        /\ Costs(outcome)
        /\ LET next == AfterProbe(outcome = "ok" /\ Answers)
           IN  job' = IF next = "idle" THEN Idle ELSE [job EXCEPT !.step = next]
    /\ UNCHANGED <<env, install, base, mode, open, reset>>

(* StateStore.ClearAttempt, after which the request fails anyway.          *)
ClearAttempt ==
    /\ job.step = "clear"
    /\ \E outcome \in Outcomes :
        /\ Costs(outcome)
        /\ install' = IF outcome = "failed" THEN install
                      ELSE [install EXCEPT !.attempt = NoProof]
    /\ job' = Idle
    /\ UNCHANGED <<env, base, mode, open, reset>>

(* db.Migrate, which refuses the database of another installation; the     *)
(* attempt stays.                                                          *)
Migrate ==
    /\ job.step = "migrate"
    /\ \E outcome \in Outcomes :
        /\ Costs(outcome)
        /\ base' = IF outcome = "failed" \/ ~Accepts THEN base
                   ELSE [base EXCEPT ![Home].schema = TRUE]
        /\ GoOn(IF Accepts THEN outcome ELSE "failed", "initialize")
    /\ UNCHANGED <<env, install, mode, open, reset>>

(* The first administrator and the installation bound to the request.      *)
Founded == [kind |-> base[Home].kind, schema |-> base[Home].schema,
            admins |-> base[Home].admins + 1, bound |-> job.proof]

(* SetupStore.Initialize: one transaction creates the administrator and    *)
(* binds the installation to the request, or finds that it did.  With an   *)
(* administrator of another origin it refuses (ErrFirstAdminConflict), and *)
(* the attempt stays.                                                      *)
Initialize ==
    LET row == base[Home]
        fits == row.bound = job.proof \/ (row.bound = NoProof /\ row.admins = 0)
    IN  /\ job.step = "initialize"
        /\ \E outcome \in Outcomes :
            /\ Costs(outcome)
            /\ base' = IF outcome = "failed" \/ ~fits \/ row.bound = job.proof THEN base
                       ELSE [base EXCEPT ![Home] = Founded]
            /\ GoOn(IF fits THEN outcome ELSE "failed", "begin")
        /\ UNCHANGED <<env, install, mode, open, reset>>

(* resumeCommit of a journal whose configuration is not written yet.       *)
Verify ==
    /\ job.step = "verify"
    /\ \E outcome \in {"ok", "failed"} :
        /\ Costs(outcome)
        /\ GoOn(IF base[Home].bound = job.proof THEN outcome ELSE "failed", "begin")
    /\ UNCHANGED <<env, install, base, mode, open, reset>>

-----------------------------------------------------------------------------
(* commitPreparedRuntime.  Until the configuration is written an error     *)
(* leaves the authentication open; from then on it closes it.              *)

(* PrepareCompletion and StateStore.BeginCommit *)
BeginCommit ==
    /\ job.step = "begin"
    /\ \E outcome \in Outcomes :
        /\ Costs(outcome)
        /\ install' = IF outcome = "failed" THEN install
                      ELSE [phase |-> "committing", attempt |-> NoProof,
                            commit |-> job.proof]
        /\ GoOn(outcome, "write")
    /\ UNCHANGED <<env, base, mode, open, reset>>

(* FailClosedCompletion, unless the step succeeded.                        *)
StaysOpen(outcome) == outcome = "ok"

(* WriteRuntimeEnvAtomic *)
WriteRuntime ==
    /\ job.step = "write"
    /\ \E outcome \in Outcomes :
        /\ Costs(outcome)
        /\ env' = IF outcome = "failed" THEN env
                  ELSE [done |-> TRUE, form |-> job.proof.form, token |-> job.proof.token]
        /\ open' = StaysOpen(outcome)
        /\ GoOn(outcome, "finalize")
    /\ UNCHANGED <<install, base, mode, reset>>

(* StateStore.FinalizeCommit *)
Completed == [install EXCEPT !.phase = "completed"]
FinalizeCommit ==
    /\ job.step = "finalize"
    /\ \E outcome \in Outcomes :
        /\ Costs(outcome)
        /\ install' = IF outcome = "failed" THEN install ELSE Completed
        /\ open' = StaysOpen(outcome)
        /\ GoOn(outcome, "close")
    /\ UNCHANGED <<env, base, mode, reset>>

(* AuthService.CommitCompletion *)
CommitCompletion ==
    /\ job.step = "close"
    /\ open' = FALSE
    /\ job' = [job EXCEPT !.step = "restart"]
    /\ UNCHANGED <<env, install, base, mode, reset, faults>>

GoDown == mode' = "down" /\ open' = FALSE /\ job' = Idle

(* HandleApply signals the restart, once its answer is flushed.            *)
Restart ==
    /\ job.step = "restart"
    /\ GoDown
    /\ UNCHANGED <<env, install, base, reset, faults>>

-----------------------------------------------------------------------------
(* The process: its start, its death, and the operator who starts it anew. *)

IsSame(proof) == env.form = proof.form /\ env.token = proof.token

(* ResolveStartupDecision *)
Decision ==
    CASE install.phase = "pending" /\ ~env.done -> "setup"
      [] install.phase = "committing" /\ ~env.done -> "setup"
      [] install.phase = "committing" /\ env.done -> "reconcile"
      [] install.phase = "completed" /\ env.done -> "normal"
      [] OTHER -> "broken"

IsBound == IsSame(install.commit) /\ base[DatabaseOf[env.form]].bound = install.commit

(* runAPI: serves the setup, or nothing but the diagnosis.                 *)
StartSetup ==
    /\ mode = "down"
    /\ Decision \in {"setup", "broken"}
    /\ mode' = Decision
    /\ open' = (Decision = "setup")
    /\ UNCHANGED <<env, install, base, job, reset, faults>>

(* runNormalStartup with verifyCompletedStartupBinding.                    *)
StartNormal ==
    /\ mode = "down"
    /\ Decision = "normal" /\ IsBound
    /\ mode' = "normal"
    /\ UNCHANGED <<env, install, base, open, job, reset, faults>>

(* Faulty: a written configuration is not reconciled with its journal.     *)
MayReconcileNever == FALSE
MayReconcile == Decision = "reconcile" /\ IsBound

(* ReconcileCommit: completes the journal and exits to be started again,   *)
(* or serves the diagnosis until it is started again.                      *)
Reconcile ==
    /\ mode = "down"
    /\ MayReconcile
    /\ \E outcome \in Outcomes :
        /\ Costs(outcome)
        /\ install' = IF outcome = "failed" THEN install ELSE Completed
        /\ mode' = IF outcome = "ok" THEN mode ELSE "broken"
    /\ UNCHANGED <<env, base, open, job, reset>>

Crash ==
    /\ mode # "down"
    /\ Costs("failed")
    /\ GoDown
    /\ UNCHANGED <<env, install, base, reset>>

(* A process that serves only a diagnosis, or a setup whose authentication *)
(* is closed, is started again by hand: nothing in it exits.               *)
OperatorRestart ==
    /\ mode = "broken" \/ (mode = "setup" /\ ~open /\ job.step = "idle")
    /\ GoDown
    /\ UNCHANGED <<env, install, base, reset, faults>>

-----------------------------------------------------------------------------
(* ResetSetupToken of mgsctl holds .mgsctl-setup-token.lock, not the lock  *)
(* of Apply.                                                               *)

(* loadInstallation reads runtime.env.                                     *)
ResetRead ==
    /\ reset.step = "idle"
    /\ ~env.done
    /\ env.token <= MaxResets
    /\ reset' = [step |-> "check", token |-> env.token]
    /\ UNCHANGED <<env, install, base, mode, open, job, faults>>

(* It reads the install state.                                             *)
ResetCheck ==
    /\ reset.step = "check"
    /\ reset' = [reset EXCEPT !.step =
                    IF install.phase = "pending" /\ install.attempt = NoProof
                    THEN "write" ELSE "idle"]
    /\ UNCHANGED <<env, install, base, mode, open, job, faults>>

(* It writes the whole file it read, with the next token.                  *)
ResetWrite ==
    /\ reset.step = "write"
    /\ env' = [done |-> FALSE, form |-> NoForm, token |-> reset.token + 1]
    /\ reset' = [reset EXCEPT !.step = "restart"]
    /\ UNCHANGED <<install, base, mode, open, job, faults>>

(* DockerActionReloadSetupToken, NativeActionReloadSetupToken              *)
ResetRestart ==
    /\ reset.step = "restart"
    /\ reset' = [step |-> "idle", token |-> 0]
    /\ \/ GoDown /\ UNCHANGED faults
       \/ Costs("failed") /\ UNCHANGED <<mode, open, job>>
    /\ UNCHANGED <<env, install, base>>

-----------------------------------------------------------------------------
Work ==
    \/ BeginAttempt \/ Lookup \/ Probe \/ ClearAttempt \/ Migrate \/ Initialize
    \/ Verify \/ BeginCommit \/ WriteRuntime \/ FinalizeCommit
    \/ CommitCompletion \/ Restart

Start == StartSetup \/ StartNormal \/ Reconcile

Reset == ResetRead \/ ResetCheck \/ ResetWrite \/ ResetRestart

Next ==
    \/ \E o \in Operations, f \in Forms, secret \in BOOLEAN : Prepare(o, f, secret)
    \/ Work \/ Start \/ Crash \/ OperatorRestart \/ Reset

Spec == Init /\ [][Next]_vars

(* The request that an interrupted one left to be repeated.                *)
Repeat ==
    \E proof \in {install.attempt, install.commit} :
        proof # NoProof /\ Prepare(proof.op, proof.form, TRUE)

(* The process works on, is started again when it is down or closed, and   *)
(* the operator repeats the request that the setup page shows as           *)
(* unfinished (RecoveryOperationID): also when others have the lock again  *)
(* and again with requests that lack the password.                         *)
FairSpec ==
    /\ Spec
    /\ WF_vars(Work) /\ WF_vars(Start) /\ WF_vars(OperatorRestart) /\ SF_vars(Repeat)

-----------------------------------------------------------------------------
(* An administrator never exists that the install state does not know of:  *)
(* the database is bound to the recorded attempt or to the commit journal, *)
(* so that the repeated request finds it, whatever was interrupted.        *)
BoundIsRecorded ==
    \A d \in Databases :
        base[d].bound # NoProof =>
            /\ base[d].bound \in {install.attempt, install.commit}
            /\ DatabaseOf[base[d].bound.form] = d

(* Retries "do not create duplicate administrators" (design of 2026-07-21, *)
(* line 395), in one database or in two, and none beside one that exists.  *)
FoundedIn(d) == base[d].kind # "taken" /\ base[d].admins > 0
OneAdministrator ==
    \A d, e \in Databases :
        /\ base[d].admins <= 1
        /\ FoundedIn(d) /\ FoundedIn(e) => d = e

(* A completed configuration is written only over a journal whose request  *)
(* the database is bound to (line 393 of the design).                      *)
DoneIsBound ==
    env.done =>
        /\ install.phase # "pending"
        /\ IsBound

(* A process that saw the configuration or the install state completed     *)
(* does not accept another session.                                        *)
DoneIsClosed ==
    (env.done \/ install.phase = "completed") /\ job.step = "idle" => ~open

(* The completed state always finds its configuration, until a token reset *)
(* interferes (MaxResets = 0).                                             *)
CompletedIsWhole == install.phase = "completed" => env.done /\ IsSame(install.commit)

(* A journal is never given up or exchanged once it is written.            *)
CommitIsFinal ==
    [][install.phase # "pending" =>
        install'.commit = install.commit /\ install'.phase # "pending"]_vars

(* A token reset is under way only while no request of the setup is.       *)
ResetsAlone ==
    reset.step # "idle" =>
        job.step = "idle" /\ install.phase = "pending" /\ install.attempt = NoProof

(* An installation whose administrator exists comes to serve normally, and *)
(* an attempt on a database that can be installed is dropped or becomes a  *)
(* journal, however often both are interrupted; with a reset in between    *)
(* they may not.  An attempt on another database may block the setup for   *)
(* good: NoAttemptBlocks below.                                            *)
BoundIsServed == \A d \in Databases : base[d].bound # NoProof ~> mode = "normal"
Attempted(d) == install.attempt # NoProof /\ DatabaseOf[install.attempt.form] = d
AttemptEnds ==
    \A d \in Databases :
        Attempted(d) /\ base[d].kind = "empty" ~> install.attempt = NoProof
SetupCompletes == []ResetsAlone => BoundIsServed /\ AttemptEnds

-----------------------------------------------------------------------------
(* What the code does not keep: TLC refutes each of these, with the        *)
(* constants the README names.                                             *)

(* "Token display and reset are permanently disabled after successful      *)
(* initialization" (README.md, line 469).                                  *)
NoResetOnceCompleted ==
    [][install.phase = "completed" => env'.token = env.token]_vars

(* No recorded attempt blocks the setup for good: repeated often enough it *)
(* ends, whatever its form names.                                          *)
NoAttemptBlocks == []ResetsAlone => (install.attempt # NoProof ~> install.attempt = NoProof)
=============================================================================
