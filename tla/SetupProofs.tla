----------------------------- MODULE SetupProofs ------------------------------
(***************************************************************************)
(* Theorems about Setup for any number of operations, forms, databases,    *)
(* token resets and faults.                                                *)
(***************************************************************************)
EXTENDS Setup, TLAPS

(* Besides the administrators that were there, one exists exactly where an *)
(* installation is bound, and none is bound where one was there.           *)
OneEach ==
    \A d \in Databases :
        /\ base[d].bound = NoProof => base[d].admins = IF base[d].kind = "taken" THEN 1 ELSE 0
        /\ base[d].bound # NoProof => base[d].admins = 1 /\ base[d].kind # "taken"

(* A journal is written only for a bound installation.                     *)
JournalIsBound ==
    install.phase # "pending" => base[DatabaseOf[install.commit.form]].bound = install.commit

(* What the request under way relies on at each of its steps.              *)
Recorded == install.phase = "pending" /\ install.attempt = job.proof
Journaled == install.phase = "committing" /\ install.commit = job.proof
JobIsRight ==
    /\ job.step # "idle" => mode = "setup" /\ job.proof \in Proofs
    /\ job.step = "reserve" =>
           /\ install.phase = "pending" /\ install.attempt \in {NoProof, job.proof}
           /\ ~job.had => install.attempt = NoProof
           /\ ~job.bound
    /\ job.step = "lookup" => Recorded
    /\ job.step = "probe" =>
           Recorded /\ base[Home].bound = IF job.bound THEN job.proof ELSE NoProof
    /\ job.step \in {"clear", "migrate", "initialize"} =>
           Recorded /\ base[Home].bound = NoProof
    /\ job.step = "verify" => Journaled
    /\ job.step = "begin" => (Recorded \/ Journaled) /\ base[Home].bound = job.proof
    /\ job.step \in {"write", "finalize"} => Journaled

(* No session is accepted outside of the setup, nor once it is done.       *)
Closed ==
    /\ open => mode = "setup"
    /\ open /\ job.step \notin {"finalize", "close"} => ~env.done /\ install.phase # "completed"

IInv ==
    /\ TypeOK /\ BoundIsRecorded /\ DoneIsBound
    /\ OneEach /\ JournalIsBound /\ JobIsRight /\ Closed

-----------------------------------------------------------------------------
LEMMA NoProofIsNone == NoProof \notin Proofs /\ NoProof.op = NoOperation
BY SetupAssumption DEF NoProof, Proofs

LEMMA ProofForm == ASSUME NEW p \in Proofs
                   PROVE  /\ p.form \in Forms /\ DatabaseOf[p.form] \in Databases
                          /\ p.token \in 1 .. MaxResets + 1
BY SetupAssumption DEF Proofs

LEMMA IdleIsJob == Idle \in Jobs
BY DEF Jobs, Idle, Steps

LEMMA JobType ==
    ASSUME TypeOK, job' = Idle \/ \E s \in Steps : job' = [job EXCEPT !.step = s]
    PROVE  job' \in Jobs
BY IdleIsJob DEF TypeOK, Jobs

LEMMA CostsType == ASSUME TypeOK, NEW o, Costs(o) PROVE faults' \in 0 .. MaxFaults
BY SetupAssumption DEF TypeOK, Costs

Rows == [kind: Kinds, schema: BOOLEAN, admins: Nat, bound: Proofs \cup {NoProof}]

LEMMA InitInv == Init => IInv
<1> SUFFICES ASSUME Init PROVE IInv
  OBVIOUS
<1> USE DEF Init
<1>1. Idle \in Jobs
  BY IdleIsJob
<1>2. /\ env \in [done: BOOLEAN, form: Forms \cup {NoForm}, token: 1 .. MaxResets + 1]
      /\ reset \in [step: ResetSteps, token: 0 .. MaxResets]
      /\ faults \in 0 .. MaxFaults
  BY SetupAssumption DEF ResetSteps
<1>5. PICK kind \in [Databases -> Kinds] : base = [d \in Databases |-> AsFound(kind[d])]
  OBVIOUS
<1>6. \A k \in Kinds : AsFound(k) \in Rows /\ AsFound(k).bound = NoProof
                      /\ AsFound(k).admins = IF AsFound(k).kind = "taken" THEN 1 ELSE 0
  BY DEF AsFound, Rows
<1>7. \A d \in Databases : /\ base[d] \in Rows /\ base[d].bound = NoProof
                            /\ base[d].admins = IF base[d].kind = "taken" THEN 1 ELSE 0
  BY <1>5, <1>6
<1>3. /\ install \in [phase: Phases, attempt: Proofs \cup {NoProof}, commit: Proofs \cup {NoProof}]
      /\ ValidState
      /\ base \in [Databases -> [kind: Kinds, schema: BOOLEAN, admins: Nat, bound: Proofs \cup {NoProof}]]
  BY <1>5, <1>7 DEF Phases, ValidState, Rows
<1>4. TypeOK
  BY <1>1, <1>2, <1>3 DEF TypeOK, Modes
<1> QED BY <1>4, <1>7 DEF IInv, BoundIsRecorded, DoneIsBound, OneEach, JournalIsBound,
                    JobIsRight, Closed, Idle

(* The parts of the invariant that only the files and databases concern.   *)
Stored == <<env, install, base>>

(* A request that ends, or a process that goes down, leaves what is stored. *)
LEMMA Ends ==
    ASSUME IInv, UNCHANGED Stored, job' = Idle, TypeOK',
           open' => mode' = "setup" /\ ~env.done /\ install.phase # "completed"
    PROVE  IInv'
BY DEF IInv, Stored, BoundIsRecorded, DoneIsBound, IsBound, IsSame, OneEach, JournalIsBound, JobIsRight,
       Closed, Idle

LEMMA PrepareInv ==
    ASSUME IInv, NEW o \in Operations, NEW f \in Forms, NEW secret \in BOOLEAN,
           Prepare(o, f, secret)
    PROVE  IInv'
<1> USE DEF IInv
<1> DEFINE proof == [op |-> o, form |-> f, token |-> env.token]
<1>1. proof \in Proofs
  BY DEF TypeOK, Proofs
<1>2. /\ UNCHANGED <<env, install, base, mode, open, reset, faults>>
      /\ mode = "setup" /\ open /\ job.step = "idle"
      /\ job'.proof = proof /\ ~job'.bound /\ job' \in Jobs
      /\ \/ /\ job'.step = "reserve" /\ install.phase = "pending"
            /\ install.attempt \in {NoProof, proof}
            /\ job'.had <=> install.attempt # NoProof
         \/ job'.step = "verify" /\ install.phase = "committing" /\ install.commit = proof
  BY <1>1 DEF Prepare, MayContinue, Idle, Jobs, Steps
<1>3. TypeOK'
  BY <1>2 DEF TypeOK, ValidState
<1>4. JobIsRight'
  BY <1>1, <1>2 DEF JobIsRight, Journaled
<1>5. Closed'
  BY <1>2 DEF Closed
<1> QED BY <1>2, <1>3, <1>4, <1>5
        DEF BoundIsRecorded, DoneIsBound, IsBound, IsSame, OneEach, JournalIsBound

LEMMA BeginAttemptInv == ASSUME IInv, BeginAttempt PROVE IInv'
<1> USE DEF IInv
<1>1. job.step = "reserve" /\ job.proof \in Proofs /\ mode = "setup" /\ install.phase = "pending"
      /\ install.attempt \in {NoProof, job.proof} /\ ~job.bound /\ job \in Jobs
      /\ (~job.had => install.attempt = NoProof)
  BY DEF BeginAttempt, JobIsRight, TypeOK
<1>2. PICK outcome \in Outcomes :
        /\ Costs(outcome)
        /\ install' = IF outcome = "failed" THEN install
                      ELSE [install EXCEPT !.attempt = job.proof]
        /\ GoOn(outcome, IF job.had THEN "lookup" ELSE "probe")
        /\ UNCHANGED <<env, base, mode, open, reset>>
  BY DEF BeginAttempt
<1>3. /\ install'.phase = install.phase /\ install'.commit = install.commit
      /\ install'.attempt \in {install.attempt, job.proof}
      /\ outcome = "ok" => install'.attempt = job.proof
  BY <1>2 DEF TypeOK
<1>4. job' = Idle \/ /\ outcome = "ok"
                     /\ job' = [job EXCEPT !.step = IF job.had THEN "lookup" ELSE "probe"]
  BY <1>2 DEF GoOn
<1>5. TypeOK'
  <2>1. job' \in Jobs
    BY <1>4, JobType DEF Steps
  <2>2. install' \in [phase: Phases, attempt: Proofs \cup {NoProof}, commit: Proofs \cup {NoProof}]
    BY <1>1, <1>2 DEF TypeOK
  <2>3. ValidState'
    BY <1>1, <1>3 DEF TypeOK, ValidState
  <2> QED BY <2>1, <2>2, <2>3, <1>2, CostsType DEF TypeOK
<1>6. BoundIsRecorded'
  BY <1>1, <1>2, <1>3 DEF BoundIsRecorded
<1>7. JobIsRight'
  <2>1. CASE job' = Idle
    BY <2>1 DEF JobIsRight, Idle
  <2>2. CASE outcome = "ok" /\ job' = [job EXCEPT !.step = "lookup"]
    BY <2>2, <1>1, <1>2, <1>3 DEF JobIsRight, Recorded, Jobs
  <2>3. CASE outcome = "ok" /\ ~job.had /\ job' = [job EXCEPT !.step = "probe"]
    <3>1. base[Home].bound = NoProof
      BY <2>3, <1>1, ProofForm DEF BoundIsRecorded, Home, TypeOK, ValidState
    <3> QED BY <2>3, <3>1, <1>1, <1>2, <1>3 DEF JobIsRight, Recorded, Jobs, Home
  <2> QED BY <1>4, <2>1, <2>2, <2>3
<1>8. Closed'
  BY <1>1, <1>2, <1>3 DEF Closed
<1>9. DoneIsBound' /\ OneEach' /\ JournalIsBound'
  BY <1>1, <1>2, <1>3 DEF DoneIsBound, OneEach, JournalIsBound
<1> QED BY <1>5, <1>6, <1>7, <1>8, <1>9

LEMMA LookupInv == ASSUME IInv, Lookup PROVE IInv'
<1> USE DEF IInv
<1>1. job.step = "lookup" /\ job.proof \in Proofs /\ mode = "setup" /\ Recorded /\ job \in Jobs
  BY DEF Lookup, JobIsRight, TypeOK
<1>2. /\ UNCHANGED <<env, install, base, mode, open, reset>> /\ faults' \in 0 .. MaxFaults
      /\ \/ job' = Idle
         \/ /\ base[Home].bound \in {NoProof, job.proof}
            /\ job' = [job EXCEPT !.step = "probe", !.migrated = base[Home].schema,
                                  !.bound = base[Home].bound # NoProof]
  BY CostsType DEF Lookup
<1>3. base[Home] \in [kind: Kinds, schema: BOOLEAN, admins: Nat, bound: Proofs \cup {NoProof}]
  BY <1>1, ProofForm DEF Home, TypeOK
<1>4. job' \in Jobs
  <2>1. base[Home].schema \in BOOLEAN /\ (base[Home].bound # NoProof) \in BOOLEAN
    BY <1>3
  <2> QED BY <1>1, <1>2, <2>1, IdleIsJob DEF Jobs, Steps
<1>5. TypeOK'
  BY <1>2, <1>4 DEF TypeOK, ValidState
<1>6. CASE job' = Idle
  BY <1>6, <1>1, <1>2, <1>5, Ends DEF Stored, Closed
<1>7. CASE job' # Idle
  <2>1. JobIsRight'
    BY <1>7, <1>1, <1>2 DEF JobIsRight, Recorded, Jobs, Home
  <2> QED BY <1>7, <2>1, <1>1, <1>2, <1>5
          DEF BoundIsRecorded, DoneIsBound, IsBound, IsSame, OneEach, JournalIsBound, Closed, Jobs
<1> QED BY <1>6, <1>7

LEMMA ProbeInv == ASSUME IInv, Probe PROVE IInv'
<1> USE DEF IInv
<1>1. job.step = "probe" /\ job.proof \in Proofs /\ mode = "setup" /\ Recorded /\ job \in Jobs
      /\ base[Home].bound = IF job.bound THEN job.proof ELSE NoProof
  BY DEF Probe, JobIsRight, TypeOK
<1>2. /\ UNCHANGED <<env, install, base, mode, open, reset>> /\ faults' \in 0 .. MaxFaults
      /\ \/ job' = Idle
         \/ job.bound /\ job' = [job EXCEPT !.step = "begin"]
         \/ ~job.bound /\ \E s \in {"clear", "migrate", "initialize"} : job' = [job EXCEPT !.step = s]
  <2>1. PICK outcome \in {"ok", "failed"} :
          /\ Costs(outcome)
          /\ job' = IF AfterProbe(outcome = "ok" /\ Answers) = "idle" THEN Idle
                    ELSE [job EXCEPT !.step = AfterProbe(outcome = "ok" /\ Answers)]
    BY DEF Probe
  <2>2. \/ AfterProbe(outcome = "ok" /\ Answers) = "idle"
        \/ job.bound /\ AfterProbe(outcome = "ok" /\ Answers) = "begin"
        \/ ~job.bound /\ AfterProbe(outcome = "ok" /\ Answers) \in {"clear", "migrate", "initialize"}
    BY <1>1 DEF AfterProbe, Jobs
  <2> QED BY <2>1, <2>2, CostsType DEF Probe
<1>3. job' \in Jobs
  BY <1>2, JobType DEF Steps
<1>4. TypeOK'
  BY <1>2, <1>3 DEF TypeOK, ValidState
<1>5. CASE job' = Idle
  BY <1>5, <1>1, <1>2, <1>4, Ends DEF Stored, Closed
<1>6. CASE job' # Idle
  <2>1. JobIsRight'
    BY <1>6, <1>1, <1>2 DEF JobIsRight, Recorded, Jobs, Home
  <2> QED BY <1>6, <2>1, <1>1, <1>2, <1>4
          DEF BoundIsRecorded, DoneIsBound, IsBound, IsSame, OneEach, JournalIsBound, Closed, Jobs
<1> QED BY <1>5, <1>6
LEMMA ClearAttemptInv == ASSUME IInv, ClearAttempt PROVE IInv'
<1> USE DEF IInv
<1>1. /\ job.step = "clear" /\ job.proof \in Proofs /\ mode = "setup" /\ Recorded
      /\ base[Home].bound = NoProof /\ job' = Idle
      /\ UNCHANGED <<env, base, mode, open, reset>> /\ faults' \in 0 .. MaxFaults
      /\ install' \in {install, [install EXCEPT !.attempt = NoProof]}
  BY CostsType DEF ClearAttempt, JobIsRight
<1>2. /\ install.phase = "pending" /\ install.commit = NoProof
      /\ install'.phase = "pending" /\ install'.commit = NoProof
      /\ install' \in [phase: Phases, attempt: Proofs \cup {NoProof}, commit: Proofs \cup {NoProof}]
  BY <1>1 DEF TypeOK, ValidState, Recorded
<1>3. TypeOK'
  BY <1>1, <1>2, IdleIsJob DEF TypeOK, ValidState
<1>4. \A d \in Databases : base[d].bound = NoProof
  <2> SUFFICES ASSUME NEW d \in Databases, base[d].bound # NoProof PROVE FALSE
    OBVIOUS
  <2>1. base[d].bound = job.proof /\ DatabaseOf[base[d].bound.form] = d
    BY <1>1, <1>2 DEF BoundIsRecorded, Recorded
  <2> QED BY <1>1, <2>1 DEF Home
<1>5. BoundIsRecorded' /\ DoneIsBound' /\ OneEach' /\ JournalIsBound'
  BY <1>1, <1>2, <1>4 DEF BoundIsRecorded, DoneIsBound, OneEach, JournalIsBound
<1>6. JobIsRight' /\ Closed'
  BY <1>1, <1>2 DEF JobIsRight, Closed, Idle
<1> QED BY <1>3, <1>5, <1>6

LEMMA MigrateInv == ASSUME IInv, Migrate PROVE IInv'
<1> USE DEF IInv
<1>1. /\ job.step = "migrate" /\ job.proof \in Proofs /\ mode = "setup" /\ Recorded
      /\ base[Home].bound = NoProof /\ job \in Jobs
      /\ UNCHANGED <<env, install, mode, open, reset>> /\ faults' \in 0 .. MaxFaults
      /\ base' \in {base, [base EXCEPT ![Home].schema = TRUE]}
      /\ job' = Idle \/ job' = [job EXCEPT !.step = "initialize"]
  BY CostsType DEF Migrate, JobIsRight, GoOn, TypeOK
<1>2. Home \in Databases
  BY <1>1, ProofForm DEF Home
<1>3. /\ base' \in [Databases -> [kind: Kinds, schema: BOOLEAN, admins: Nat, bound: Proofs \cup {NoProof}]]
      /\ \A d \in Databases : /\ base'[d].bound = base[d].bound /\ base'[d].admins = base[d].admins
                                 /\ base'[d].kind = base[d].kind
  <2> DEFINE row == [base[Home] EXCEPT !.schema = TRUE]
  <2>1. base \in [Databases -> Rows]
    BY DEF TypeOK, Rows
  <2>2. row \in Rows /\ row.bound = base[Home].bound /\ row.admins = base[Home].admins
        /\ row.kind = base[Home].kind
    BY <1>2, <2>1 DEF Rows
  <2>3. base' \in {base, [base EXCEPT ![Home] = row]}
    BY <1>1
  <2> HIDE DEF row
  <2> QED BY <1>2, <2>1, <2>2, <2>3 DEF Rows
<1>4. TypeOK'
  BY <1>1, <1>3, JobType DEF TypeOK, ValidState, Steps
<1>5. JobIsRight'
  BY <1>1, <1>2, <1>3 DEF JobIsRight, Recorded, Home, Jobs, Idle
<1>6. BoundIsRecorded' /\ OneEach' /\ Closed'
  BY <1>1, <1>3 DEF BoundIsRecorded, OneEach, Closed, Jobs
<1>7. DoneIsBound' /\ JournalIsBound'
  BY <1>1 DEF DoneIsBound, JournalIsBound, Recorded
<1> QED BY <1>4, <1>5, <1>6, <1>7

LEMMA InitializeInv == ASSUME IInv, Initialize PROVE IInv'
<1> USE DEF IInv
<1>1. /\ job.step = "initialize" /\ job.proof \in Proofs /\ mode = "setup" /\ Recorded
      /\ base[Home].bound = NoProof /\ job \in Jobs
  BY DEF Initialize, JobIsRight, TypeOK
<1>2. Home \in Databases
  BY <1>1, ProofForm DEF Home
<1>3. base[Home].admins = 0 <=> base[Home].kind # "taken"
  BY <1>1, <1>2 DEF OneEach
<1>4. /\ UNCHANGED <<env, install, mode, open, reset>> /\ faults' \in 0 .. MaxFaults
      /\ \/ base' = base /\ job' = Idle
         \/ /\ base[Home].admins = 0
            /\ base' = [base EXCEPT ![Home] = Founded]
            /\ job' = Idle \/ job' = [job EXCEPT !.step = "begin"]
  BY <1>1, NoProofIsNone, CostsType DEF Initialize, GoOn, Outcomes
<1>5. CASE base' = base /\ job' = Idle
  <2>1. TypeOK'
    BY <1>4, <1>5, IdleIsJob DEF TypeOK, ValidState
  <2> QED BY <2>1, <1>1, <1>4, <1>5, Ends DEF Stored, Closed
<1>6. CASE /\ base[Home].admins = 0
           /\ base' = [base EXCEPT ![Home] = Founded]
           /\ job' = Idle \/ job' = [job EXCEPT !.step = "begin"]
  <2>1. base \in [Databases -> Rows]
    BY DEF TypeOK, Rows
  <2>9. Founded \in Rows /\ Founded.bound = job.proof /\ Founded.admins = 1
        /\ Founded.kind # "taken"
    BY <1>1, <1>2, <1>3, <1>6, <2>1 DEF Rows, Founded
  <2>2. base' \in [Databases -> [kind: Kinds, schema: BOOLEAN, admins: Nat, bound: Proofs \cup {NoProof}]]
    BY <1>2, <1>6, <2>1, <2>9 DEF Rows
  <2>3. /\ base'[Home].bound = job.proof /\ base'[Home].admins = 1
        /\ base'[Home].kind # "taken"
        /\ \A d \in Databases \ {Home} : base'[d] = base[d]
    BY <1>2, <1>6, <2>1, <2>9
  <2>4. TypeOK'
    BY <1>4, <1>6, <2>2, JobType DEF TypeOK, ValidState, Steps
  <2>5. OneEach'
    BY <1>1, <2>3, NoProofIsNone DEF OneEach
  <2>6. BoundIsRecorded'
    BY <1>1, <1>4, <2>3 DEF BoundIsRecorded, Recorded, Home
  <2>7. JobIsRight'
    <3>1. CASE job' = Idle
      BY <3>1 DEF JobIsRight, Idle
    <3>2. CASE job' = [job EXCEPT !.step = "begin"]
      BY <3>2, <1>1, <1>4, <2>3 DEF JobIsRight, Recorded, Home, Jobs
    <3> QED BY <1>6, <3>1, <3>2
  <2>8. DoneIsBound' /\ JournalIsBound' /\ Closed'
    BY <1>1, <1>4 DEF DoneIsBound, JournalIsBound, Closed, Recorded
  <2> QED BY <2>4, <2>5, <2>6, <2>7, <2>8
<1> QED BY <1>4, <1>5, <1>6

LEMMA VerifyInv == ASSUME IInv, Verify PROVE IInv'
<1> USE DEF IInv
<1>1. /\ job.step = "verify" /\ job.proof \in Proofs /\ mode = "setup" /\ Journaled /\ job \in Jobs
      /\ UNCHANGED <<env, install, base, mode, open, reset>> /\ faults' \in 0 .. MaxFaults
      /\ \/ job' = Idle
         \/ job' = [job EXCEPT !.step = "begin"] /\ base[Home].bound = job.proof
  BY CostsType DEF Verify, JobIsRight, GoOn, TypeOK
<1>2. TypeOK'
  BY <1>1, JobType DEF TypeOK, ValidState, Steps
<1>3. CASE job' = Idle
  BY <1>1, <1>2, <1>3, Ends DEF Stored, Closed
<1>4. CASE job' = [job EXCEPT !.step = "begin"] /\ base[Home].bound = job.proof
  <2>1. JobIsRight'
    BY <1>1, <1>4 DEF JobIsRight, Journaled, Jobs, Home
  <2> QED BY <1>1, <1>2, <1>4, <2>1
          DEF BoundIsRecorded, DoneIsBound, IsBound, IsSame, OneEach, JournalIsBound, Closed, Jobs
<1> QED BY <1>1, <1>3, <1>4
LEMMA BeginCommitInv == ASSUME IInv, BeginCommit PROVE IInv'
<1> USE DEF IInv
<1>1. /\ job.step = "begin" /\ job.proof \in Proofs /\ mode = "setup" /\ (Recorded \/ Journaled)
      /\ base[Home].bound = job.proof /\ job \in Jobs
  BY DEF BeginCommit, JobIsRight, TypeOK
<1> DEFINE journal == [phase |-> "committing", attempt |-> NoProof, commit |-> job.proof]
<1>2. /\ UNCHANGED <<env, base, mode, open, reset>> /\ faults' \in 0 .. MaxFaults
      /\ \/ install' = install /\ job' = Idle
         \/ install' = journal /\ (job' = Idle \/ job' = [job EXCEPT !.step = "write"])
  BY CostsType DEF BeginCommit, GoOn, Outcomes
<1>3. CASE install' = install /\ job' = Idle
  <2>1. TypeOK'
    BY <1>2, <1>3, IdleIsJob DEF TypeOK, ValidState
  <2> QED BY <2>1, <1>1, <1>2, <1>3, Ends DEF Stored, Closed
<1>4. CASE install' = journal /\ (job' = Idle \/ job' = [job EXCEPT !.step = "write"])
  <2>1. TypeOK'
    BY <1>1, <1>2, <1>4, JobType, NoProofIsNone DEF TypeOK, ValidState, Phases, Steps
  <2>2. BoundIsRecorded'
    BY <1>1, <1>2, <1>4, NoProofIsNone DEF BoundIsRecorded, Recorded, Journaled, TypeOK, ValidState
  <2>3. DoneIsBound'
    BY <1>1, <1>2, <1>4 DEF DoneIsBound, IsBound, IsSame, Recorded, Journaled
  <2>4. JournalIsBound' /\ OneEach'
    BY <1>1, <1>2, <1>4 DEF JournalIsBound, OneEach, Home
  <2>5. JobIsRight'
    BY <1>1, <1>2, <1>4 DEF JobIsRight, Journaled, Jobs, Idle
  <2>6. Closed'
    BY <1>1, <1>2, <1>4 DEF Closed, Jobs, Idle
  <2> QED BY <2>1, <2>2, <2>3, <2>4, <2>5, <2>6
<1> QED BY <1>2, <1>3, <1>4

LEMMA WriteRuntimeInv == ASSUME IInv, WriteRuntime PROVE IInv'
<1> USE DEF IInv
<1>1. job.step = "write" /\ job.proof \in Proofs /\ mode = "setup" /\ Journaled /\ job \in Jobs
  BY DEF WriteRuntime, JobIsRight, TypeOK
<1> DEFINE final == [done |-> TRUE, form |-> job.proof.form, token |-> job.proof.token]
<1>2. /\ UNCHANGED <<install, base, mode, reset>> /\ faults' \in 0 .. MaxFaults
      /\ env' \in {env, final}
      /\ \/ job' = Idle /\ open' = FALSE
         \/ job' = [job EXCEPT !.step = "finalize"] /\ open' = TRUE
  BY CostsType DEF WriteRuntime, GoOn, StaysOpen
<1>3. final \in [done: BOOLEAN, form: Forms \cup {NoForm}, token: 1 .. MaxResets + 1]
  BY <1>1, ProofForm
<1>4. TypeOK'
  BY <1>2, <1>3, JobType DEF TypeOK, ValidState, Steps
<1>5. DoneIsBound'
  BY <1>1, <1>2 DEF DoneIsBound, IsBound, IsSame, JournalIsBound, Journaled
<1>6. JobIsRight' /\ Closed'
  BY <1>1, <1>2 DEF JobIsRight, Journaled, Closed, Jobs, Idle
<1>7. BoundIsRecorded' /\ OneEach' /\ JournalIsBound'
  BY <1>2 DEF BoundIsRecorded, OneEach, JournalIsBound
<1> QED BY <1>4, <1>5, <1>6, <1>7

(* A journal that is completed stays the journal of its installation.      *)
LEMMA Completes ==
    ASSUME IInv, install.phase = "committing", install' \in {install, Completed},
           UNCHANGED <<env, base>>
    PROVE  /\ install'.phase \in {"committing", "completed"} /\ install'.attempt = NoProof
           /\ install'.commit = install.commit
           /\ install' \in [phase: Phases, attempt: Proofs \cup {NoProof},
                            commit: Proofs \cup {NoProof}]
           /\ ValidState'
           /\ BoundIsRecorded' /\ DoneIsBound' /\ OneEach' /\ JournalIsBound'
<1> USE DEF IInv
<1>1. /\ install'.phase \in {"committing", "completed"} /\ install'.commit = install.commit
      /\ install'.attempt = install.attempt /\ install.attempt = NoProof
      /\ install.commit # NoProof
      /\ install' \in [phase: Phases, attempt: Proofs \cup {NoProof}, commit: Proofs \cup {NoProof}]
  BY DEF TypeOK, ValidState, Completed, Phases
<1> QED BY <1>1 DEF ValidState, BoundIsRecorded, DoneIsBound, IsBound, IsSame, OneEach, JournalIsBound

LEMMA FinalizeCommitInv == ASSUME IInv, FinalizeCommit PROVE IInv'
<1> USE DEF IInv
<1>1. job.step = "finalize" /\ job.proof \in Proofs /\ mode = "setup" /\ Journaled /\ job \in Jobs
  BY DEF FinalizeCommit, JobIsRight, TypeOK
<1>2. /\ UNCHANGED <<env, base, mode, reset>> /\ faults' \in 0 .. MaxFaults
      /\ install' \in {install, Completed}
      /\ \/ job' = Idle /\ open' = FALSE
         \/ job' = [job EXCEPT !.step = "close"] /\ open' = TRUE
  BY CostsType DEF FinalizeCommit, GoOn, StaysOpen
<1>3. /\ install' \in [phase: Phases, attempt: Proofs \cup {NoProof}, commit: Proofs \cup {NoProof}]
      /\ ValidState' /\ BoundIsRecorded' /\ DoneIsBound' /\ OneEach' /\ JournalIsBound'
  BY <1>1, <1>2, Completes DEF Journaled
<1>4. TypeOK'
  BY <1>2, <1>3, JobType DEF TypeOK, Steps
<1>5. JobIsRight' /\ Closed'
  BY <1>1, <1>2 DEF JobIsRight, Closed, Jobs, Idle
<1> QED BY <1>3, <1>4, <1>5

LEMMA CommitCompletionInv == ASSUME IInv, CommitCompletion PROVE IInv'
<1> USE DEF IInv
<1>1. /\ job.step = "close" /\ job.proof \in Proofs /\ mode = "setup" /\ job \in Jobs
      /\ UNCHANGED <<env, install, base, mode, reset, faults>> /\ open' = FALSE
      /\ job' = [job EXCEPT !.step = "restart"]
  BY DEF CommitCompletion, JobIsRight, TypeOK
<1>2. TypeOK'
  BY <1>1, JobType DEF TypeOK, ValidState, Steps
<1>3. JobIsRight' /\ Closed'
  BY <1>1 DEF JobIsRight, Closed, Jobs
<1> QED BY <1>1, <1>2, <1>3 DEF BoundIsRecorded, DoneIsBound, IsBound, IsSame, OneEach, JournalIsBound

(* A process that goes down: after a restart, a death, a reset.            *)
LEMMA GoDownInv ==
    ASSUME IInv, GoDown, UNCHANGED <<env, install, base>>, reset' \in [step: ResetSteps, token: 0 .. MaxResets],
           faults' \in 0 .. MaxFaults
    PROVE  IInv'
<1>1. TypeOK'
  BY IdleIsJob DEF IInv, TypeOK, ValidState, GoDown, Modes
<1> QED BY <1>1, Ends DEF GoDown, Stored

LEMMA StartInv == ASSUME IInv, Start PROVE IInv'
<1> USE DEF IInv
<1>1. mode = "down" /\ job.step = "idle" /\ ~open /\ job \in Jobs
  BY DEF Start, StartSetup, StartNormal, Reconcile, JobIsRight, Closed, TypeOK
<1>2. CASE StartSetup
  <2>1. /\ UNCHANGED <<env, install, base, job, reset, faults>>
        /\ mode' \in {"setup", "broken"} /\ open' \in BOOLEAN
        /\ open' => mode' = "setup" /\ ~env.done /\ install.phase # "completed"
    BY <1>2 DEF StartSetup, Decision
  <2>2. TypeOK'
    BY <2>1 DEF TypeOK, ValidState, Modes
  <2> QED BY <1>1, <2>1, <2>2 DEF JobIsRight, Closed, BoundIsRecorded, DoneIsBound, IsBound, IsSame,
                                  OneEach, JournalIsBound
<1>3. CASE StartNormal
  <2>1. TypeOK'
    BY <1>3 DEF StartNormal, TypeOK, ValidState, Modes
  <2> QED BY <1>1, <1>3, <2>1 DEF StartNormal, JobIsRight, Closed, BoundIsRecorded, DoneIsBound, IsBound,
                                  IsSame, OneEach, JournalIsBound
<1>4. CASE Reconcile
  <2>1. /\ UNCHANGED <<env, base, open, job, reset>> /\ faults' \in 0 .. MaxFaults
        /\ install' \in {install, Completed} /\ install.phase = "committing"
        /\ mode' \in Modes
    BY <1>4, CostsType DEF Reconcile, MayReconcile, Decision, Modes
  <2>2. /\ install' \in [phase: Phases, attempt: Proofs \cup {NoProof}, commit: Proofs \cup {NoProof}]
        /\ ValidState' /\ BoundIsRecorded' /\ DoneIsBound' /\ OneEach' /\ JournalIsBound'
    BY <2>1, Completes
  <2>3. TypeOK'
    BY <2>1, <2>2 DEF TypeOK
  <2>4. JobIsRight' /\ Closed'
    BY <1>1, <2>1 DEF JobIsRight, Closed
  <2> QED BY <2>2, <2>3, <2>4
<1> QED BY <1>2, <1>3, <1>4 DEF Start
LEMMA ResetInv == ASSUME IInv, Reset PROVE IInv'
<1> USE DEF IInv
<1>1. CASE ResetRestart
  <2>1. /\ UNCHANGED <<env, install, base>> /\ faults' \in 0 .. MaxFaults
        /\ reset' \in [step: ResetSteps, token: 0 .. MaxResets]
        /\ GoDown \/ UNCHANGED <<mode, open, job>>
    BY <1>1, SetupAssumption, CostsType DEF ResetRestart, ResetSteps, TypeOK
  <2>2. CASE GoDown
    BY <2>1, <2>2, GoDownInv
  <2>3. CASE UNCHANGED <<mode, open, job>>
    <3>1. TypeOK'
      BY <2>1, <2>3 DEF TypeOK, ValidState
    <3> QED BY <2>1, <2>3, <3>1 DEF JobIsRight, Recorded, Journaled, Home, Closed, BoundIsRecorded,
                                    DoneIsBound, IsBound, IsSame, OneEach, JournalIsBound
  <2> QED BY <2>1, <2>2, <2>3
<1>2. CASE ResetRead \/ ResetCheck \/ ResetWrite
  <2>1. /\ UNCHANGED <<install, base, mode, open, job, faults>>
        /\ env' = env \/ ~env'.done
        /\ env' \in [done: BOOLEAN, form: Forms \cup {NoForm}, token: 1 .. MaxResets + 1]
        /\ reset' \in [step: ResetSteps, token: 0 .. MaxResets]
    <3>1. reset.step \in ResetSteps /\ reset.token \in 0 .. MaxResets /\ env.token \in 1 .. MaxResets + 1
      BY DEF TypeOK
    <3>2. CASE ResetRead
      <4>1. env.token \in 0 .. MaxResets
        BY <3>1, <3>2, SetupAssumption DEF ResetRead
      <4> QED BY <3>2, <4>1 DEF ResetRead, TypeOK, ResetSteps
    <3>3. CASE ResetCheck
      BY <3>1, <3>3 DEF ResetCheck, TypeOK, ResetSteps
    <3>4. CASE ResetWrite
      <4>1. reset.token + 1 \in 1 .. MaxResets + 1
        BY <3>1, SetupAssumption
      <4> QED BY <3>4, <3>1, <4>1 DEF ResetWrite, TypeOK, ResetSteps
    <3> QED BY <1>2, <3>2, <3>3, <3>4
  <2>2. TypeOK'
    BY <2>1 DEF TypeOK, ValidState
  <2> QED BY <2>1, <2>2 DEF JobIsRight, Recorded, Journaled, Home, Closed, BoundIsRecorded,
                            DoneIsBound, IsBound, IsSame, OneEach, JournalIsBound
<1> QED BY <1>1, <1>2 DEF Reset

LEMMA StepInv == IInv /\ [Next]_vars => IInv'
<1> SUFFICES ASSUME IInv, [Next]_vars PROVE IInv'
  OBVIOUS
<1>1. ASSUME NEW o \in Operations, NEW f \in Forms, NEW secret \in BOOLEAN, Prepare(o, f, secret)
      PROVE IInv'
  BY <1>1, PrepareInv
<1>2. ASSUME Work PROVE IInv'
  <2>1. ASSUME Restart PROVE IInv'
    BY <2>1, GoDownInv DEF Restart, IInv, TypeOK
  <2> QED BY <1>2, <2>1, BeginAttemptInv, LookupInv, ProbeInv, ClearAttemptInv, MigrateInv, InitializeInv,
             VerifyInv, BeginCommitInv, WriteRuntimeInv, FinalizeCommitInv, CommitCompletionInv DEF Work
<1>3. ASSUME Crash PROVE IInv'
  BY <1>3, GoDownInv, CostsType DEF Crash, IInv, TypeOK
<1>4. ASSUME OperatorRestart PROVE IInv'
  BY <1>4, GoDownInv DEF OperatorRestart, IInv, TypeOK
<1>5. ASSUME UNCHANGED vars PROVE IInv'
  BY <1>5 DEF vars, IInv, TypeOK, ValidState, JobIsRight, Recorded, Journaled, Home, Closed, BoundIsRecorded,
              DoneIsBound, IsBound, IsSame, OneEach, JournalIsBound
<1> QED BY <1>1, <1>2, <1>3, <1>4, <1>5, StartInv, ResetInv DEF Next

LEMMA Inv == Spec => []IInv
BY InitInv, StepInv, PTL DEF Spec

-----------------------------------------------------------------------------
(* The files, the databases and the request under way stay well formed.    *)
THEOREM Typed == Spec => []TypeOK
<1>1. IInv => TypeOK
  BY DEF IInv
<1> QED BY <1>1, Inv, PTL

(* Whatever is interrupted, the install state knows of the administrator   *)
(* that exists: the repeated request finds it (executeApply).              *)
THEOREM Recoverable == Spec => []BoundIsRecorded
<1>1. IInv => BoundIsRecorded
  BY DEF IInv
<1> QED BY <1>1, Inv, PTL

(* Repetitions, other requests and other databases never create a second   *)
(* administrator (initializeOnce, ClearAttempt).                           *)
THEOREM Single == Spec => []OneAdministrator
<1>1. ASSUME IInv PROVE OneAdministrator
  <2> USE <1>1 DEF IInv
  <2> SUFFICES ASSUME NEW d \in Databases, NEW e \in Databases
               PROVE  /\ base[d].admins <= 1
                      /\ FoundedIn(d) /\ FoundedIn(e) => d = e
    BY DEF OneAdministrator
  <2>1. /\ base[d].admins <= 1
        /\ FoundedIn(d) => base[d].bound # NoProof
        /\ FoundedIn(e) => base[e].bound # NoProof
    BY DEF OneEach, FoundedIn
  <2>2. base[d].bound # NoProof /\ base[e].bound # NoProof => d = e
    BY DEF BoundIsRecorded, TypeOK, ValidState
  <2> QED BY <2>1, <2>2
<1> QED BY <1>1, Inv, PTL

(* A completed configuration names an installation that the database and   *)
(* the journal record (commitPreparedRuntime).                             *)
THEOREM Founding == Spec => []DoneIsBound
<1>1. IInv => DoneIsBound
  BY DEF IInv
<1> QED BY <1>1, Inv, PTL

(* Once it is done, no process accepts another session                     *)
(* (FailClosedCompletion).                                                 *)
THEOREM StaysClosed == Spec => []DoneIsClosed
<1>1. IInv => DoneIsClosed
  BY DEF IInv, Closed, DoneIsClosed
<1> QED BY <1>1, Inv, PTL

(* A commit journal is never given up or exchanged (BeginCommit,           *)
(* FinalizeCommit, ReconcileCommit).                                       *)
THEOREM Committed == Spec => CommitIsFinal
<1>1. ASSUME IInv, [Next]_vars, install.phase # "pending"
      PROVE  install'.commit = install.commit /\ install'.phase # "pending"
  <2> USE <1>1 DEF IInv
  <2>1. CASE BeginAttempt \/ ClearAttempt
    BY <2>1 DEF BeginAttempt, ClearAttempt, JobIsRight, Recorded
  <2>2. CASE BeginCommit
    BY <2>2 DEF BeginCommit, JobIsRight, Recorded, Journaled
  <2>3. CASE FinalizeCommit
    BY <2>3 DEF FinalizeCommit, Completed, TypeOK
  <2>4. CASE Reconcile
    BY <2>4 DEF Reconcile, Completed, TypeOK
  <2>5. CASE UNCHANGED install
    BY <2>5
  <2> QED BY <2>1, <2>2, <2>3, <2>4, <2>5 DEF Next, vars, Prepare, Work, Lookup, Probe, Migrate, Initialize,
             Verify, WriteRuntime, CommitCompletion, Restart, Start, StartSetup, StartNormal, Crash,
             OperatorRestart, Reset, ResetRead, ResetCheck, ResetWrite, ResetRestart
<1> QED BY <1>1, Inv, PTL DEF Spec, CommitIsFinal
=============================================================================
