---------------------------- MODULE GalleryExport ----------------------------
(***************************************************************************)
(* The export of a selection of assets as an archive: the jobs of          *)
(* gallery_export_store.go, the attempts of                                *)
(* internal/service/galleryexport/processor.go in the slots of the cleanup *)
(* role, and the end of the archives.                                      *)
(*                                                                         *)
(* A step is a statement or transaction of the store, the build of an      *)
(* archive, or its upload.  Of the time three things are kept: whether the *)
(* deadline of a job is over, whether its lease has run out, and whether a *)
(* settlement was begun before the deadline.  What ObjectCleanup says of a *)
(* deletion job is one step here: it removes what no row needs.            *)
(***************************************************************************)
EXTENDS Integers, FiniteSets

CONSTANTS
    Jobs,
    Processes,  \* workers with the cleanup role
    PerProcess, \* their slots: the slots of a process claim under one name
    Faults,     \* what may go wrong
    MaxFaults,  \* bound: how often
    MaxClaims   \* bound: claims of a job

ASSUME ExportAssumption ==
    /\ PerProcess \in Nat /\ MaxFaults \in Nat /\ MaxClaims \in Nat
    /\ Faults \subseteq {"die", "slow", "read", "upload", "error", "lost"}

VARIABLES
    job,     \* job -> its row
    late,    \* jobs whose lifecycle deadline is over
    gone,    \* jobs one of whose assets was deleted
    object,  \* archives in the storage
    due,     \* archives with a deletion job that waits
    slots,   \* slot -> what it is about to do
    tokens,  \* tokens of attempts given out
    faults   \* faults so far

vars == <<job, late, gone, object, due, slots, tokens, faults>>
world == <<late, gone>>

Slots == Processes \X (1..PerProcess)
Owner(s) == s[1]
NoOwner == "nobody"
NoKey == <<>>

MaxTries == 3
States == {"none", "queued", "running", "succeeded", "failed", "expired"}
Over == {"succeeded", "failed", "expired"}
NoJob == [state |-> "none", attempts |-> 0, owner |-> NoOwner, lease |-> "none", archive |-> NoKey]
Idle == [step |-> "idle"]
Steps == {"reload", "build", "upload", "complete", "fail"}

(* Faulty: the attempts of a job share a key. *)
KeyOfJob(j, attempt, token) == <<j, 0, 0>>
(* attemptObjectKey *)
Key(j, attempt, token) == <<j, attempt, token>>

Init ==
    /\ job = [j \in Jobs |-> NoJob]
    /\ late = {} /\ gone = {}
    /\ object = {} /\ due = {}
    /\ slots = [s \in Slots |-> Idle]
    /\ tokens = 0 /\ faults = 0

Fault(f) == f \in Faults /\ faults < MaxFaults /\ faults' = faults + 1
Become(s, next) == slots' = [slots EXCEPT ![s] = next]
Ended(j, state) == [job[j] EXCEPT !.state = state, !.owner = NoOwner, !.lease = "none"]

-----------------------------------------------------------------------------
(* CreateJob *)
Create(j) ==
    /\ job[j].state = "none"
    /\ job' = [job EXCEPT ![j].state = "queued"]
    /\ UNCHANGED <<world, object, due, slots, tokens, faults>>

Deadline(j) ==
    /\ job[j].state # "none" /\ j \notin late
    /\ late' = late \cup {j}
    /\ UNCHANGED <<job, gone, object, due, slots, tokens, faults>>

AssetGoes(j) ==
    /\ job[j].state # "none" /\ j \notin gone
    /\ gone' = gone \cup {j}
    /\ UNCHANGED <<job, late, object, due, slots, tokens, faults>>

(* Faulty: only a job that waits is looked for. *)
OverdueQueued(j) == j \in late /\ job[j].state = "queued"
Overdue(j) == j \in late /\ job[j].state \in {"queued", "running"}

(* expireLifecycleJobs, at every poll; GetJob does so for one job.         *)
ExpireLate ==
    /\ \E j \in Jobs : Overdue(j)
    /\ job' = [j \in Jobs |-> IF Overdue(j) THEN Ended(j, "failed") ELSE job[j]]
    /\ UNCHANGED <<world, object, due, slots, tokens, faults>>
Show(j) ==
    /\ Overdue(j)
    /\ job' = [job EXCEPT ![j] = Ended(j, "failed")]
    /\ UNCHANGED <<world, object, due, slots, tokens, faults>>

Eligible(j) ==
    /\ job[j].state = "queued" \/ (job[j].state = "running" /\ job[j].lease = "expired")
    /\ j \notin late

(* AcquireNextJob: the update of the claim. *)
Claim(s) ==
    /\ slots[s] = Idle
    /\ \E j \in Jobs :
        /\ Eligible(j) /\ job[j].attempts < MaxClaims
        /\ job' = [job EXCEPT ![j].state = "running", ![j].owner = Owner(s),
                              ![j].lease = "valid", ![j].attempts = @ + 1]
        /\ Become(s, [step |-> "reload", job |-> j, claimed |-> job[j].attempts + 1, as |-> Owner(s),
                      attempt |-> job[j].attempts + 1, token |-> tokens + 1,
                      inTime |-> TRUE, final |-> FALSE, lost |-> FALSE])
    /\ tokens' = tokens + 1
    /\ UNCHANGED <<world, object, due, faults>>

(* The row is read again, by its id, after the claim: another worker may   *)
(* have claimed the job since.                                             *)
Reload(s) ==
    /\ slots[s].step = "reload"
    /\ LET j == slots[s].job IN
       \/ /\ slots' = [slots EXCEPT ![s].step = "build", ![s].as = job[j].owner, ![s].attempt = job[j].attempts]
          /\ UNCHANGED faults
       \/ Become(s, Idle) /\ Fault("error")
    /\ UNCHANGED <<job, world, object, due, tokens>>

Holds(s) ==
    LET c == slots[s] IN
    job[c.job].state = "running" /\ job[c.job].owner = Owner(s) /\ job[c.job].attempts = c.attempt

(* renewLease: when it fails, the attempt is cancelled and settles nothing *)
(* any more; a step that is under way may still succeed.                   *)
Heartbeat(s) ==
    /\ slots[s].step \in Steps \ {"reload"} /\ ~slots[s].lost
    /\ \/ /\ Holds(s) /\ slots[s].job \notin late /\ job[slots[s].job].lease = "expired"
          /\ job' = [job EXCEPT ![slots[s].job].lease = "valid"]
          /\ UNCHANGED <<slots, faults>>
       \/ /\ ~(Holds(s) /\ slots[s].job \notin late)
          /\ slots' = [slots EXCEPT ![s].lost = TRUE]
          /\ UNCHANGED <<job, faults>>
       \/ /\ Fault("error")
          /\ slots' = [slots EXCEPT ![s].lost = TRUE]
          /\ UNCHANGED job
    /\ UNCHANGED <<world, object, due, tokens>>

(* The context of an attempt ends with its lease or with the deadline. *)
Cancelled(s) == slots[s].lost \/ slots[s].job \in late

(* AuthorizeAssets and buildArchive *)
Build(s) ==
    /\ slots[s].step = "build"
    /\ LET to(step, final) == slots' = [slots EXCEPT ![s].step = step, ![s].final = final]
       IN  \/ slots[s].job \notin gone /\ to("upload", FALSE) /\ UNCHANGED faults
           \/ slots[s].job \in gone /\ to("fail", TRUE) /\ UNCHANGED faults
           \/ Cancelled(s) /\ to("fail", FALSE) /\ UNCHANGED faults
           \/ Fault("read") /\ to("fail", FALSE)
    /\ UNCHANGED <<job, world, object, due, tokens>>

ArchiveOf(s) == Key(slots[s].job, slots[s].attempt, slots[s].token)
(* PutReader; when it fails the key is deleted.  The time a settlement is  *)
(* measured by is read right after.                                        *)
Upload(s) ==
    /\ slots[s].step = "upload"
    /\ \/ /\ object' = object \cup {ArchiveOf(s)}
          /\ slots' = [slots EXCEPT ![s].step = "complete", ![s].inTime = slots[s].job \notin late]
          /\ UNCHANGED faults
       \/ /\ \/ Cancelled(s) /\ UNCHANGED faults
             \/ Fault("upload")
          /\ object' = object \ {ArchiveOf(s)}
          /\ slots' = [slots EXCEPT ![s].step = "fail"]
    /\ UNCHANGED <<job, world, due, tokens>>

Settles(s) == Holds(s) /\ slots[s].inTime

(* CompleteJob: the archive and the job that will delete it are one        *)
(* transaction.  A conflict is no failure; any other error is, also when   *)
(* only the answer was lost.                                               *)
Completed(s) ==
    LET j == slots[s].job IN
    /\ job' = [job EXCEPT ![j] = [Ended(j, "succeeded") EXCEPT !.archive = ArchiveOf(s)]]
    /\ due' = due \cup {ArchiveOf(s)}
Complete(s) ==
    /\ slots[s].step = "complete"
    /\ LET failing == slots' = [slots EXCEPT ![s].step = "fail"]
       IN  \/ Settles(s) /\ Completed(s) /\ Become(s, Idle) /\ UNCHANGED faults
           \/ Settles(s) /\ Completed(s) /\ failing /\ Fault("lost")
           \/ ~Settles(s) /\ Become(s, Idle) /\ UNCHANGED <<job, due, faults>>
           \/ failing /\ Fault("error") /\ UNCHANGED <<job, due>>
           \/ Cancelled(s) /\ failing /\ UNCHANGED <<job, due, faults>>
    /\ UNCHANGED <<world, object, tokens>>

(* FailJob: the owner and the attempt are those the row was read with.  A  *)
(* retry that would be due after the deadline ends the job.                *)
Retried(j, tooLate) ==
    IF tooLate \/ job[j].attempts >= MaxTries THEN Ended(j, "failed") ELSE Ended(j, "queued")
Fail(s) ==
    /\ slots[s].step = "fail"
    /\ LET c == slots[s] IN
       \/ /\ ~c.lost
          /\ job[c.job].state = "running" /\ job[c.job].owner = c.as /\ job[c.job].attempts = c.attempt
          /\ \E tooLate \in {TRUE, c.job \in late} :
                job' = [job EXCEPT ![c.job] = IF c.final THEN Ended(c.job, "failed")
                                              ELSE Retried(c.job, tooLate)]
          /\ UNCHANGED faults
       \/ /\ \/ c.lost
             \/ ~(job[c.job].state = "running" /\ job[c.job].owner = c.as /\ job[c.job].attempts = c.attempt)
          /\ UNCHANGED <<job, faults>>
       \/ Fault("error") /\ UNCHANGED job
    /\ Become(s, Idle)
    /\ UNCHANGED <<world, object, due, tokens>>

(* A worker that dies, or is stopped: nothing more can be written.         *)
Die(s) ==
    /\ slots[s] # Idle
    /\ Fault("die")
    /\ Become(s, Idle)
    /\ UNCHANGED <<job, world, object, due, tokens>>

InHand(j) == \E s \in Slots : slots[s] # Idle /\ slots[s].job = j /\ job[j].owner = Owner(s)
RunOut(j) ==
    /\ job[j].lease = "valid"
    /\ IF InHand(j) THEN Fault("slow") ELSE UNCHANGED faults
    /\ job' = [job EXCEPT ![j].lease = "expired"]
    /\ UNCHANGED <<world, object, due, slots, tokens>>

-----------------------------------------------------------------------------
(* ExpireReady: one transaction for each job. *)
ExpireReady(j) ==
    /\ job[j].state = "succeeded"
    /\ job' = [job EXCEPT ![j].state = "expired"]
    /\ due' = due \cup {job[j].archive}
    /\ UNCHANGED <<world, object, slots, tokens, faults>>

(* hasLiveObjectReferences *)
Referred(k) == \E j \in Jobs : job[j].state = "succeeded" /\ job[j].archive = k

(* A deletion job is done, or blocked until it is enqueued again. *)
CleanUp(k) ==
    /\ k \in due
    /\ due' = due \ {k}
    /\ object' = IF Referred(k) THEN object ELSE object \ {k}
    /\ UNCHANGED <<job, world, slots, tokens, faults>>

(* The sweep takes what is a day old: no attempt is that long under way.   *)
Sweep(k) ==
    /\ k \in object \ due /\ ~Referred(k)
    /\ \A s \in Slots : slots[s] # Idle => ArchiveOf(s) # k
    /\ due' = due \cup {k}
    /\ UNCHANGED <<job, world, object, slots, tokens, faults>>

-----------------------------------------------------------------------------
Attempt(s) == Reload(s) \/ Build(s) \/ Upload(s) \/ Complete(s) \/ Fail(s)

Next ==
    \/ \E j \in Jobs : Create(j) \/ Deadline(j) \/ AssetGoes(j) \/ Show(j) \/ RunOut(j) \/ ExpireReady(j)
    \/ ExpireLate
    \/ \E s \in Slots : Claim(s) \/ Heartbeat(s) \/ Attempt(s) \/ Die(s)
    \/ \E k \in due : CleanUp(k)
    \/ \E k \in object : Sweep(k)

Spec == Init /\ [][Next]_vars

Keys == Jobs \X (1..MaxClaims) \X (1..(MaxClaims * Cardinality(Jobs)))
(* The cleanup role polls, what is begun goes on, and time passes.         *)
Fairness ==
    /\ WF_vars(ExpireLate)
    /\ \A s \in Slots : WF_vars(Attempt(s))
    /\ \A j \in Jobs : WF_vars(Deadline(j)) /\ WF_vars(ExpireReady(j))
    /\ \A k \in Keys : WF_vars(CleanUp(k)) /\ WF_vars(Sweep(k))
FairSpec == Spec /\ Fairness

-----------------------------------------------------------------------------
Archive == Jobs \X Nat \X Nat
(* Rows, attempts and archives are well formed. *)
TypeOK ==
    /\ job \in [Jobs -> [state: States, attempts: Nat, owner: Processes \cup {NoOwner},
                         lease: {"none", "valid", "expired"}, archive: Archive \cup {NoKey}]]
    /\ late \in SUBSET Jobs /\ gone \in SUBSET Jobs
    /\ object \in SUBSET Archive /\ due \in SUBSET Archive
    /\ slots \in [Slots -> {Idle} \cup
            [step: Steps, job: Jobs, claimed: Nat, as: Processes \cup {NoOwner}, attempt: Nat,
             token: Nat, inTime: BOOLEAN, final: BOOLEAN, lost: BOOLEAN]]
    /\ tokens \in Nat /\ faults \in Nat

(* An export that can be downloaded has its archive, whatever overtaken    *)
(* attempts upload, delete or leave (processor.go, attemptObjectKey).      *)
SucceededHasArchive == \A j \in Jobs : job[j].state = "succeeded" => job[j].archive \in object

(* What a job has come to stays: a late attempt does not revive it, and a  *)
(* lost answer does not fail what has succeeded.                           *)
OutcomeIsFinal ==
    [][\A j \in Jobs : job[j].state \in Over =>
        /\ job'[j].archive = job[j].archive
        /\ \/ job'[j].state = job[j].state
           \/ job[j].state = "succeeded" /\ job'[j].state = "expired"]_vars

(* Every job ends, whatever happens to its workers. *)
JobEnds == \A j \in Jobs : job[j].state \in {"queued", "running"} ~> job[j].state \in Over

(* No archive stays: neither that of an export that has expired nor that   *)
(* of an attempt that was overtaken.                                       *)
ArchivesGo == \A k \in Keys : k \in object ~> k \notin object

-----------------------------------------------------------------------------
(* What the code does not keep: TLC refutes each of these, with the        *)
(* constants the README names.                                             *)

(* An attempt that was overtaken settles nothing (CompleteJob, FailJob).   *)
Overtaken(s) == slots[s] # Idle /\ slots[s].claimed # job[slots[s].job].attempts
StaleIsBenign ==
    [][\A s \in Slots : Overtaken(s) /\ slots'[s] = Idle => job' = job]_vars
=============================================================================
