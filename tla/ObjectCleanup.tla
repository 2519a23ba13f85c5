----------------------------- MODULE ObjectCleanup -----------------------------
(***************************************************************************)
(* One stored object, the rows and references that need it, and the jobs   *)
(* that delete it: internal/service/objectcleanup/service.go over the      *)
(* transactions of object_cleanup_store.go, with the callers that enqueue  *)
(* (imagetask_store.go, media_asset_store.go, assets_store.go) and those   *)
(* that take references (canvas_store.go, video_task_store.go).            *)
(*                                                                         *)
(* The object was made for an image result and may have a media asset as   *)
(* an alias.  A step is a transaction or a statement of its own; the       *)
(* deletion of the object lies between the check of its rows and the       *)
(* commit.  Delays are left out: a job may be claimed as soon as it could  *)
(* be, and the sweep finds the object older than its period of grace.      *)
(***************************************************************************)
EXTENDS Integers

CONSTANTS
    Refs,       \* references: nodes of canvases and inputs of video tasks
    Workers,    \* cleanup loops, of processes of the API and of workers
    Lists,      \* the storage backend can list its objects
    MaxJobs,    \* bound: rows of the table of deletion jobs
    MaxTakes,   \* bound: references taken
    MaxFaults   \* bound: deaths, failed deletions, workers overtaken, early sweeps

ASSUME CleanupAssumption ==
    /\ Lists \in BOOLEAN
    /\ MaxJobs \in Nat /\ MaxTakes \in Nat /\ MaxFaults \in Nat

VARIABLES
    object,   \* the object is in the storage
    result,   \* the row of the image result
    media,    \* the row of the media asset, if there is one
    refs,     \* live references to the media asset
    taking,   \* requests that have looked the asset up to refer to it
    held,     \* references that were there when the asset was deleted, and ever since
    jobs,     \* row -> state of a deletion job and how often it was claimed
    workers,  \* loop -> what it is about to do
    taken,    \* references taken so far
    faults    \* faults so far

vars == <<object, result, media, refs, taking, held, jobs, workers, taken, faults>>

JobIds == 1..MaxJobs
States == {"none", "pending", "running", "retry", "blocked", "done"}
Indexed == {"pending", "running", "retry"}
LiveStates == Indexed \cup {"blocked"}
NoJob == [state |-> "none", attempt |-> 0]

Idle == [step |-> "idle"]
ClaimSteps == {"check", "delete", "done", "blocked", "retry"}
Claims == [step: ClaimSteps, job: JobIds, attempt: Nat]
Sweeps == [step: {"look", "create"}] \cup [step: {"write"}, job: JobIds]

Init ==
    /\ object = TRUE
    /\ result \in {"live", "deleted"} /\ media = "none"   \* deleted: before there were jobs
    /\ refs = {} /\ taking = {} /\ held = {}
    /\ jobs = [j \in JobIds |-> NoJob]
    /\ workers = [w \in Workers |-> Idle]
    /\ taken = 0 /\ faults = 0

-----------------------------------------------------------------------------
RowLive == result = "live" \/ media = "live"
Referred == media # "none" /\ refs # {}

(* Faulty: the references are left to the row of the asset. *)
NeededByRows == RowLive
(* hasLiveObjectReferences *)
Needed == RowLive \/ Referred

(* liveObjectDeletionJobQuery *)
Live == {j \in JobIds : jobs[j].state \in LiveStates}
Locked == {workers[w].job : w \in {v \in Workers : workers[v].step = "delete"}}
Indexable(j) == \A i \in JobIds \ {j} : jobs[i].state \notin Indexed

Reactivated(j) == [jobs EXCEPT ![j].state = "pending"]
Created(j) == [jobs EXCEPT ![j] = [state |-> "pending", attempt |-> 0]]
IsFree(j) == jobs[j].state = "none" /\ \A i \in 1..(j - 1) : jobs[i].state # "none"

(* enqueueObjectDeletionJob: a live job is pending again, which waits for  *)
(* a worker that has locked it; else there is a new one.                   *)
Enqueue ==
    IF Live # {}
    THEN \E j \in Live \ Locked : Indexable(j) /\ jobs' = Reactivated(j)
    ELSE \E j \in JobIds : IsFree(j) /\ jobs' = Created(j)

-----------------------------------------------------------------------------
(* DeleteImageResult *)
DeleteImage ==
    /\ result = "live"
    /\ result' = "deleted"
    /\ Enqueue
    /\ UNCHANGED <<object, media, refs, taking, held, workers, taken, faults>>

(* ImportGalleryAlias: the row of the result is locked until the asset is  *)
(* there.                                                                  *)
Import ==
    /\ result = "live" /\ media = "none"
    /\ media' = "live"
    /\ UNCHANGED <<object, result, refs, taking, held, jobs, workers, taken, faults>>

(* DeleteAsset: an asset that is not there yet is made of its result.      *)
DeleteAsset ==
    /\ media = "live" \/ (media = "none" /\ result = "live")
    /\ media' = "deleted" /\ result' = "deleted"
    /\ held' = refs
    /\ Enqueue
    /\ UNCHANGED <<object, refs, taking, workers, taken, faults>>

(* A canvas or a video task finds the asset.  A video task and a node of a *)
(* picture or a video want it live, or still in use; for an audio node it  *)
(* is enough that its row exists.                                          *)
LookUp(r) ==
    /\ r \notin refs \cup taking
    /\ taken < MaxTakes
    /\ media # "none"
    /\ taking' = taking \cup {r} /\ taken' = taken + 1
    /\ UNCHANGED <<object, result, media, refs, held, jobs, workers, faults>>

(* rebuildReferences, CreateWithReservation: the reference is written; the *)
(* row of the asset must exist.                                            *)
Take(r) ==
    /\ r \in taking
    /\ taking' = taking \ {r} /\ refs' = refs \cup {r}
    /\ UNCHANGED <<object, result, media, held, jobs, workers, taken, faults>>

(* The canvas is saved without its node. *)
Release(r) ==
    /\ r \in refs
    /\ refs' = refs \ {r} /\ held' = held \ {r}
    /\ UNCHANGED <<object, result, media, taking, jobs, workers, taken, faults>>

-----------------------------------------------------------------------------
Become(w, next) == workers' = [workers EXCEPT ![w] = next]

(* A job is with a worker that has not ended. *)
InHand(j) ==
    \E w \in Workers : /\ workers[w].step \in ClaimSteps
                       /\ workers[w].job = j /\ workers[w].attempt = jobs[j].attempt

(* Claim: a job that has been running for a minute is taken over, also     *)
(* from a worker that is only slow; a locked one is skipped.               *)
Claim(w) ==
    /\ workers[w] = Idle
    /\ \E j \in JobIds \ Locked :
        /\ \/ jobs[j].state \in {"pending", "retry"} /\ UNCHANGED faults
           \/ jobs[j].state = "running" /\ ~InHand(j) /\ UNCHANGED faults
           \/ jobs[j].state = "running" /\ InHand(j) /\ faults < MaxFaults
              /\ faults' = faults + 1
        /\ jobs' = [jobs EXCEPT ![j] = [state |-> "running", attempt |-> @.attempt + 1]]
        /\ Become(w, [step |-> "check", job |-> j, attempt |-> jobs[j].attempt + 1])
    /\ UNCHANGED <<object, result, media, refs, taking, held, taken>>

Owns(c) == jobs[c.job].state = "running" /\ jobs[c.job].attempt = c.attempt

(* DeleteIfUnreferenced up to the deletion: the claim is stale, the object *)
(* is needed, or the job stays locked while the storage deletes.           *)
Check(w) ==
    /\ workers[w].step = "check"
    /\ LET c == workers[w] IN
       Become(w, IF ~Owns(c) \/ c.job \in Locked THEN Idle
                 ELSE [c EXCEPT !.step = IF Needed THEN "blocked" ELSE "delete"])
    /\ UNCHANGED <<object, result, media, refs, taking, held, jobs, taken, faults>>

(* The storage has deleted the object, or had none; or it fails.           *)
Remove(w) ==
    /\ workers[w].step = "delete"
    /\ \/ /\ object' = FALSE
          /\ Become(w, [workers[w] EXCEPT !.step = "done"])
          /\ UNCHANGED faults
       \/ /\ faults < MaxFaults /\ faults' = faults + 1
          /\ Become(w, [workers[w] EXCEPT !.step = "retry"])
          /\ UNCHANGED object
    /\ UNCHANGED <<result, media, refs, taking, held, jobs, taken>>

(* MarkDone, MarkBlocked, MarkRetry *)
Mark(w) ==
    /\ workers[w].step \in {"done", "blocked", "retry"}
    /\ LET c == workers[w] IN
       /\ c.job \notin Locked
       /\ jobs' = IF Owns(c) THEN [jobs EXCEPT ![c.job].state = c.step] ELSE jobs
    /\ Become(w, Idle)
    /\ UNCHANGED <<object, result, media, refs, taking, held, taken, faults>>

(* The process ends; the object may have gone with the commit missing.     *)
Die(w) ==
    /\ workers[w] # Idle
    /\ faults < MaxFaults /\ faults' = faults + 1
    /\ object' \in IF workers[w].step = "delete" THEN {object, FALSE} ELSE {object}
    /\ Become(w, Idle)
    /\ UNCHANGED <<result, media, refs, taking, held, jobs, taken>>

-----------------------------------------------------------------------------
(* reconcileDeletedResults: a deleted result no job was ever made for.     *)
ReconcileRows(w) ==
    /\ workers[w] = Idle
    /\ result = "deleted"
    /\ \A j \in JobIds : jobs[j].state = "none"
    /\ Enqueue
    /\ UNCHANGED <<object, result, media, refs, taking, held, workers, taken, faults>>

(* Faulty: an object that has a job is left to its job. *)
SweepsNew == \A j \in JobIds : jobs[j].state = "none"
SweepsAll == TRUE

(* reconcileOwnedPrefix: an object nobody needs is enqueued.  The sweep    *)
(* comes every six hours, when the jobs of the last are done with, or      *)
(* early, from another process.                                            *)
SweepFinds(w) ==
    /\ workers[w] = Idle
    /\ Lists /\ object /\ ~Needed
    /\ SweepsAll
    /\ IF \A j \in JobIds : jobs[j].state \notin Indexed
       THEN UNCHANGED faults ELSE faults < MaxFaults /\ faults' = faults + 1
    /\ Become(w, [step |-> "look"])
    /\ UNCHANGED <<object, result, media, refs, taking, held, jobs, taken>>

(* Enqueue of the sweep: what it finds and what it writes are apart.       *)
SweepLooks(w) ==
    /\ workers[w].step = "look"
    /\ \/ \E j \in Live : Become(w, [step |-> "write", job |-> j])
       \/ Live = {} /\ Become(w, [step |-> "create"])
    /\ UNCHANGED <<object, result, media, refs, taking, held, jobs, taken, faults>>

(* A job that is done by now is pending again; a row the index refuses is  *)
(* looked for once more.                                                   *)
SweepWrites(w) ==
    /\ \/ /\ workers[w].step = "write"
          /\ LET j == workers[w].job IN
             /\ j \notin Locked
             /\ jobs' = IF Indexable(j) THEN Reactivated(j) ELSE jobs
          /\ Become(w, Idle)
       \/ /\ workers[w].step = "create"
          /\ \E j \in JobIds : IsFree(j) /\ Indexable(j) /\ jobs' = Created(j)
          /\ Become(w, Idle)
       \/ /\ workers[w].step = "create"
          /\ \E j \in JobIds : jobs[j].state \in Indexed
          /\ Become(w, [step |-> "look"]) /\ UNCHANGED jobs
    /\ UNCHANGED <<object, result, media, refs, taking, held, taken, faults>>

-----------------------------------------------------------------------------
Work(w) == Claim(w) \/ Check(w) \/ Remove(w) \/ Mark(w)
Sweep(w) == ReconcileRows(w) \/ SweepFinds(w) \/ SweepLooks(w) \/ SweepWrites(w)

Next ==
    \/ DeleteImage \/ Import \/ DeleteAsset
    \/ \E r \in Refs : LookUp(r) \/ Take(r) \/ Release(r)
    \/ \E w \in Workers : Work(w) \/ Sweep(w) \/ Die(w)

Spec == Init /\ [][Next]_vars

(* Every loop goes on and comes to its sweep. *)
Fairness == \A w \in Workers : WF_vars(Work(w)) /\ WF_vars(Sweep(w))
FairSpec == Spec /\ Fairness

-----------------------------------------------------------------------------
(* Every row, claim and sweep is well formed. *)
TypeOK ==
    /\ object \in BOOLEAN
    /\ result \in {"live", "deleted"} /\ media \in {"none", "live", "deleted"}
    /\ refs \subseteq Refs /\ taking \subseteq Refs /\ held \subseteq refs
    /\ jobs \in [JobIds -> [state: States, attempt: Nat]]
    /\ workers \in [Workers -> {Idle} \cup Claims \cup Sweeps]
    /\ taken \in Nat /\ faults \in Nat

(* A result or asset the user has not deleted has its object, whatever was *)
(* deleted of its aliases (hasLiveObjectReferences).                       *)
RowHasObject == RowLive => object

(* An object stays for the canvases and tasks that used it when its asset  *)
(* was deleted, as long as they do: prd 2026-08-12, acceptance 9.          *)
HeldIsKept == held # {} => object

(* An object nobody needs any more is removed, with workers that die, are  *)
(* overtaken or meet a new request, unless it is needed again.             *)
UnusedIsRemoved == ~Needed ~> ~object \/ Needed

-----------------------------------------------------------------------------
(* What the code does not keep: TLC refutes each of these, with the        *)
(* constants the README names.                                             *)

(* Every live reference has its object, whenever it was taken. *)
ReferencedIsKept == Referred => object
=============================================================================
