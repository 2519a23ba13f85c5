------------------------------- MODULE MediaJob -------------------------------
(***************************************************************************)
(* The jobs that probe an asset and derive its thumbnails, posters and     *)
(* previews: the slots of internal/worker/media/runner.go over the         *)
(* transactions of media_worker_store.go, the reconciler of the cleanup    *)
(* role, and what users and administrators ask for meanwhile               *)
(* (media_asset_store.go, admin_video_store.go).                           *)
(*                                                                         *)
(* Every asset has at most one job.  A step is a transaction, the upload   *)
(* of one derivative or a deletion in the storage.  The key of a           *)
(* derivative is made of its asset and kind, so every attempt writes the   *)
(* same objects.  Time is left out: a retry may be due at once, and a      *)
(* lease of a slot at work runs out only as a fault.                       *)
(***************************************************************************)
EXTENDS Integers, SequencesExt

CONSTANTS
    Assets,
    Images,       \* assets that are generated images
    Kinds,        \* kinds of derivatives
    Always,       \* kinds every policy asks for
    Processes,    \* workers with the media role
    PerProcess,   \* their slots: the slots of a process claim under one name
    MaxAttempts,  \* max_attempts of a job
    Faults,       \* what may go wrong
    MaxFaults,    \* bound: how often
    MaxRequests   \* bound: requests of users and administrators

MediaAssumption ==
    /\ Images \subseteq Assets /\ Always \subseteq Kinds /\ IsFiniteSet(Kinds)
    /\ PerProcess \in Nat /\ MaxAttempts \in Nat \ {0}
    /\ MaxFaults \in Nat /\ MaxRequests \in Nat
    /\ Faults \subseteq {"die", "stop", "slow", "upload", "error", "lost"}

VARIABLES
    asset,     \* asset -> status of its row, and whether it is deleted
    order,     \* the assets by updated_at, the oldest first
    job,       \* asset -> its job
    row,       \* asset -> kind -> the row of the derivative
    object,    \* asset -> kinds whose object is in the storage
    plan,      \* kinds the policy asks for
    slots,     \* slot -> what it is about to do
    looked,    \* assets whose job an administrator is about to retry
    requests,  \* requests so far
    faults     \* faults so far

vars == <<asset, order, job, row, object, plan, slots, looked, requests, faults>>
rest == <<plan, looked, requests>>

Slots == Processes \X (1..PerProcess)
Owner(s) == s[1]
NoOwner == "nobody"

AssetStates == {"processing", "ready_original", "ready", "processing_failed", "deleted"}
Active == {"pending", "retry", "running"}
Ended == {"succeeded", "failed"}
NoJob == [status |-> "none", attempts |-> 0, owner |-> NoOwner, lease |-> "none"]
Pending == [NoJob EXCEPT !.status = "pending"]
Released(j) == [j EXCEPT !.owner = NoOwner, !.lease = "none"]

Idle == [step |-> "idle"]
Steps == {"upload", "complete", "discard", "fail", "release"}

(* An image of before there were derivatives has neither job nor rows.     *)
Init ==
    /\ asset \in [Assets -> [status: {"processing", "ready_original", "ready"}, deleted: {FALSE}]]
    /\ \A a \in Assets : asset[a].status = "ready" => a \in Images
    /\ order \in SetToSeqs(Assets)
    /\ job = [a \in Assets |-> IF asset[a].status = "ready" THEN NoJob ELSE Pending]
    /\ row = [a \in Assets |-> [k \in Kinds |-> "none"]]
    /\ object = [a \in Assets |-> {}]
    /\ plan = Always
    /\ slots = [s \in Slots |-> Idle]
    /\ looked = {} /\ requests = 0 /\ faults = 0

Fault(f) == f \in Faults /\ faults < MaxFaults /\ faults' = faults + 1
Request == requests < MaxRequests /\ requests' = requests + 1
Become(s, next) == slots' = [slots EXCEPT ![s] = next]
Goto(s, step) == slots' = [slots EXCEPT ![s].step = step]
Live(a) == {k \in Kinds : row[a][k] = "live"}

(* An update of the row of an asset, and the row a query finds first.      *)
Write(a, status) ==
    /\ asset' = [asset EXCEPT ![a].status = status, ![a].deleted = @ \/ status = "deleted"]
    /\ order' = Append(Remove(order, a), a)
Oldest(found) == SelectSeq(order, LAMBDA a : a \in found)[1]

-----------------------------------------------------------------------------
(* Faulty: only a job that waits is claimed. *)
ClaimableWaiting(a) == job[a].status \in {"pending", "retry"}
(* ClaimDue: a running job needs a lease that has run out; one that is     *)
(* null never does.                                                        *)
Claimable(a) ==
    \/ job[a].status \in {"pending", "retry"}
    \/ job[a].status = "running" /\ job[a].lease = "expired"

(* ClaimDue, and the policy Process reads first.                           *)
Claim(s) ==
    /\ slots[s] = Idle
    /\ \E a \in Assets :
        /\ Claimable(a)
        /\ job' = [job EXCEPT ![a] = [status |-> "running", attempts |-> @.attempts + 1,
                                      owner |-> Owner(s), lease |-> "valid"]]
        /\ Become(s, [step |-> "upload", asset |-> a, attempt |-> job[a].attempts + 1,
                      todo |-> plan, done |-> {}])
    /\ UNCHANGED <<asset, order, row, object, rest, faults>>

(* uploadDerivative *)
Upload(s) ==
    /\ slots[s].step = "upload"
    /\ LET c == slots[s] IN
       /\ \E k \in c.todo \ c.done :
            /\ object' = [object EXCEPT ![c.asset] = @ \cup {k}]
            /\ slots' = [slots EXCEPT ![s].done = @ \cup {k}]
    /\ UNCHANGED <<asset, order, job, row, rest, faults>>

(* Process returns its result. *)
Processed(s) ==
    /\ slots[s].step = "upload"
    /\ slots[s].todo = slots[s].done
    /\ Goto(s, "complete")
    /\ UNCHANGED <<asset, order, job, row, object, rest, faults>>

(* Process refuses what it has read: nothing is uploaded. *)
Refuse(s) ==
    /\ slots[s].step = "upload" /\ slots[s].done = {}
    /\ Goto(s, "fail")
    /\ UNCHANGED <<asset, order, job, row, object, rest, faults>>

(* An upload fails, or is cancelled as the worker stops: its object and    *)
(* those uploaded before are deleted.  A stop before the first upload      *)
(* deletes nothing.                                                        *)
BreakOff(s) ==
    /\ slots[s].step = "upload"
    /\ LET c == slots[s] IN
       \/ \E k \in c.todo \ c.done, f \in {"upload", "stop"} :
            /\ Fault(f)
            /\ object' = [object EXCEPT ![c.asset] = @ \ (c.done \cup {k})]
            /\ Goto(s, IF f = "stop" THEN "release" ELSE "fail")
       \/ /\ c.done = {}
          /\ Fault("stop")
          /\ Goto(s, "release")
          /\ UNCHANGED object
    /\ UNCHANGED <<asset, order, job, row, rest>>

-----------------------------------------------------------------------------
Holds(s) ==
    LET j == job[slots[s].asset] IN j.status = "running" /\ j.owner = Owner(s)

WithRows(a, kinds) ==
    [row EXCEPT ![a] = [k \in Kinds |-> IF k \in kinds /\ @[k] = "none" THEN "live" ELSE @[k]]]

(* Complete: the transaction, also on an asset deleted meanwhile.          *)
Settled(s) ==
    LET a == slots[s].asset IN
    IF Holds(s)
    THEN /\ Write(a, "ready")
         /\ row' = WithRows(a, slots[s].done)
         /\ job' = [job EXCEPT ![a] = Released([@ EXCEPT !.status = "succeeded"])]
    ELSE UNCHANGED <<asset, order, row, job>>

(* It fails, or only its answer is lost: the result is cleaned up.         *)
Complete(s) ==
    /\ slots[s].step = "complete"
    /\ \/ Settled(s) /\ Goto(s, "release") /\ UNCHANGED faults
       \/ Settled(s) /\ Fault("lost") /\ Goto(s, "discard")
       \/ Fault("error") /\ Goto(s, "discard") /\ UNCHANGED <<asset, order, row, job>>
    /\ UNCHANGED <<object, rest>>

(* Cleanup *)
Discard(s) ==
    /\ slots[s].step = "discard"
    /\ object' = [object EXCEPT ![slots[s].asset] = @ \ slots[s].done]
    /\ Goto(s, "release")
    /\ UNCHANGED <<asset, order, job, row, rest, faults>>

Terminal(s) == slots[s].attempt >= MaxAttempts

(* Fail: the attempt is counted from the claim. *)
Fail(s) ==
    /\ slots[s].step = "fail"
    /\ LET a == slots[s].asset IN
       \/ /\ IF Holds(s)
             THEN /\ job' = [job EXCEPT ![a] = Released([@ EXCEPT
                        !.status = IF Terminal(s) THEN "failed" ELSE "retry"])]
                  /\ IF Terminal(s) THEN Write(a, "processing_failed") ELSE UNCHANGED <<asset, order>>
             ELSE UNCHANGED <<asset, order, job>>
          /\ UNCHANGED faults
       \/ Fault("error") /\ UNCHANGED <<asset, order, job>>
    /\ Goto(s, "release")
    /\ UNCHANGED <<row, object, rest>>

(* ReleaseLease: whatever the status is; its errors are ignored.           *)
Release(s) ==
    /\ slots[s].step = "release"
    /\ LET a == slots[s].asset IN
       \/ /\ job' = IF job[a].owner = Owner(s) THEN [job EXCEPT ![a] = Released(@)] ELSE job
          /\ UNCHANGED faults
       \/ Fault("error") /\ UNCHANGED job
    /\ Become(s, Idle)
    /\ UNCHANGED <<asset, order, row, object, rest>>

Die(s) ==
    /\ slots[s] # Idle
    /\ Fault("die")
    /\ Become(s, Idle)
    /\ UNCHANGED <<asset, order, job, row, object, rest>>

(* Two minutes are over; nobody renews a lease. *)
InHand(a) == \E s \in Slots : slots[s] # Idle /\ slots[s].asset = a /\ job[a].owner = Owner(s)
RunOut(a) ==
    /\ job[a].lease = "valid"
    /\ IF InHand(a) THEN Fault("slow") ELSE UNCHANGED faults
    /\ job' = [job EXCEPT ![a].lease = "expired"]
    /\ UNCHANGED <<asset, order, row, object, slots, rest>>

-----------------------------------------------------------------------------
Waiting == {a \in Assets : ~asset[a].deleted /\ asset[a].status \in {"processing", "ready_original"}}
(* generatedImageMissingDerivativesQuery *)
Missing(a) ==
    /\ a \in Images /\ ~asset[a].deleted /\ asset[a].status = "ready"
    /\ job[a].status \notin Active /\ ~(plan \subseteq Live(a))

(* ReconcileMediaOnce: the images come when no asset is waiting; the asset *)
(* found first may have a job at work, and then nothing is done.           *)
Reconcile ==
    LET found == IF Waiting # {} THEN Waiting ELSE {a \in Assets : Missing(a)}
        a     == Oldest(found)
    IN  /\ found # {}
        /\ job[a].status \notin Active
        /\ IF plan \subseteq Live(a) /\ job[a].status = "succeeded"
           THEN Write(a, "ready") /\ UNCHANGED job
           ELSE job' = [job EXCEPT ![a] = Pending] /\ UNCHANGED <<asset, order>>
        /\ UNCHANGED <<row, object, slots, rest, faults>>

(* RetryAssetProcessing *)
RetryProcessing(a) ==
    /\ ~asset[a].deleted
    /\ Request
    /\ job' = [job EXCEPT ![a] = Pending]
    /\ Write(a, "processing")
    /\ UNCHANGED <<row, object, plan, slots, looked, faults>>

(* Retry of a derivative by an administrator: what is checked and what is  *)
(* written are two statements.                                             *)
AdminLooks(a) ==
    /\ job[a].status \in {"failed", "retry"} /\ a \notin looked
    /\ Request
    /\ looked' = looked \cup {a}
    /\ UNCHANGED <<asset, order, job, row, object, plan, slots, faults>>

AdminRetries(a) ==
    /\ a \in looked
    /\ looked' = looked \ {a}
    /\ job' = [job EXCEPT ![a] = Released([@ EXCEPT !.status = "pending"])]
    /\ UNCHANGED <<asset, order, row, object, plan, slots, requests, faults>>

(* DeleteAsset; the deletion of the objects is with ObjectCleanup.         *)
Delete(a) ==
    /\ ~asset[a].deleted
    /\ Request
    /\ Write(a, "deleted")
    /\ row' = [row EXCEPT ![a] = [k \in Kinds |-> IF @[k] = "live" THEN "deleted" ELSE @[k]]]
    /\ UNCHANGED <<job, object, plan, slots, looked, faults>>

(* The administrator saves another policy. *)
ChangePolicy ==
    /\ Request
    /\ plan' \in {p \in SUBSET Kinds : Always \subseteq p} \ {plan}
    /\ UNCHANGED <<asset, order, job, row, object, slots, looked, faults>>

-----------------------------------------------------------------------------
Run(s) ==
    \/ Claim(s) \/ Upload(s) \/ Processed(s) \/ Refuse(s) \/ BreakOff(s)
    \/ Complete(s) \/ Discard(s) \/ Fail(s) \/ Release(s)

Next ==
    \/ \E s \in Slots : Run(s) \/ Die(s)
    \/ \E a \in Assets : RunOut(a)
    \/ Reconcile
    \/ \E a \in Assets : RetryProcessing(a) \/ AdminLooks(a) \/ AdminRetries(a) \/ Delete(a)
    \/ ChangePolicy

Spec == Init /\ [][Next]_vars

(* The slots and the reconciler go on, and leases run out. *)
Fairness ==
    /\ \A s \in Slots : WF_vars(Run(s))
    /\ \A a \in Assets : WF_vars(RunOut(a))
    /\ WF_vars(Reconcile)
FairSpec == Spec /\ Fairness

-----------------------------------------------------------------------------
(* Jobs, rows and slots are well formed. *)
TypeOK ==
    /\ asset \in [Assets -> [status: AssetStates, deleted: BOOLEAN]]
    /\ order \in Seq(Assets) /\ ToSet(order) = Assets
    /\ job \in [Assets -> [status: {"none"} \cup Active \cup Ended, attempts: Nat,
                           owner: Processes \cup {NoOwner}, lease: {"none", "valid", "expired"}]]
    /\ row \in [Assets -> [Kinds -> {"none", "live", "deleted"}]]
    /\ object \in [Assets -> SUBSET Kinds]
    /\ plan \in SUBSET Kinds /\ Always \subseteq plan
    /\ slots \in [Slots -> {Idle} \cup [step: Steps, asset: Assets, attempt: Nat,
                                       todo: SUBSET Kinds, done: SUBSET Kinds]]
    /\ looked \in SUBSET Assets
    /\ requests \in Nat /\ faults \in Nat

(* An asset is ready, and a job has succeeded, only when it has all the    *)
(* derivatives every policy wants, however attempts, retries and policies   *)
(* overlap (Complete, ReconcileMediaOnce); the images of before are ready   *)
(* as they are.                                                            *)
ReadyIsComplete ==
    \A a \in Assets :
        (asset[a].status = "ready" /\ a \notin Images) \/ job[a].status = "succeeded" =>
        \A k \in Always : row[a][k] # "none"

(* A job fails only when the attempts its user or the reconciler has given *)
(* it are used up, whoever else still works on it (runner.go, Fail).       *)
FailedIsSpent == \A a \in Assets : job[a].status = "failed" => job[a].attempts >= MaxAttempts

(* No slot has given back the lease of a job that goes on. *)
RunningIsLeased == \A a \in Assets : job[a].status = "running" => job[a].lease # "none"
(* Every job ends, with workers that die or are overtaken.                 *)
JobEnds == \A a \in Assets : job[a].status \in Active ~> job[a].status \notin Active

(* An image without its derivatives gets them, or is given up (reconciler).*)
Served(a) == plan \subseteq Live(a) \/ asset[a].status = "processing_failed" \/ asset[a].deleted
MissingComeIn == \A a \in Images : asset[a].status = "ready" ~> Served(a)

-----------------------------------------------------------------------------
(* What the code does not keep: TLC refutes each of these, with the        *)
(* constants the README names.                                             *)

(* A derivative that is offered has its object (runner.go, Cleanup).       *)
RowHasObject == \A a \in Assets : Live(a) \subseteq object[a]

(* A deleted asset keeps no derivative (Complete after DeleteAsset).       *)
DeletedHasNoRows == \A a \in Assets : asset[a].deleted => Live(a) = {}

(* An administrator retries only what has failed (AdminVideoStore.Retry).  *)
OnlyFailedRetried ==
    [][\A a \in Assets : a \in looked \ looked' => job[a].status \in {"failed", "retry"}]_vars
=============================================================================
