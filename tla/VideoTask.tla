------------------------------ MODULE VideoTask ------------------------------
(***************************************************************************)
(* A video task and its items, from the request that creates it to its     *)
(* settlement: internal/worker/video/runner.go, the transactions of        *)
(* internal/repository/entstore/video_worker_store.go, video_task_store.go *)
(* and admin_video_store.go, the transitions of internal/domain/video and  *)
(* the callbacks of internal/service/videocallback.  A step is one         *)
(* transaction or one call of the provider; a slot keeps the item as it    *)
(* was when it was claimed.                                                *)
(*                                                                         *)
(* An item has a fixed price (pricing snapshots of version 2), and points  *)
(* go through the wallet's contract, TaskBilling.  A lease is fresh or has *)
(* lapsed and an item may always be due: delays are left out.  The         *)
(* provider is external: it keeps one job for an idempotency key.          *)
(***************************************************************************)
EXTENDS Integers, FiniteSets

CONSTANTS
    Items,               \* the items of the task
    Slots,               \* the video slots of the workers
    OwnerOf,             \* slot -> its lease owner, one for a process
    Price,               \* points of a delivered item
    MaxArtifactAttempts, \* attempts to store an artifact, 3 in the code
    MaxFaults,           \* bound: deaths of slots, and lapses of a lease in use
    MaxCallbacks,        \* bound: callbacks of the provider
    MaxRetries,          \* bound: recoveries an administrator starts
    MaxTogether          \* bound: all of these in one behaviour

Nobody == "nobody"
Task == "task"
ASSUME VideoAssumption ==
    /\ IsFiniteSet(Items)
    /\ Price \in Nat /\ MaxArtifactAttempts \in Nat \ {0}
    /\ MaxFaults \in Nat /\ MaxCallbacks \in Nat /\ MaxRetries \in Nat
    /\ MaxTogether \in Nat
    /\ \A s \in Slots : OwnerOf[s] # Nobody

Owners == {OwnerOf[s] : s \in Slots}
Terminal == {"succeeded", "failed", "cancelled"}
Statuses == {"queued", "submitting", "reconciling", "provider_queued", "provider_running",
             "cancel_requested", "artifact_pending", "recovery_required"} \cup Terminal
JobStates == {"queued", "running", "succeeded", "empty", "failed", "cancelled"}
NoEvent == "none"

VARIABLES
    created, finalized,  \* the task exists; its settlement_status
    items,               \* item -> its row
    attempts,            \* item -> rows of video_task_attempts
    slots,               \* slot -> what it is doing
    objects,             \* <<item, slot>>: the object a transfer has stored
    jobs,                \* item -> the provider's job; refused: it never takes it
    posts,               \* item -> submissions that reached the provider, up to 2
    events,              \* item -> a callback received and not yet projected
    bounds,              \* how often the bounded actions happened
    held, charged, returned   \* the wallet, as TaskBilling has it

billing == <<held, charged, returned>>
task == <<created, finalized, billing>>
provider == <<jobs, posts>>
vars == <<task, items, attempts, slots, objects, provider, events, bounds>>

Reserved == Price * Cardinality(Items)
Wallet == INSTANCE TaskBilling WITH Tasks <- {Task}, MaxPoints <- Reserved

(* job: the latest attempt has its provider_job_id; artifact: the item has *)
(* an artifact_snapshot; asset: the slot whose transfer was committed.     *)
Rows == [status: Statuses, version: Nat, owner: Owners \cup {Nobody}, fresh: BOOLEAN,
         job: BOOLEAN, artifact: BOOLEAN, tries: Nat, asset: Slots \cup {Nobody}]
NewRow == [status |-> "queued", version |-> 1, owner |-> Nobody, fresh |-> FALSE,
           job |-> FALSE, artifact |-> FALSE, tries |-> 0, asset |-> Nobody]

(* What a slot is about to do with its item: seen is the row as claimed,   *)
(* to, job, artifact and failed are the step it wants to apply, charge the *)
(* settlement it has computed.                                             *)
SlotSteps == {"work", "submit", "apply", "store", "settle"}
Idle == [step |-> "idle"]
Releasing(i) == [step |-> "release", item |-> i]
Seen(row) == [status |-> row.status, version |-> row.version, job |-> row.job,
              tries |-> row.tries]
Steps == [step: SlotSteps, item: Items, settles: BOOLEAN, to: Statuses,
          seen: [status: Statuses, version: Nat, job: BOOLEAN, tries: Nat],
          job: BOOLEAN, artifact: BOOLEAN, failed: BOOLEAN, charge: Nat]

Calm == bounds.faults + bounds.callbacks + bounds.retries < MaxTogether

Init ==
    /\ created = FALSE /\ finalized = FALSE
    /\ items = [i \in Items |-> NewRow]
    /\ attempts = [i \in Items |-> 0]
    /\ slots = [s \in Slots |-> Idle]
    /\ objects = {}
    /\ jobs = [i \in Items |-> "none"]
    /\ posts = [i \in Items |-> 0]
    /\ events = [i \in Items |-> NoEvent]
    /\ bounds = [faults |-> 0, callbacks |-> 0, retries |-> 0]
    /\ Wallet!Init

-----------------------------------------------------------------------------
(* AdvanceItemState *)

Allowed(from) ==
    CASE from = "queued" -> {"submitting", "cancel_requested", "failed"}
      [] from = "submitting" -> {"provider_queued", "reconciling", "failed"}
      [] from = "reconciling" -> {"provider_queued", "failed"}
      [] from = "provider_queued" ->
            {"provider_running", "cancel_requested", "artifact_pending", "failed"}
      [] from = "provider_running" -> {"cancel_requested", "artifact_pending", "failed"}
      [] from = "cancel_requested" -> {"cancelled", "artifact_pending", "failed"}
      [] from = "artifact_pending" -> {"succeeded", "recovery_required"}
      [] from = "recovery_required" -> {"artifact_pending", "failed"}
      [] OTHER -> {}

CanAdvance(from, to) == to = from \/ to \in Allowed(from)

(* A transition to the state an item is in keeps its version.              *)
Advanced(row, to) ==
    [row EXCEPT !.status = to, !.version = IF to = row.status THEN @ ELSE @ + 1]
Released(row) == [row EXCEPT !.owner = Nobody, !.fresh = FALSE]

-----------------------------------------------------------------------------
(* CreateWithReservation: task, reservation and items in one transaction.  *)
(* A second request with the key of the task finds it, before or after its *)
(* own insert has failed on the unique index.                              *)
Create ==
    /\ ~created
    /\ created' = TRUE
    /\ Wallet!Hold(Task, Reserved)
    /\ UNCHANGED <<finalized, items, attempts, slots, objects, provider, events, bounds>>

(* finalizeVideoTaskTx *)
(* Faulty: neither the settlement status nor the reservation is looked at. *)
FinalizeAgain(charge) ==
    /\ finalized' = TRUE
    /\ held' = [held EXCEPT ![Task] = Wallet!Nothing]
    /\ charged' = [charged EXCEPT ![Task] = @ + charge]
    /\ returned' = [returned EXCEPT ![Task] = @ + (Reserved - charge)]
Finalize(charge) ==
    IF finalized THEN UNCHANGED <<finalized, billing>>
    ELSE finalized' = TRUE /\ Wallet!Settle(Task, charge)

Charge(rows) == Price * Cardinality({i \in Items : rows[i].status = "succeeded"})
AllTerminal(rows) == \A i \in Items : rows[i].status \in Terminal

(* RequestCancel, one transaction: an item with neither an attempt nor a   *)
(* live lease is cancelled on the spot, one past the provider is left.     *)
(* Faulty: a lease lasts until it is released. *)
LiveOwned(row) == row.owner # Nobody
Live(row) == row.owner # Nobody /\ row.fresh
CancelledRow(i) ==
    LET row == items[i] IN
    IF row.status \in Terminal \/ ~CanAdvance(row.status, "cancel_requested") THEN row
    ELSE IF row.status \in {"queued", "cancel_requested"} /\ ~Live(row) /\ attempts[i] = 0
    THEN Released(Advanced(Advanced(row, "cancel_requested"), "cancelled"))
    ELSE Advanced(row, "cancel_requested")

RequestCancel ==
    LET rows == [i \in Items |-> CancelledRow(i)] IN
    /\ created
    /\ items' = rows
    /\ IF AllTerminal(rows) THEN Finalize(Charge(rows)) ELSE UNCHANGED <<finalized, billing>>
    /\ UNCHANGED <<created, attempts, slots, objects, provider, events, bounds>>

-----------------------------------------------------------------------------
(* The provider (external), and the callbacks it sends *)

(* A submission creates the job of its key, finds it, or is refused.       *)
Post(i, answer) ==
    /\ jobs[i] = "none" => answer \in {"queued", "refused"}
    /\ jobs[i] # "none" => answer = jobs[i]
    /\ jobs' = [jobs EXCEPT ![i] = answer]
    /\ posts' = [posts EXCEPT ![i] = IF @ < 2 THEN @ + 1 ELSE @]

JobRuns(i) ==
    /\ \/ jobs[i] = "queued" /\ jobs' = [jobs EXCEPT ![i] = "running"]
       \/ /\ jobs[i] \in {"queued", "running"}
          /\ \E end \in {"succeeded", "empty", "failed", "cancelled"} :
                jobs' = [jobs EXCEPT ![i] = end]
    /\ UNCHANGED <<task, items, attempts, slots, objects, posts, events, bounds>>

(* A callback tells of any state the job has been in: it may be late,      *)
(* repeated or overtaken.  RecordEvent.                                    *)
Told(job) ==
    CASE job \in {"none", "refused"} -> {}
      [] job = "queued" -> {"queued"}
      [] job = "running" -> {"queued", "running"}
      [] OTHER -> {"queued", "running", job}
Callback(i) ==
    /\ Calm /\ bounds.callbacks < MaxCallbacks /\ events[i] = NoEvent
    /\ \E state \in Told(jobs[i]) : events' = [events EXCEPT ![i] = state]
    /\ bounds' = [bounds EXCEPT !.callbacks = @ + 1]
    /\ UNCHANGED <<task, items, attempts, slots, objects, provider>>

(* callbackProjection, and applyStatus: what a job's state makes of an     *)
(* item; a success without an artifact is a failure.                       *)
StatusOf(state) ==
    CASE state = "queued" -> "provider_queued"
      [] state = "running" -> "provider_running"
      [] state = "succeeded" -> "artifact_pending"
      [] state \in {"empty", "failed"} -> "failed"
      [] state = "cancelled" -> "cancelled"

(* projectVideoCallback: a job nobody knows is unmatched, a transition     *)
(* that is not allowed is dropped; a lease that is held is taken away.     *)
Projected(i) ==
    LET to == StatusOf(events[i]) IN
    IF events[i] = NoEvent \/ ~items[i].job \/ ~CanAdvance(items[i].status, to) THEN items[i]
    ELSE [Released(Advanced(items[i], to)) EXCEPT !.artifact = @ \/ events[i] = "succeeded"]

-----------------------------------------------------------------------------
(* ClaimDue: callbacks are projected, then a due item without a live lease *)
(* is leased, in one transaction; the version stays.                       *)
Due(row) == ~Live(row) /\ (row.status \in Terminal => ~finalized)

Working(step, i, row) ==
    [step |-> step, item |-> i, seen |-> Seen(row), settles |-> row.status \in Terminal /\ ~finalized,
     to |-> row.status, job |-> FALSE, artifact |-> FALSE, failed |-> FALSE, charge |-> 0]

ClaimDue(s) ==
    LET rows == [i \in Items |-> Projected(i)] IN
    /\ created /\ slots[s] = Idle
    /\ events' = [i \in Items |-> NoEvent]
    /\ IF \E i \in Items : Due(rows[i])
       THEN \E i \in Items :
              LET row == [rows[i] EXCEPT !.owner = OwnerOf[s], !.fresh = TRUE] IN
              /\ Due(rows[i])
              /\ items' = [rows EXCEPT ![i] = row]
              /\ slots' = [slots EXCEPT ![s] = Working("work", i, row)]
       ELSE events # events' /\ items' = rows /\ UNCHANGED slots
    /\ UNCHANGED <<task, attempts, objects, provider, bounds>>

(* Slot s is about to work on an item that it saw in one of these states.  *)
Sees(s, states) ==
    /\ slots[s].step = "work" /\ ~slots[s].settles
    /\ slots[s].seen.status \in states

Then(s, step) == slots' = [slots EXCEPT ![s].step = step]
ThenRelease(s) == slots' = [slots EXCEPT ![s] = Releasing(slots[s].item)]
Apply(s, to) == slots' = [slots EXCEPT ![s].step = "apply", ![s].to = to]
(* schedule: the state as it was, to be tried again later.                 *)
Schedule(s) == Apply(s, slots[s].seen.status)

(* What ApplyStep, PrepareAttempt and CommitArtifact compare.              *)
IsCurrent(s) ==
    LET row == items[slots[s].item] IN
    row.version = slots[s].seen.version /\ row.owner = OwnerOf[s]

-----------------------------------------------------------------------------
(* submit *)

(* Faulty: the item is taken to be as it was when it was claimed. *)
MayPrepareAsSeen(s) == TRUE
MayPrepare(s) == IsCurrent(s) /\ items[slots[s].item].status = "queued"

(* PrepareAttempt: the attempt and its idempotency key are kept before the *)
(* provider is called.                                                     *)
Prepare(s) ==
    LET i == slots[s].item
        row == [items[i] EXCEPT !.status = "submitting", !.version = @ + 1] IN
    /\ Sees(s, {"queued"})
    /\ IF MayPrepare(s)
       THEN /\ items' = [items EXCEPT ![i] = row]
            /\ attempts' = [attempts EXCEPT ![i] = @ + 1]
            /\ slots' = [slots EXCEPT ![s].step = "submit", ![s].seen = Seen(row)]
       ELSE ThenRelease(s) /\ UNCHANGED <<items, attempts>>
    /\ UNCHANGED <<task, objects, provider, events, bounds>>

(* applyJob: most clients call every job queued, seedance tells its state. *)
ApplyJob(s, state) ==
    \/ slots' = [slots EXCEPT ![s].step = "apply", ![s].to = "provider_queued", ![s].job = TRUE]
    \/ state \in {"failed", "cancelled"} /\ Apply(s, "failed")

(* Submit answers with a job or a refusal, or fails before the call; an    *)
(* answer that is lost leaves the submission unknown.                      *)
SubmitAnswered(s) ==
    /\ slots[s].step = "submit"
    /\ \E answer \in JobStates \cup {"refused"} :
          /\ Post(slots[s].item, answer)
          /\ IF answer = "refused" THEN Apply(s, "failed") ELSE ApplyJob(s, answer)
    /\ UNCHANGED <<task, items, attempts, objects, events, bounds>>

SubmitFails(s) ==
    /\ slots[s].step = "submit"
    /\ \/ Apply(s, "failed") /\ UNCHANGED provider
       \/ Apply(s, "reconciling") /\ UNCHANGED provider
       \/ /\ Apply(s, "reconciling")
          /\ \E answer \in JobStates \cup {"refused"} : Post(slots[s].item, answer)
    /\ UNCHANGED <<task, items, attempts, objects, events, bounds>>

-----------------------------------------------------------------------------
(* reconcile: every provider client submits again with the attempt's key;  *)
(* a refusal is an error like any other and is tried again.                *)
ReconcileAnswered(s) ==
    /\ Sees(s, {"submitting", "reconciling"})
    /\ \E answer \in JobStates \cup {"refused"} :
          /\ Post(slots[s].item, answer)
          /\ IF answer = "refused" THEN Schedule(s) ELSE ApplyJob(s, answer)
    /\ UNCHANGED <<task, items, attempts, objects, events, bounds>>

(* The account, an input or the answer is missing.                         *)
ReconcileFails(s) ==
    /\ Sees(s, {"submitting", "reconciling"})
    /\ Schedule(s)
    /\ \/ UNCHANGED provider
       \/ \E answer \in JobStates \cup {"refused"} : Post(slots[s].item, answer)
    /\ UNCHANGED <<task, items, attempts, objects, events, bounds>>

-----------------------------------------------------------------------------
(* poll and cancel *)

(* applyStatus: a job said to be queued does not take a running item back. *)
ApplyStatus(s, state) ==
    IF state = "queued" /\ slots[s].seen.status = "provider_running" THEN Schedule(s)
    ELSE slots' = [slots EXCEPT ![s].step = "apply", ![s].to = StatusOf(state),
                                ![s].artifact = state = "succeeded"]

PollAnswered(s) ==
    /\ Sees(s, {"provider_queued", "provider_running"})
    /\ ApplyStatus(s, jobs[slots[s].item])
    /\ UNCHANGED <<task, items, attempts, objects, provider, events, bounds>>

PollFails(s) ==
    /\ Sees(s, {"provider_queued", "provider_running"})
    /\ Schedule(s)
    /\ UNCHANGED <<task, items, attempts, objects, provider, events, bounds>>

(* Without a job there is nothing to reach.  The provider cancels a job    *)
(* that has not ended, or declines; gasic says yes and does nothing.  An   *)
(* item whose job has succeeded is taken on, any other is tried again.     *)
CancelAnswered(s) ==
    LET i == slots[s].item IN
    /\ Sees(s, {"cancel_requested"})
    /\ \/ ~slots[s].seen.job /\ Apply(s, "cancelled") /\ UNCHANGED jobs
       \/ /\ slots[s].seen.job /\ jobs[i] \in {"queued", "running"}
          /\ Apply(s, "cancelled")
          /\ jobs' \in {jobs, [jobs EXCEPT ![i] = "cancelled"]}
       \/ /\ slots[s].seen.job /\ jobs[i] \in {"succeeded", "empty"}
          /\ ApplyStatus(s, jobs[i]) \/ Apply(s, "cancelled")
          /\ UNCHANGED jobs
       \/ slots[s].seen.job /\ jobs[i] = "cancelled" /\ Apply(s, "cancelled") /\ UNCHANGED jobs
    /\ UNCHANGED <<task, items, attempts, objects, posts, events, bounds>>

CancelDeclined(s) ==
    /\ Sees(s, {"cancel_requested"}) /\ slots[s].seen.job
    /\ Schedule(s)
    /\ UNCHANGED <<task, items, attempts, objects, provider, events, bounds>>

-----------------------------------------------------------------------------
(* ApplyStep *)

(* An exhausted transfer goes through recovery_required in one step.       *)
Exhausts(w) == w.failed /\ w.to = "failed"
ApplyStep(s) ==
    LET w == slots[s]
        row == items[w.item]
        from == IF Exhausts(w) THEN Advanced(row, "recovery_required") ELSE row IN
    /\ w.step = "apply"
    /\ IF IsCurrent(s) /\ CanAdvance(from.status, w.to)
       THEN items' = [items EXCEPT ![w.item] =
                [Released(Advanced(from, w.to)) EXCEPT
                    !.job = @ \/ w.job, !.artifact = @ \/ w.artifact,
                    !.tries = IF w.failed THEN @ + 1 ELSE @]]
       ELSE UNCHANGED items
    /\ ThenRelease(s)
    /\ UNCHANGED <<task, attempts, objects, provider, events, bounds>>

(* ReleaseLease compares the owner only.                                   *)
Release(s) ==
    LET i == slots[s].item IN
    /\ slots[s].step = "release"
    /\ items' = IF items[i].owner = OwnerOf[s]
                THEN [items EXCEPT ![i] = Released(@)] ELSE items
    /\ slots' = [slots EXCEPT ![s] = Idle]
    /\ UNCHANGED <<task, attempts, objects, provider, events, bounds>>

-----------------------------------------------------------------------------
(* persistArtifact *)

Saves == {"artifact_pending", "recovery_required"}

(* Downloaded, and put under the name of a new asset.                      *)
Persist(s) ==
    /\ Sees(s, Saves)
    /\ objects' = objects \cup {<<slots[s].item, s>>}
    /\ Then(s, "store")
    /\ UNCHANGED <<task, items, attempts, provider, events, bounds>>

(* handleArtifactFailure *)
PersistFails(s) ==
    /\ Sees(s, Saves)
    /\ slots' = [slots EXCEPT ![s].step = "apply", ![s].failed = TRUE,
                    ![s].to = IF slots[s].seen.tries + 1 < MaxArtifactAttempts
                              THEN "recovery_required" ELSE "failed"]
    /\ UNCHANGED <<task, items, attempts, objects, provider, events, bounds>>

(* Faulty: the object of a transfer that came too late is another's too. *)
DiscardedItem(s) == {o \in objects : o[1] = slots[s].item}
Discarded(s) == {<<slots[s].item, s>>}

(* CommitArtifact: asset, reference, probe job and the item's success; an  *)
(* object whose commit is turned down is deleted.                          *)
Commit(s) ==
    LET i == slots[s].item IN
    /\ slots[s].step = "store"
    /\ IF IsCurrent(s) /\ items[i].status = "artifact_pending"
       THEN /\ items' = [items EXCEPT ![i] =
                   [Released(Advanced(@, "succeeded")) EXCEPT !.asset = s]]
            /\ UNCHANGED objects
       ELSE objects' = objects \ Discarded(s) /\ UNCHANGED items
    /\ ThenRelease(s)
    /\ UNCHANGED <<task, attempts, provider, events, bounds>>

-----------------------------------------------------------------------------
(* settle: LoadSettlement reads the items, FinalizeTask looks again whether *)
(* all have ended and settles what was read.                               *)

LoadSettlement(s) ==
    /\ slots[s].step = "work" /\ slots[s].settles
    /\ IF AllTerminal(items)
       THEN slots' = [slots EXCEPT ![s].step = "settle", ![s].charge = Charge(items)]
       ELSE ThenRelease(s)
    /\ UNCHANGED <<task, items, attempts, objects, provider, events, bounds>>

FinalizeTask(s) ==
    /\ slots[s].step = "settle"
    /\ IF AllTerminal(items) THEN Finalize(slots[s].charge) ELSE UNCHANGED <<finalized, billing>>
    /\ ThenRelease(s)
    /\ UNCHANGED <<created, items, attempts, objects, provider, events, bounds>>

-----------------------------------------------------------------------------
(* AdminVideoStore.Retry of the failed items that have an artifact, one of *)
(* them or all: neither version nor settlement is looked at.               *)
Retryable == {i \in Items : items[i].status = "failed" /\ items[i].artifact}
RetryArtifact ==
    /\ Calm /\ bounds.retries < MaxRetries /\ Retryable # {}
    /\ \E chosen \in {{i} : i \in Retryable} \cup {Retryable} :
          items' = [i \in Items |-> IF i \in chosen
                        THEN [Released(items[i]) EXCEPT !.status = "artifact_pending"]
                        ELSE items[i]]
    /\ bounds' = [bounds EXCEPT !.retries = @ + 1]
    /\ UNCHANGED <<task, attempts, slots, objects, provider, events>>

(* retrySettlement takes every lease of a task that has ended unsettled.   *)
RetrySettlement ==
    /\ Calm /\ bounds.retries < MaxRetries
    /\ created /\ ~finalized /\ AllTerminal(items)
    /\ items' = [i \in Items |-> Released(items[i])]
    /\ bounds' = [bounds EXCEPT !.retries = @ + 1]
    /\ UNCHANGED <<task, attempts, slots, objects, provider, events>>

-----------------------------------------------------------------------------
(* Faults *)

InUse(i) ==
    \E s \in Slots : slots[s] # Idle /\ slots[s].item = i /\ OwnerOf[s] = items[i].owner

Die(s) ==
    /\ Calm /\ bounds.faults < MaxFaults /\ slots[s] # Idle
    /\ slots' = [slots EXCEPT ![s] = Idle]
    /\ bounds' = [bounds EXCEPT !.faults = @ + 1]
    /\ UNCHANGED <<task, items, attempts, objects, provider, events>>

(* The lease is 30 seconds and is not renewed; a transfer may take ten     *)
(* minutes.  A lease nobody works under lapses in the end.                 *)
Lapse(i) ==
    /\ Live(items[i]) /\ (InUse(i) => Calm /\ bounds.faults < MaxFaults)
    /\ items' = [items EXCEPT ![i].fresh = FALSE]
    /\ bounds' = [bounds EXCEPT !.faults = IF InUse(i) THEN @ + 1 ELSE @]
    /\ UNCHANGED <<task, attempts, slots, objects, provider, events>>

-----------------------------------------------------------------------------
Step(s) ==
    \/ ClaimDue(s) \/ Prepare(s) \/ SubmitAnswered(s) \/ SubmitFails(s)
    \/ ReconcileAnswered(s) \/ ReconcileFails(s) \/ PollAnswered(s) \/ PollFails(s)
    \/ CancelAnswered(s) \/ CancelDeclined(s) \/ ApplyStep(s) \/ Release(s)
    \/ Persist(s) \/ PersistFails(s) \/ Commit(s) \/ LoadSettlement(s) \/ FinalizeTask(s)

Next ==
    \/ Create \/ RequestCancel \/ RetryArtifact \/ RetrySettlement
    \/ \E i \in Items : JobRuns(i) \/ Callback(i) \/ Lapse(i)
    \/ \E s \in Slots : Step(s) \/ Die(s)

(* Slots go on (the loops of runWorkerRoleSlots), leases lapse, jobs end,  *)
(* and a provider that is asked again and again answers in the end.        *)
Fairness ==
    /\ \A s \in Slots : WF_vars(Step(s))
    /\ \A i \in Items : WF_vars(JobRuns(i)) /\ WF_vars(Lapse(i) /\ ~InUse(i))
    /\ SF_vars(\E s \in Slots : ReconcileAnswered(s))
    /\ SF_vars(\E s \in Slots : PollAnswered(s))
    /\ SF_vars(\E s \in Slots : CancelAnswered(s))

Spec == Init /\ [][Next]_vars /\ Fairness

-----------------------------------------------------------------------------
TypeOK ==
    /\ created \in BOOLEAN /\ finalized \in BOOLEAN
    /\ items \in [Items -> Rows]
    /\ attempts \in [Items -> Nat]
    /\ slots \in [Slots -> {Idle} \cup {Releasing(i) : i \in Items} \cup Steps]
    /\ objects \subseteq Items \X Slots
    /\ jobs \in [Items -> JobStates \cup {"none", "refused"}]
    /\ posts \in [Items -> 0 .. 2]
    /\ events \in [Items -> JobStates \cup {NoEvent}]
    /\ bounds \in [faults : 0 .. MaxFaults, callbacks : 0 .. MaxCallbacks,
                   retries : 0 .. MaxRetries]

(* However many workers take an item from each other, it gets one attempt, *)
(* and with it one idempotency key and at most one job to pay for.         *)
OneAttempt == \A i \in Items : attempts[i] <= 1

(* An item cancelled without a job id has no job: RequestCancel never      *)
(* cancels on the spot what a worker may have submitted.                   *)
CancelledNeverRan ==
    \A i \in Items : items[i].status = "cancelled" /\ ~items[i].job => jobs[i] = "none"

(* The task holds its reservation until it is settled; then every item has *)
(* ended, those that succeeded are paid at the price of the submission and *)
(* the rest is given back (finalizeVideoTaskTx).  With MaxRetries = 0: an  *)
(* administrator revives items of a task that was settled.                 *)
SettledByItems ==
    /\ created /\ ~finalized => held[Task] = Reserved
    /\ finalized => /\ \A i \in Items : items[i].status \in Terminal
                    /\ charged[Task] = Charge(items)
                    /\ returned[Task] = Reserved - Charge(items)

(* Nothing is settled twice, whatever an administrator starts again.       *)
SettledOnce == finalized => held[Task] = Wallet!Nothing /\ charged[Task] + returned[Task] = Reserved

(* The object of a committed asset is there: a transfer that lost its race *)
(* deletes its own object only (persistArtifact).                          *)
AssetHasObject ==
    \A i \in Items : items[i].status = "succeeded" => <<i, items[i].asset>> \in objects

(* No step takes an item back, and an ended item stays as it is: late      *)
(* polls, callbacks out of order and slots that lost their lease included. *)
Rank(status) ==
    CASE status = "queued" -> 0
      [] status = "submitting" -> 1
      [] status = "reconciling" -> 2
      [] status = "provider_queued" -> 3
      [] status = "provider_running" -> 4
      [] status = "cancel_requested" -> 5
      [] status \in Saves -> 6
      [] OTHER -> 7
NeverBackwards ==
    [][\A i \in Items :
         /\ Rank(items'[i].status) >= Rank(items[i].status)
         /\ items[i].status \in Terminal => items'[i].status = items[i].status]_vars

(* An item is settled with its task once all items have ended.             *)
EndIsSettled == (created /\ AllTerminal(items)) ~> finalized

(* Every item ends, but for the four ways of this code to keep one         *)
(* forever: an artifact in recovery, a refusal met while reconciling, a    *)
(* job cancelled by its provider, and a failed job that was to be          *)
(* cancelled.                                                              *)
Trapped(i) ==
    \/ items[i].status = "recovery_required"
    \/ items[i].status \in {"submitting", "reconciling"} /\ jobs[i] = "refused"
    \/ items[i].status \in {"provider_queued", "provider_running"} /\ jobs[i] = "cancelled"
    \/ items[i].status = "cancel_requested" /\ jobs[i] = "failed"
ItemsEnd == \A i \in Items : created ~> (items[i].status \in Terminal \/ Trapped(i))

-----------------------------------------------------------------------------
(* What the code does not keep: TLC refutes each of these, with the        *)
(* constants the README names.                                             *)

(* Worker.Reconciler looks a submission up "without submitting it again".  *)
PostedOnce == \A i \in Items : posts[i] <= 1

(* A result whose transfer failed is transferred again: recovery ends.     *)
RecoveryEnds == \A i \in Items :
    items[i].status = "recovery_required" ~> items[i].status # "recovery_required"

(* Items that succeed are paid at the price of their submission: also those *)
(* an administrator had stored again.                                      *)
DeliveredIsCharged == finalized => charged[Task] = Charge(items)

(* A submission that was refused ends the item.                            *)
RefusalEnds == \A i \in Items : (created /\ jobs[i] = "refused") ~> items[i].status \in Terminal

(* The reservation of a job that failed is given back, cancelled or not.   *)
FailureReleases == \A i \in Items : jobs[i] = "failed" ~> items[i].status \in Terminal
=============================================================================
