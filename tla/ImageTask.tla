----------------------------- MODULE ImageTask ------------------------------
(***************************************************************************)
(* Image tasks from the request that creates them to their final state:    *)
(* CreateTask and the execution of leased tasks in                         *)
(* internal/service/imagetask, the row's writes in                         *)
(* internal/repository/entstore/imagetask_store.go and the slots of        *)
(* internal/worker/runner.go.  A step is one transaction or one call of    *)
(* the provider; a slot keeps a copy of the row in memory between steps.   *)
(*                                                                         *)
(* Points are reserved and settled by the wallet's contract, TaskBilling,  *)
(* which Wallet implements.  A lease is fresh or has lapsed: the clock,    *)
(* the heartbeat and the delays of retries are left out, so any delay may  *)
(* happen between two steps.                                               *)
(***************************************************************************)
EXTENDS Integers

CONSTANTS
    Tasks,
    Requests,        \* requests to create a task
    TaskOf,          \* request -> its task (idempotentTaskID, or a new one)
    Slots,           \* the slots of the workers
    OwnerOf,         \* slot -> the lease owner it acts as: its process
    Estimate,        \* points a task reserves
    Charges,         \* points a delivered task may cost
    Candidates,      \* providers that may be tried for one task
    Attempts,        \* attempts to store the artifacts, 4 in the code
    MaxFaults        \* bound: deaths of slots, and lapses of a lease in use

Nobody == "nobody"
ASSUME ImageTaskAssumption ==
    /\ TaskOf \in [Requests -> Tasks]
    /\ Estimate \in Nat \ {0} /\ Charges \subseteq 1 .. Estimate
    /\ Candidates \in Nat \ {0} /\ Attempts \in Nat \ {0} /\ MaxFaults \in Nat
    /\ \A s \in Slots : OwnerOf[s] # Nobody

Owners == {OwnerOf[s] : s \in Slots}
FinalStatuses == {"succeeded", "failed", "rejected"}

VARIABLES
    rows,        \* task -> its row in image_tasks, with its results
    requests,    \* request -> how far it is
    slots,       \* slot -> what it is doing
    calls,       \* task -> calls of a provider that may have produced images
    lost,        \* tasks one of whose calls may have produced images although
                 \* it ended in an error; calls does not count these
    faults,
    held, charged, returned      \* the wallet, as TaskBilling has it

billing == <<held, charged, returned>>
vars == <<rows, requests, slots, calls, lost, faults, billing>>

Wallet == INSTANCE TaskBilling WITH MaxPoints <- Estimate

(* started: UpstreamStartedAt is set; payload: the encrypted recovery      *)
(* payload is kept, and its storage writer pinned; tries: failed attempts  *)
(* to store the artifacts; partial_failed counts as succeeded.             *)
Rows == [status: {"none", "queued", "running"} \cup FinalStatuses,
         owner: Owners \cup {Nobody}, fresh: BOOLEAN, started: BOOLEAN,
         payload: {"none", "kept", "pinned"}, tries: 0 .. Attempts,
         results: BOOLEAN, error: BOOLEAN, actual: 0 .. Estimate]
NewRow(status) == [status |-> status, owner |-> Nobody, fresh |-> FALSE, started |-> FALSE,
                   payload |-> "none", tries |-> 0, results |-> FALSE,
                   error |-> status = "failed", actual |-> 0]
NoRow == NewRow("none")

(* rescue: a save that lost the lease may still go through                 *)
(* SaveTerminalState; end: the status the task is about to get.            *)
SlotSteps == {"load", "recover", "pin", "mark", "submit", "answer", "clear", "checkpoint",
              "persist", "requeue", "reject", "save", "settle", "final"}
Idle == [step |-> "idle"]
Working == [step: SlotSteps, task: Tasks, copy: Rows, end: {"succeeded", "failed"},
            rescue: BOOLEAN, tried: 0 .. Candidates]
RequestSteps == {"check", "reserve", "save", "insert", "rollback", "done"}

Init ==
    /\ rows = [t \in Tasks |-> NoRow]
    /\ requests = [r \in Requests |-> [step |-> "check", status |-> "queued"]]
    /\ slots = [s \in Slots |-> Idle]
    /\ calls = [t \in Tasks |-> 0]
    /\ lost = {}
    /\ faults = 0
    /\ Wallet!Init

-----------------------------------------------------------------------------
(* The wallet's answers *)

(* FinalizeTask: a task that has been settled is left as it is; one that   *)
(* was never reserved is an error.                                         *)
FinalizeTask(t, points) ==
    \/ Wallet!Settle(t, points)
    \/ /\ held[t] = Wallet!Nothing
       /\ charged[t] + returned[t] > 0
       /\ UNCHANGED billing

(* ReserveTask: a reservation that is open is kept.                        *)
ReserveTask(t) ==
    IF held[t] = Wallet!Nothing THEN Wallet!Hold(t, Estimate) ELSE UNCHANGED billing

-----------------------------------------------------------------------------
(* CreateTask *)

Move(r, step) == requests' = [requests EXCEPT ![r].step = step]

(* GetByID: a task that exists is returned.  Otherwise the request is      *)
(* refused, or resolved; one that cannot be resolved leaves a failed task. *)
Check(r) ==
    /\ requests[r].step = "check"
    /\ IF rows[TaskOf[r]].status # "none" THEN Move(r, "done")
       ELSE \/ Move(r, "done")
            \/ Move(r, "reserve")
            \/ requests' = [requests EXCEPT ![r] = [step |-> "save", status |-> "failed"]]
    /\ UNCHANGED <<rows, slots, calls, lost, faults, billing>>

(* applyTaskEstimateResult: reserved, or refused for want of points.       *)
Reserve(r) ==
    /\ requests[r].step = "reserve"
    /\ \/ ReserveTask(TaskOf[r]) /\ Move(r, "save")
       \/ /\ requests' = [requests EXCEPT ![r] = [step |-> "save", status |-> "failed"]]
          /\ UNCHANGED billing
    /\ UNCHANGED <<rows, slots, calls, lost, faults>>

AfterSave == "done"
(* Save: a row that exists is locked and overwritten.                      *)
SaveRow(r) ==
    /\ requests[r].step = "save"
    /\ IF rows[TaskOf[r]].status = "none"
       THEN Move(r, "insert") /\ UNCHANGED rows
       ELSE /\ rows' = [rows EXCEPT ![TaskOf[r]] = NewRow(requests[r].status)]
            /\ Move(r, AfterSave)
    /\ UNCHANGED <<slots, calls, lost, faults, billing>>

InsertRow(r) ==
    /\ requests[r].step = "insert"
    /\ rows[TaskOf[r]].status = "none"
    /\ rows' = [rows EXCEPT ![TaskOf[r]] = NewRow(requests[r].status)]
    /\ Move(r, AfterSave)
    /\ UNCHANGED <<slots, calls, lost, faults, billing>>

(* The database fails, or the row has meanwhile been inserted by another.  *)
FailSave(r) ==
    /\ requests[r].step \in {"save", "insert"}
    /\ Move(r, IF requests[r].status = "queued" THEN "rollback" ELSE "done")
    /\ UNCHANGED <<rows, slots, calls, lost, faults, billing>>

(* rollbackTaskReserve *)
Rollback(r) ==
    /\ requests[r].step = "rollback"
    /\ FinalizeTask(TaskOf[r], 0)
    /\ Move(r, "done")
    /\ UNCHANGED <<rows, slots, calls, lost, faults>>

(* The API process dies, or its call of the database fails.                *)
DropRequest(r) ==
    /\ requests[r].step # "done"
    /\ Move(r, "done")
    /\ UNCHANGED <<rows, slots, calls, lost, faults, billing>>

CreateTask(r) == Check(r) \/ Reserve(r) \/ SaveRow(r) \/ InsertRow(r) \/ FailSave(r) \/ Rollback(r)

-----------------------------------------------------------------------------
(* Leases and the writes they guard *)

(* Faulty: only queued tasks are acquired.                                 *)
IsEligibleQueued(t) == rows[t].status = "queued"
(* acquireEligiblePredicate *)
IsEligible(t) == \/ rows[t].status = "queued"
                 \/ rows[t].status = "running" /\ ~rows[t].fresh

(* SaveTerminalState asks for the owner only, SaveIfOwned for the lease.   *)
Holds(s) == LET t == slots[s].task IN rows[t].status = "running" /\ rows[t].owner = OwnerOf[s]
Owns(s) == Holds(s) /\ rows[slots[s].task].fresh

(* Saving a running task leaves its lease columns alone.                   *)
Write(s, copy) ==
    LET t == slots[s].task
    IN rows' = [rows EXCEPT ![t] =
                 IF copy.status = "running"
                 THEN [copy EXCEPT !.owner = rows[t].owner, !.fresh = rows[t].fresh]
                 ELSE [copy EXCEPT !.owner = Nobody, !.fresh = FALSE]]

Become(s, slot) == slots' = [slots EXCEPT ![s] = slot]
Goto(s, step) == Become(s, [slots[s] EXCEPT !.step = step])
GotoWith(s, step, copy) == Become(s, [slots[s] EXCEPT !.step = step, !.copy = copy])
Stop(s) == Become(s, Idle)

(* AcquireNextQueuedTask takes the oldest eligible task; here, any.        *)
Acquire(s, t) ==
    /\ slots[s] = Idle
    /\ IsEligible(t)
    /\ rows' = [rows EXCEPT ![t].status = "running", ![t].owner = OwnerOf[s], ![t].fresh = TRUE]
    /\ Become(s, [step |-> "load", task |-> t, copy |-> NoRow,
                  end |-> "failed", rescue |-> FALSE, tried |-> 0])
    /\ UNCHANGED <<requests, calls, lost, faults, billing>>

-----------------------------------------------------------------------------
(* ExecuteLeasedTask *)

(* Faulty: a task that reached a provider is started again.                *)
IsUncertainNever(row) == FALSE
IsUncertain(row) == row.started /\ ~row.results

(* failOwnedTask, up to its first save.                                    *)
Failing(slot) == [slot EXCEPT !.step = "save", !.end = "failed", !.rescue = TRUE,
                              !.copy.error = TRUE, !.copy.actual = 0]

(* Faulty: what was settling is taken for settled.                         *)
ResumeStepFinal == "final"
(* resumeTerminalization settles (again) before the final save.            *)
ResumeStep == "settle"

Load(s) ==
    /\ slots[s].step = "load"
    /\ LET row == rows[slots[s].task]
           slot == [slots[s] EXCEPT !.copy = row]
       IN IF ~Owns(s) THEN Stop(s)
          ELSE IF row.payload # "none" THEN Become(s, [slot EXCEPT !.step = "recover"])
          ELSE IF IsUncertain(row) THEN Become(s, [slot EXCEPT !.step = "reject"])
          ELSE IF row.results \/ row.error
               THEN Become(s, [slot EXCEPT !.step = ResumeStep,
                                           !.end = IF row.results THEN "succeeded" ELSE "failed"])
          ELSE Become(s, [slot EXCEPT !.step = "mark"]) \/ Become(s, Failing(slot))
    /\ UNCHANGED <<rows, requests, calls, lost, faults, billing>>

(* rejectUncertainSubmission *)
Reject(s) ==
    /\ slots[s].step = "reject"
    /\ IF Owns(s) THEN Write(s, [slots[s].copy EXCEPT !.status = "rejected", !.error = TRUE])
                  ELSE UNCHANGED rows
    /\ Stop(s)
    /\ UNCHANGED <<requests, calls, lost, faults, billing>>

(* executeResolvedTask, for each candidate: the marker, the call, its      *)
(* outcome.                                                                *)
Mark(s) ==
    /\ slots[s].step = "mark"
    /\ LET copy == [slots[s].copy EXCEPT !.started = TRUE]
       IN IF Owns(s) THEN Write(s, copy) /\ GotoWith(s, "submit", copy)
                     ELSE UNCHANGED rows /\ Stop(s)
    /\ UNCHANGED <<requests, calls, lost, faults, billing>>

Submit(s) ==
    /\ slots[s].step = "submit"
    /\ calls' = [calls EXCEPT ![slots[s].task] = @ + 1]
    /\ Goto(s, "answer")
    /\ UNCHANGED <<rows, requests, lost, faults, billing>>

(* Images; on a native candidate, an outcome nobody knows; or an error: a  *)
(* refusal, or, on a candidate that is not native, a connection that broke *)
(* or an answer that cannot be read.  Such a call may have produced images *)
(* (lost), and is given up all the same.                                   *)
Answer(s) ==
    /\ slots[s].step = "answer"
    /\ \/ Goto(s, "checkpoint") /\ UNCHANGED <<calls, lost>>
       \/ Goto(s, "reject") /\ UNCHANGED <<calls, lost>>
       \/ /\ calls' = [calls EXCEPT ![slots[s].task] = @ - 1]
          /\ lost' \in {lost, lost \cup {slots[s].task}}
          /\ Become(s, [slots[s] EXCEPT !.step = "clear", !.copy.started = FALSE,
                                        !.tried = @ + 1])
    /\ UNCHANGED <<rows, requests, faults, billing>>

(* A failed call is recorded, then the next candidate is tried, or none.   *)
Clear(s) ==
    /\ slots[s].step = "clear"
    /\ IF Owns(s)
       THEN /\ Write(s, slots[s].copy)
            /\ \/ slots[s].tried < Candidates /\ Goto(s, "mark")
               \/ Become(s, Failing(slots[s]))
       ELSE UNCHANGED rows /\ (Stop(s) \/ Become(s, Failing(slots[s])))
    /\ UNCHANGED <<requests, calls, lost, faults, billing>>

-----------------------------------------------------------------------------
(* The artifacts: checkpointProviderSuccess, pinArtifactWriter,            *)
(* persistImageResults, executeArtifactRecovery                            *)

Checkpoint(s) ==
    /\ slots[s].step = "checkpoint"
    /\ LET copy == [slots[s].copy EXCEPT !.payload = "kept"]
       IN IF Holds(s)
          THEN /\ Write(s, copy)
               /\ Become(s, [slots[s] EXCEPT !.step = "pin", !.copy = copy, !.rescue = TRUE])
          ELSE UNCHANGED rows /\ Stop(s)
    /\ UNCHANGED <<requests, calls, lost, faults, billing>>

(* UpdateProgressIfOwned *)
Recover(s) ==
    /\ slots[s].step = "recover"
    /\ IF Owns(s) THEN Goto(s, "pin") ELSE Stop(s)
    /\ UNCHANGED <<rows, requests, calls, lost, faults, billing>>

(* Faulty: the payload is dropped when the task is queued again.           *)
RequeuedWithoutPayload(copy) == [copy EXCEPT !.status = "queued", !.error = FALSE, !.payload = "none"]
Requeued(copy) == [copy EXCEPT !.status = "queued", !.error = FALSE]
MayRetry(tries) == tries < Attempts
(* handleArtifactPersistenceFailure: try later, or give the task up.       *)
ArtifactFailure(s) ==
    LET copy == [slots[s].copy EXCEPT !.tries = @ + 1]
    IN \/ MayRetry(copy.tries) /\ GotoWith(s, "requeue", copy)
       \/ Become(s, Failing([slots[s] EXCEPT !.copy = [copy EXCEPT !.payload = "none"]]))

Pin(s) ==
    /\ slots[s].step = "pin"
    /\ \/ /\ slots[s].copy.payload = "pinned"
          /\ Goto(s, "persist")
          /\ UNCHANGED rows
       \/ /\ slots[s].copy.payload = "kept"
          /\ LET copy == [slots[s].copy EXCEPT !.payload = "pinned"]
             IN IF Holds(s) THEN Write(s, copy) /\ GotoWith(s, "persist", copy)
                            ELSE UNCHANGED rows /\ Stop(s)
       \/ ArtifactFailure(s) /\ slots[s].copy.payload = "kept" /\ UNCHANGED rows
    /\ UNCHANGED <<requests, calls, lost, faults, billing>>

(* Faulty: the points are charged before the results are saved.            *)
PersistedStepSettle == "settle"
PersistedStep == "save"
(* The results are in storage; a price that cannot be computed charges the *)
(* whole reservation (holdPaidSettlement).                                 *)
Persist(s) ==
    /\ slots[s].step = "persist"
    /\ LET copy == [slots[s].copy EXCEPT !.results = TRUE, !.payload = "none"]
           Saving(c, rescue) == Become(s, [slots[s] EXCEPT !.step = PersistedStep, !.copy = c,
                                                        !.end = "succeeded", !.rescue = rescue])
       IN \/ \E points \in Charges :
                Saving([copy EXCEPT !.actual = points], slots[s].rescue)
          \/ Saving([copy EXCEPT !.actual = Estimate, !.error = TRUE], FALSE)
          \/ ArtifactFailure(s)
    /\ UNCHANGED <<rows, requests, calls, lost, faults, billing>>

Requeue(s) ==
    /\ slots[s].step = "requeue"
    /\ IF Owns(s) THEN Write(s, Requeued(slots[s].copy)) ELSE UNCHANGED rows
    /\ Stop(s)
    /\ UNCHANGED <<requests, calls, lost, faults, billing>>

-----------------------------------------------------------------------------
(* The end of a task: a save of what it comes to, the settlement, the      *)
(* final save.  recoverTerminalLeaseConflict goes on with SaveTerminalState *)
(* when the lease has lapsed but nobody has taken it.                      *)

Save(s) ==
    /\ slots[s].step = "save"
    /\ IF Owns(s) \/ (slots[s].rescue /\ Holds(s))
       THEN /\ Write(s, slots[s].copy)
            /\ Become(s, [slots[s] EXCEPT !.step = "settle", !.rescue = ~Owns(s)])
       ELSE UNCHANGED rows /\ Stop(s)
    /\ UNCHANGED <<requests, calls, lost, faults, billing>>

(* settleTaskBilling; an error is among the faults.                        *)
Settle(s) ==
    /\ slots[s].step = "settle"
    /\ FinalizeTask(slots[s].task, slots[s].copy.actual)
    /\ Goto(s, "final")
    /\ UNCHANGED <<rows, requests, calls, lost, faults>>

Final(s) ==
    /\ slots[s].step = "final"
    /\ IF Owns(s) \/ (slots[s].rescue /\ Holds(s))
       THEN Write(s, [slots[s].copy EXCEPT !.status = slots[s].end])
       ELSE UNCHANGED rows
    /\ Stop(s)
    /\ UNCHANGED <<requests, calls, lost, faults, billing>>

-----------------------------------------------------------------------------
(* Faults *)

(* The worker dies, its context is canceled, or the database fails it: the *)
(* slot forgets its task, the row keeps its lease.                         *)
Die(s) ==
    /\ slots[s] # Idle
    /\ faults < MaxFaults
    /\ faults' = faults + 1
    /\ Stop(s)
    /\ UNCHANGED <<rows, requests, calls, lost, billing>>

InUse(t) == \E s \in Slots : slots[s] # Idle /\ slots[s].task = t /\ Holds(s)

(* A lease lapses when no slot renews it any more; or its holder is slow.  *)
Lapse(t) ==
    /\ rows[t].status = "running" /\ rows[t].fresh
    /\ IF InUse(t) THEN faults < MaxFaults /\ faults' = faults + 1 ELSE UNCHANGED faults
    /\ rows' = [rows EXCEPT ![t].fresh = FALSE]
    /\ UNCHANGED <<requests, slots, calls, lost, billing>>

Execute(s) ==
    \/ Load(s) \/ Reject(s) \/ Mark(s) \/ Submit(s) \/ Answer(s) \/ Clear(s) \/ Checkpoint(s)
    \/ Recover(s) \/ Pin(s) \/ Persist(s) \/ Requeue(s) \/ Save(s) \/ Settle(s) \/ Final(s)

Next ==
    \/ \E r \in Requests : CreateTask(r) \/ DropRequest(r)
    \/ \E s \in Slots : Execute(s) \/ Die(s)
    \/ \E s \in Slots, t \in Tasks : Acquire(s, t)
    \/ \E t \in Tasks : Lapse(t)

(* The runner's slots poll without end and its executions are bounded in   *)
(* time; leases lapse.                                                     *)
Fairness ==
    /\ \A s \in Slots : WF_vars(Execute(s)) /\ WF_vars(\E t \in Tasks : Acquire(s, t))
    /\ \A t \in Tasks : WF_vars(~InUse(t) /\ Lapse(t))

Spec == Init /\ [][Next]_vars /\ Fairness

-----------------------------------------------------------------------------
(* Properties *)

TypeOK ==
    /\ rows \in [Tasks -> Rows]
    /\ requests \in [Requests -> [step: RequestSteps, status: {"queued", "failed"}]]
    /\ slots \in [Slots -> {Idle} \cup Working]
    /\ calls \in [Tasks -> Nat] /\ lost \subseteq Tasks
    /\ faults \in 0 .. MaxFaults
    /\ held \in [Tasks -> {Wallet!Nothing, Estimate}]
    /\ charged \in [Tasks -> Nat] /\ returned \in [Tasks -> Nat]

(* A call that may have produced images is repeated only if the worker that *)
(* made it saw it end in an error: a worker that reclaims the task, or one  *)
(* that lost it, repeats no call that was left without an answer, none that *)
(* returned images, and none of unknown outcome on a native candidate.      *)
RepeatedAfterError == \A t \in Tasks : calls[t] <= 1

(* A task that ended is settled: a success for the points its row shows, a *)
(* failure for none.                                                       *)
EndIsSettled ==
    \A t \in Tasks :
        rows[t].status \in {"succeeded", "failed"} =>
            /\ held[t] = Wallet!Nothing
            /\ charged[t] = IF rows[t].status = "succeeded" THEN rows[t].actual ELSE 0

(* Points are charged only for results the row already shows.              *)
ChargedIsDelivered ==
    \A t \in Tasks : charged[t] > 0 => rows[t].results /\ rows[t].actual = charged[t]

(* "Queued: ... the estimated points are locked" (PRD, line 156).          *)
QueuedIsReserved == \A t \in Tasks : rows[t].status = "queued" => held[t] = Estimate

(* A task that ended stays as it ended, whichever slots still work on it.  *)
EndIsFinal == [][\A t \in Tasks : rows[t].status \in FinalStatuses => rows'[t] = rows[t]]_vars

(* The images of a provider, once checkpointed, are given up only for      *)
(* stored results or for a recorded failure to store them.                 *)
PaidOutputIsKept ==
    [][\A t \in Tasks : rows[t].payload # "none" /\ rows'[t].payload = "none" =>
                            rows'[t].results \/ rows'[t].error]_vars

(* A queued task ends, when the faults do.                                 *)
TasksEnd == \A t \in Tasks : rows[t].status = "queued" ~> rows[t].status \in FinalStatuses

(* What the code does not keep.                                            *)
(* "Without a concrete upstream rejection, submission may already be paid"  *)
(* (native.go, line 19): no call that may have produced images is repeated. *)
(* The code keeps it for native candidates only.                            *)
SubmittedOnce == \A t \in Tasks : calls[t] <= IF t \in lost THEN 0 ELSE 1
=============================================================================
