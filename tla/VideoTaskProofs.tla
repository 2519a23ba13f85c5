--------------------------- MODULE VideoTaskProofs ---------------------------
(***************************************************************************)
(* Theorems about VideoTask for every number of items, of slots, of their  *)
(* processes and of faults, callbacks and recoveries.                      *)
(***************************************************************************)
EXTENDS VideoTask, FiniteSetTheorems, TLAPS

-----------------------------------------------------------------------------
(* The inductive invariant *)

AtProvider == {"provider_queued", "provider_running"}

(* A slot that works on item i has neither stored its artifact again nor   *)
(* is about to.                                                            *)
Apart(slot, i) ==
    slot.step \in SlotSteps /\ slot.item = i =>
        slot.step # "store" /\ (slot.step = "work" => slot.seen.status \notin Saves)

(* An attempt is made of a queued item and no item is queued again; the    *)
(* provider has the job of an item that is with it; the slot that stored   *)
(* a delivered item is done with it.                                       *)
ItemInv(i) ==
    /\ attempts[i] <= 1 /\ (items[i].status = "queued" => attempts[i] = 0)
    /\ items[i].status \in AtProvider \/ events[i] # NoEvent => jobs[i] \in JobStates
    /\ items[i].status = "succeeded" =>
           /\ items[i].asset \in Slots
           /\ <<i, items[i].asset>> \in objects
           /\ Apart(slots[items[i].asset], i)

(* What a slot has seen or learnt of a job holds of the job; it calls no   *)
(* item a success before its object is committed, and that object is there.*)
SlotInv(s) ==
    slots[s].step \in SlotSteps =>
        /\ slots[s].seen.status \in AtProvider => jobs[slots[s].item] \in JobStates
        /\ slots[s].to \in AtProvider => jobs[slots[s].item] \in JobStates
        /\ slots[s].step = "apply" => slots[s].to # "succeeded"
        /\ slots[s].step = "store" => <<slots[s].item, s>> \in objects

(* The wallet knows the task as the task's own columns tell of it.         *)
PointsInv ==
    /\ held \in [{Task} -> Int] /\ charged \in [{Task} -> Int] /\ returned \in [{Task} -> Int]
    /\ ~created => ~finalized /\ (\A s \in Slots : slots[s] = Idle)
    /\ created /\ ~finalized => held[Task] = Reserved
    /\ ~finalized => charged[Task] = 0 /\ returned[Task] = 0
    /\ SettledOnce

IInv ==
    /\ TypeOK /\ PointsInv
    /\ \A i \in Items : ItemInv(i)
    /\ \A s \in Slots : SlotInv(s)

-----------------------------------------------------------------------------
(* Facts about rows and slots *)

(* The points of a task and of what it delivers are natural numbers.       *)
LEMMA PointsAreNat ==
    /\ Reserved \in Nat
    /\ \A rows : Charge(rows) \in Nat
<1>1. \A a \in Nat, b \in Nat : a * b \in Nat
  OBVIOUS
<1>2. Cardinality(Items) \in Nat
  BY VideoAssumption, FS_CardinalityType
<1>3. ASSUME NEW rows
      PROVE  Cardinality({i \in Items : rows[i].status = "succeeded"}) \in Nat
  BY VideoAssumption, FS_Subset, FS_CardinalityType
<1> QED BY <1>1, <1>2, <1>3, VideoAssumption DEF Reserved, Charge

(* A row keeps its columns when it is moved, and when it is let go.        *)
LEMMA RowType ==
    ASSUME NEW row \in Rows, NEW to \in Statuses
    PROVE  /\ Advanced(row, to) \in Rows
           /\ Advanced(row, to).status = to
           /\ Advanced(row, to).asset = row.asset
           /\ Released(row) \in Rows
           /\ Released(row).status = row.status
           /\ Released(row).asset = row.asset
<1>1. (IF to = row.status THEN row.version ELSE row.version + 1) \in Nat
  BY DEF Rows
<1> DEFINE version == IF to = row.status THEN row.version ELSE row.version + 1
<1>2. Advanced(row, to) = [row EXCEPT !.status = to, !.version = version]
  BY DEF Advanced
<1> HIDE DEF version
<1>3. /\ Advanced(row, to) \in Rows
      /\ Advanced(row, to).status = to /\ Advanced(row, to).asset = row.asset
  BY <1>1, <1>2 DEF Rows, version
<1>4. /\ Released(row) \in Rows
      /\ Released(row).status = row.status /\ Released(row).asset = row.asset
  BY DEF Released, Rows
<1> QED BY <1>3, <1>4

(* No transition leads back to queued, or away from a success.             *)
LEMMA Transitions ==
    ASSUME NEW from \in Statuses, NEW to \in Statuses, CanAdvance(from, to)
    PROVE  /\ to = "queued" => from = "queued"
           /\ from = "succeeded" => to = "succeeded"
           /\ to = "succeeded" => from \in {"succeeded", "artifact_pending"}
BY DEF CanAdvance, Allowed, Statuses, Terminal

(* What a job's state makes of an item.                                    *)
LEMMA StatusOfType ==
    ASSUME NEW state \in JobStates
    PROVE  /\ StatusOf(state) \in Statuses
           /\ StatusOf(state) # "queued" /\ StatusOf(state) # "succeeded"
BY DEF StatusOf, JobStates, Statuses, Terminal

(* The forms of a slot.                                                    *)
LEMMA SlotForms ==
    ASSUME TypeOK, NEW s \in Slots
    PROVE  /\ slots[s] = Idle <=> slots[s].step = "idle"
           /\ slots[s].step = "release" => slots[s] \in {Releasing(i) : i \in Items}
           /\ slots[s].step \in SlotSteps => slots[s] \in Steps /\ slots[s].item \in Items
           /\ slots[s].step \in SlotSteps \cup {"idle", "release"}
           /\ slots[s] # Idle => slots[s].item \in Items
BY DEF TypeOK, Idle, Releasing, Steps, SlotSteps

-----------------------------------------------------------------------------
(* Steps that move one slot on *)

JobsKnown == [Items -> JobStates \cup {"none", "refused"}]

(* A step without a settlement leaves the points as they are.              *)
LEMMA PointsKept ==
    ASSUME IInv, UNCHANGED task, created \/ UNCHANGED slots
    PROVE  PointsInv'
BY DEF IInv, PointsInv, TypeOK, task, billing, SettledOnce, Reserved, Wallet!Nothing

(* The next step of a slot that neither stores nor claims anything keeps   *)
(* the invariant, when it knows of the item's job what the provider does.  *)
LEMMA SlotMoves ==
    ASSUME IInv, NEW s \in Slots, slots[s] # Idle,
           NEW slot \in {Idle} \cup {Releasing(i) : i \in Items} \cup Steps,
           slots' = [slots EXCEPT ![s] = slot],
           slot.step \notin {"work", "store"},
           slot.step \in SlotSteps =>
               /\ slot.item = slots[s].item
               /\ slot.seen.status \in AtProvider => jobs'[slot.item] \in JobStates
               /\ slot.to \in AtProvider => jobs'[slot.item] \in JobStates
               /\ slot.step = "apply" => slot.to # "succeeded",
           jobs' \in JobsKnown, posts' \in [Items -> 0 .. 2],
           \A i \in Items : jobs[i] \in JobStates => jobs'[i] \in JobStates,
           \/ bounds' = bounds
           \/ bounds' = [bounds EXCEPT !.faults = @ + 1] /\ bounds.faults < MaxFaults,
           UNCHANGED <<task, items, attempts, objects, events>>
    PROVE  IInv'
<1>1. TypeOK'
  <2>1. bounds' \in [faults : 0 .. MaxFaults, callbacks : 0 .. MaxCallbacks,
                      retries : 0 .. MaxRetries]
    BY VideoAssumption DEF IInv, TypeOK
  <2> QED BY <2>1 DEF IInv, TypeOK, task, JobsKnown
<1>2. created
  BY DEF IInv, PointsInv, TypeOK
<1>3. PointsInv'
  BY <1>2, PointsKept
<1>4. slots'[s] = slot /\ \A q \in Slots \ {s} : slots'[q] = slots[q]
  BY DEF IInv, TypeOK
<1>5. ASSUME NEW i \in Items PROVE ItemInv(i)'
  BY <1>4 DEF IInv, ItemInv, Apart
<1>6. ASSUME NEW q \in Slots PROVE SlotInv(q)'
  <2>1. CASE q = s
    BY <1>4, <2>1 DEF SlotInv
  <2>2. CASE q # s
    <3>1. SlotInv(q) /\ (slots[q].step \in SlotSteps => slots[q].item \in Items)
      BY SlotForms DEF IInv
    <3> QED BY <3>1, <2>2, <1>4 DEF SlotInv
  <2> QED BY <2>1, <2>2
<1> QED BY <1>1, <1>3, <1>5, <1>6 DEF IInv

(* The job a submission has made, or found, is known from then on.         *)
LEMMA PostFacts ==
    ASSUME IInv, NEW i \in Items, NEW answer \in JobStates \cup {"refused"}, Post(i, answer)
    PROVE  /\ jobs' \in JobsKnown /\ posts' \in [Items -> 0 .. 2]
           /\ \A j \in Items : jobs[j] \in JobStates => jobs'[j] \in JobStates
           /\ jobs'[i] = answer
<1>1. jobs' = [jobs EXCEPT ![i] = answer] /\ jobs \in JobsKnown
  BY DEF Post, IInv, TypeOK, JobsKnown
<1>2. posts' \in [Items -> 0 .. 2]
  <2>1. \A n \in 0 .. 2 : (IF n < 2 THEN n + 1 ELSE n) \in 0 .. 2
    OBVIOUS
  <2> QED BY <2>1 DEF Post, IInv, TypeOK
<1>3. jobs[i] \in JobStates => answer \in JobStates
  BY DEF Post, JobStates
<1> QED BY <1>1, <1>2, <1>3 DEF JobsKnown

(* A slot that has decided what to make of its item.                       *)
LEMMA Decides ==
    ASSUME IInv, NEW s \in Slots, slots[s].step \in SlotSteps, NEW to \in Statuses,
           \/ Apply(s, to)
           \/ slots' = [slots EXCEPT ![s].step = "apply", ![s].to = to, ![s].job = TRUE]
           \/ slots' = [slots EXCEPT ![s].step = "apply", ![s].to = to, ![s].failed = TRUE]
           \/ \E artifact \in BOOLEAN :
                slots' = [slots EXCEPT ![s].step = "apply", ![s].to = to, ![s].artifact = artifact],
           to # "succeeded", to \in AtProvider => jobs'[slots[s].item] \in JobStates,
           jobs' \in JobsKnown, posts' \in [Items -> 0 .. 2],
           \A i \in Items : jobs[i] \in JobStates => jobs'[i] \in JobStates,
           UNCHANGED <<task, items, attempts, objects, events, bounds>>
    PROVE  IInv'
<1>1. slots[s] \in Steps /\ slots[s].item \in Items /\ slots[s] # Idle
  BY SlotForms DEF IInv, SlotSteps, Idle
<1> DEFINE Decided(slot) ==
        /\ slots' = [slots EXCEPT ![s] = slot]
        /\ slot.step = "apply" /\ slot.to = to
        /\ slot.item = slots[s].item /\ slot.seen = slots[s].seen
<1>2. PICK slot \in Steps : Decided(slot)
  <2> DEFINE Form(job, artifact, failed) ==
        [slots[s] EXCEPT !.step = "apply", !.to = to, !.job = job, !.artifact = artifact,
                         !.failed = failed]
  <2>1. ASSUME NEW job \in BOOLEAN, NEW artifact \in BOOLEAN, NEW failed \in BOOLEAN,
               slots' = [slots EXCEPT ![s] = Form(job, artifact, failed)]
        PROVE  \E slot \in Steps : Decided(slot)
    <3>1. Form(job, artifact, failed) \in Steps
      BY <1>1 DEF Steps, SlotSteps
    <3>2. Decided(Form(job, artifact, failed))
      BY <1>1, <2>1 DEF Steps
    <3> QED BY <3>1, <3>2
  <2>2. /\ slots[s].job \in BOOLEAN /\ slots[s].artifact \in BOOLEAN
        /\ slots[s].failed \in BOOLEAN
    BY <1>1 DEF Steps
  <2>3. DOMAIN slots = Slots /\ slots = [q \in Slots |-> slots[q]]
    BY DEF IInv, TypeOK
  <2>4. CASE Apply(s, to)
    <3>1. slots' = [slots EXCEPT ![s] = Form(slots[s].job, slots[s].artifact, slots[s].failed)]
      BY <1>1, <2>3, <2>4 DEF Apply, Steps
    <3> QED BY <3>1, <2>1, <2>2
  <2>5. CASE slots' = [slots EXCEPT ![s].step = "apply", ![s].to = to, ![s].job = TRUE]
    <3>1. [[[slots[s] EXCEPT !.step = "apply"] EXCEPT !.to = to] EXCEPT !.job = TRUE] =
            Form(TRUE, slots[s].artifact, slots[s].failed)
      BY <1>1 DEF Steps
    <3>2. slots' = [slots EXCEPT ![s] =
            [[[slots[s] EXCEPT !.step = "apply"] EXCEPT !.to = to] EXCEPT !.job = TRUE]]
      BY <2>3, <2>5
    <3>3. slots' = [slots EXCEPT ![s] = Form(TRUE, slots[s].artifact, slots[s].failed)]
      BY <3>1, <3>2
    <3> QED BY <3>3, <2>1, <2>2
  <2>6. CASE slots' = [slots EXCEPT ![s].step = "apply", ![s].to = to, ![s].failed = TRUE]
    <3>1. [[[slots[s] EXCEPT !.step = "apply"] EXCEPT !.to = to] EXCEPT !.failed = TRUE] =
            Form(slots[s].job, slots[s].artifact, TRUE)
      BY <1>1 DEF Steps
    <3>2. slots' = [slots EXCEPT ![s] =
            [[[slots[s] EXCEPT !.step = "apply"] EXCEPT !.to = to] EXCEPT !.failed = TRUE]]
      BY <2>3, <2>6
    <3>3. slots' = [slots EXCEPT ![s] = Form(slots[s].job, slots[s].artifact, TRUE)]
      BY <3>1, <3>2
    <3> QED BY <3>3, <2>1, <2>2
  <2>7. ASSUME NEW artifact \in BOOLEAN,
               slots' = [slots EXCEPT ![s].step = "apply", ![s].to = to, ![s].artifact = artifact]
        PROVE  \E slot \in Steps : Decided(slot)
    <3>1. [[[slots[s] EXCEPT !.step = "apply"] EXCEPT !.to = to] EXCEPT !.artifact = artifact] =
            Form(slots[s].job, artifact, slots[s].failed)
      BY <1>1 DEF Steps
    <3>2. slots' = [slots EXCEPT ![s] =
            [[[slots[s] EXCEPT !.step = "apply"] EXCEPT !.to = to] EXCEPT !.artifact = artifact]]
      BY <2>3, <2>7
    <3>3. slots' = [slots EXCEPT ![s] = Form(slots[s].job, artifact, slots[s].failed)]
      BY <3>1, <3>2
    <3> QED BY <3>3, <2>1, <2>2
  <2> QED BY <2>4, <2>5, <2>6, <2>7
<1>3. slots[s].seen.status \in AtProvider => jobs'[slots[s].item] \in JobStates
  BY <1>1 DEF IInv, SlotInv
<1>4. slot.step \notin {"work", "store"} /\ slot \in {Idle} \cup {Releasing(i) : i \in Items} \cup Steps
  BY <1>2
<1>5. UNCHANGED bounds /\ UNCHANGED <<task, items, attempts, objects, events>>
  OBVIOUS
<1> QED BY <1>1, <1>2, <1>3, <1>4, <1>5, SlotMoves

-----------------------------------------------------------------------------
(* submit, reconcile, poll and cancel *)

LEMMA AsBefore ==
    ASSUME IInv, UNCHANGED jobs
    PROVE  jobs' \in JobsKnown /\ \A i \in Items : jobs[i] \in JobStates => jobs'[i] \in JobStates
BY DEF IInv, TypeOK, JobsKnown

LEMMA PostsAsBefore == IInv /\ UNCHANGED posts => posts' \in [Items -> 0 .. 2]
BY DEF IInv, TypeOK

LEMMA AtWork ==
    ASSUME IInv, NEW s \in Slots, slots[s].step \in SlotSteps
    PROVE  /\ slots[s] \in Steps /\ slots[s].item \in Items
           /\ slots[s].seen.status \in Statuses
           /\ slots[s].seen.status \in AtProvider => jobs[slots[s].item] \in JobStates
<1>1. slots[s] \in Steps /\ slots[s].item \in Items
  BY SlotForms DEF IInv
<1> QED BY <1>1 DEF Steps, IInv, SlotInv

(* A job that was answered for is queued with the provider, or has failed. *)
LEMMA ApplyJobKeeps ==
    ASSUME IInv, NEW s \in Slots, slots[s].step \in SlotSteps,
           NEW answer \in JobStates, Post(slots[s].item, answer), ApplyJob(s, answer),
           UNCHANGED <<task, items, attempts, objects, events, bounds>>
    PROVE  IInv'
<1>1. /\ jobs' \in JobsKnown /\ posts' \in [Items -> 0 .. 2]
      /\ \A j \in Items : jobs[j] \in JobStates => jobs'[j] \in JobStates
      /\ jobs'[slots[s].item] \in JobStates
  BY AtWork, PostFacts
<1>2. "provider_queued" \in Statuses /\ "failed" \in Statuses
  BY DEF Statuses, Terminal
<1>3. CASE slots' = [slots EXCEPT ![s].step = "apply", ![s].to = "provider_queued", ![s].job = TRUE]
  BY <1>1, <1>2, <1>3, Decides
<1>4. CASE Apply(s, "failed")
  BY <1>1, <1>2, <1>4, Decides
<1> QED BY <1>3, <1>4 DEF ApplyJob

LEMMA SubmitKeeps ==
    ASSUME IInv, NEW s \in Slots, SubmitAnswered(s) \/ SubmitFails(s)
    PROVE  IInv'
<1>1. slots[s].step = "submit"
      /\ UNCHANGED <<task, items, attempts, objects, events, bounds>>
  BY DEF SubmitAnswered, SubmitFails
<1>2. slots[s].step \in SlotSteps
  BY <1>1 DEF SlotSteps
<1>3. /\ "failed" \in Statuses \ AtProvider
      /\ "reconciling" \in Statuses \ AtProvider
  BY DEF Statuses, Terminal, AtProvider
<1>4. CASE SubmitAnswered(s)
  <2>1. PICK answer \in JobStates \cup {"refused"} :
          /\ Post(slots[s].item, answer)
          /\ IF answer = "refused" THEN Apply(s, "failed") ELSE ApplyJob(s, answer)
    BY <1>4 DEF SubmitAnswered
  <2>2. CASE answer = "refused"
    BY <1>1, <1>2, <1>3, <2>1, <2>2, AtWork, PostFacts, Decides
  <2>3. CASE answer # "refused"
    BY <1>1, <1>2, <2>1, <2>3, ApplyJobKeeps
  <2> QED BY <2>2, <2>3
<1>5. CASE SubmitFails(s)
  <2>1. CASE UNCHANGED provider /\ (Apply(s, "failed") \/ Apply(s, "reconciling"))
    <3>1. UNCHANGED jobs /\ UNCHANGED posts
      BY <2>1 DEF provider
    <3> QED BY <1>1, <1>2, <1>3, <2>1, <3>1, AsBefore, PostsAsBefore, Decides
  <2>2. CASE Apply(s, "reconciling") /\ \E answer \in JobStates \cup {"refused"} : Post(slots[s].item, answer)
    BY <1>1, <1>2, <1>3, <2>2, AtWork, PostFacts, Decides
  <2> QED BY <1>5, <2>1, <2>2 DEF SubmitFails
<1> QED BY <1>4, <1>5

(* What is tried again later is put back as it was seen.                   *)
LEMMA ScheduleKeeps ==
    ASSUME IInv, NEW s \in Slots, slots[s].step \in SlotSteps, Schedule(s),
           slots[s].seen.status # "succeeded",
           UNCHANGED provider
             \/ \E answer \in JobStates \cup {"refused"} : Post(slots[s].item, answer),
           UNCHANGED <<task, items, attempts, objects, events, bounds>>
    PROVE  IInv'
<1>1. /\ jobs' \in JobsKnown /\ posts' \in [Items -> 0 .. 2]
      /\ \A j \in Items : jobs[j] \in JobStates => jobs'[j] \in JobStates
  BY AtWork, AsBefore, PostsAsBefore, PostFacts DEF provider
<1>2. Apply(s, slots[s].seen.status)
  BY DEF Schedule
<1> QED BY <1>1, <1>2, AtWork, Decides

LEMMA ReconcileKeeps ==
    ASSUME IInv, NEW s \in Slots, ReconcileAnswered(s) \/ ReconcileFails(s)
    PROVE  IInv'
<1>1. /\ slots[s].step \in SlotSteps /\ slots[s].seen.status # "succeeded"
      /\ UNCHANGED <<task, items, attempts, objects, events, bounds>>
  BY DEF ReconcileAnswered, ReconcileFails, Sees, SlotSteps
<1>2. CASE ReconcileAnswered(s)
  <2>1. PICK answer \in JobStates \cup {"refused"} :
          /\ Post(slots[s].item, answer)
          /\ IF answer = "refused" THEN Schedule(s) ELSE ApplyJob(s, answer)
    BY <1>2 DEF ReconcileAnswered
  <2>2. CASE answer = "refused"
    BY <1>1, <2>1, <2>2, ScheduleKeeps
  <2>3. CASE answer # "refused"
    BY <1>1, <2>1, <2>3, ApplyJobKeeps
  <2> QED BY <2>2, <2>3
<1>3. CASE ReconcileFails(s)
  BY <1>1, <1>3, ScheduleKeeps DEF ReconcileFails
<1> QED BY <1>2, <1>3

(* What a job's state makes of an item that a slot has asked about.        *)
LEMMA ApplyStatusKeeps ==
    ASSUME IInv, NEW s \in Slots, slots[s].step \in SlotSteps,
           jobs[slots[s].item] \in JobStates, ApplyStatus(s, jobs[slots[s].item]),
           UNCHANGED <<task, items, attempts, objects, provider, events, bounds>>
    PROVE  IInv'
<1> DEFINE state == jobs[slots[s].item]
           known == state = "queued" /\ slots[s].seen.status = "provider_running"
<1>1. UNCHANGED jobs /\ UNCHANGED posts
  BY DEF provider
<1>2. CASE known
  BY <1>2, ScheduleKeeps DEF ApplyStatus
<1>3. CASE ~known
  <2>1. slots' = [slots EXCEPT ![s].step = "apply", ![s].to = StatusOf(state),
                               ![s].artifact = (state = "succeeded")]
    BY <1>3 DEF ApplyStatus
  <2>2. \E artifact \in BOOLEAN :
          slots' = [slots EXCEPT ![s].step = "apply", ![s].to = StatusOf(state), ![s].artifact = artifact]
    <3>1. (state = "succeeded") \in BOOLEAN
      OBVIOUS
    <3> HIDE DEF state
    <3> QED BY <2>1, <3>1
  <2>3. StatusOf(state) \in Statuses /\ StatusOf(state) # "succeeded"
    BY StatusOfType
  <2> QED BY <1>1, <2>2, <2>3, AsBefore, PostsAsBefore, Decides
<1> QED BY <1>2, <1>3

LEMMA PollKeeps ==
    ASSUME IInv, NEW s \in Slots, PollAnswered(s) \/ PollFails(s)
    PROVE  IInv'
<1>1. /\ slots[s].step \in SlotSteps /\ slots[s].seen.status \in AtProvider
      /\ UNCHANGED <<task, items, attempts, objects, provider, events, bounds>>
  BY DEF PollAnswered, PollFails, Sees, SlotSteps, AtProvider
<1>2. jobs[slots[s].item] \in JobStates
  BY <1>1, AtWork
<1>3. CASE PollAnswered(s)
  BY <1>1, <1>2, <1>3, ApplyStatusKeeps DEF PollAnswered
<1>4. CASE PollFails(s)
  BY <1>1, <1>4, ScheduleKeeps DEF PollFails, AtProvider
<1> QED BY <1>3, <1>4

LEMMA CancelKeeps ==
    ASSUME IInv, NEW s \in Slots, CancelAnswered(s) \/ CancelDeclined(s)
    PROVE  IInv'
<1> DEFINE i == slots[s].item
<1>1. /\ slots[s].step \in SlotSteps /\ slots[s].seen.status # "succeeded"
      /\ UNCHANGED <<task, items, attempts, objects, events, bounds>> /\ UNCHANGED posts
  BY DEF CancelAnswered, CancelDeclined, Sees, SlotSteps, provider
<1>2. CASE CancelDeclined(s)
  BY <1>1, <1>2, ScheduleKeeps DEF CancelDeclined
<1>3. CASE CancelAnswered(s) /\ Apply(s, "cancelled")
  <2>1. jobs' \in {jobs, [jobs EXCEPT ![i] = "cancelled"]}
    BY <1>3 DEF CancelAnswered
  <2>2. jobs' \in JobsKnown /\ \A j \in Items : jobs[j] \in JobStates => jobs'[j] \in JobStates
    BY <2>1, <1>1, AtWork DEF IInv, TypeOK, JobsKnown, JobStates
  <2>3. "cancelled" \in Statuses \ AtProvider
    BY DEF Statuses, Terminal, AtProvider
  <2> QED BY <1>1, <1>3, <2>2, <2>3, PostsAsBefore, Decides
<1>4. CASE CancelAnswered(s) /\ ~Apply(s, "cancelled")
  <2>1. /\ jobs[i] \in {"succeeded", "empty"} /\ ApplyStatus(s, jobs[i]) /\ UNCHANGED jobs
    BY <1>4 DEF CancelAnswered
  <2>2. jobs[i] \in JobStates
    BY <2>1 DEF JobStates
  <2> QED BY <1>1, <2>1, <2>2, ApplyStatusKeeps DEF provider
<1> QED BY <1>2, <1>3, <1>4

-----------------------------------------------------------------------------
(* The other steps of a slot that leave the items alone, and the provider  *)

LEMMA PersistFailsKeeps ==
    ASSUME IInv, NEW s \in Slots, PersistFails(s)
    PROVE  IInv'
<1>1. /\ slots[s].step \in SlotSteps
      /\ UNCHANGED <<task, items, attempts, objects, events, bounds>>
      /\ UNCHANGED jobs /\ UNCHANGED posts
  BY DEF PersistFails, Sees, SlotSteps, provider
<1>2. PICK to \in {"recovery_required", "failed"} :
        slots' = [slots EXCEPT ![s].step = "apply", ![s].to = to, ![s].failed = TRUE]
  <2>1. slots' = [slots EXCEPT ![s].step = "apply", ![s].failed = TRUE,
                    ![s].to = IF slots[s].seen.tries + 1 < MaxArtifactAttempts
                              THEN "recovery_required" ELSE "failed"]
    BY DEF PersistFails
  <2> DEFINE to == IF slots[s].seen.tries + 1 < MaxArtifactAttempts
                   THEN "recovery_required" ELSE "failed"
  <2>2. to \in {"recovery_required", "failed"}
    OBVIOUS
  <2>3. slots[s] \in Steps /\ slots = [q \in Slots |-> slots[q]]
    BY <1>1, AtWork DEF IInv, TypeOK
  <2> HIDE DEF to
  <2>4. slots' = [slots EXCEPT ![s].step = "apply", ![s].to = to, ![s].failed = TRUE]
    BY <2>1, <2>3 DEF Steps, to
  <2> QED BY <2>2, <2>4
<1>3. to \in Statuses \ AtProvider
  BY DEF Statuses, Terminal, AtProvider
<1> QED BY <1>1, <1>2, <1>3, AsBefore, PostsAsBefore, Decides

LEMMA LoadSettlementKeeps ==
    ASSUME IInv, NEW s \in Slots, LoadSettlement(s)
    PROVE  IInv'
<1>1. /\ slots[s].step \in SlotSteps /\ slots[s] # Idle
      /\ UNCHANGED <<task, items, attempts, objects, events>> /\ UNCHANGED bounds
      /\ UNCHANGED jobs /\ UNCHANGED posts
  BY DEF LoadSettlement, SlotSteps, provider, Idle
<1>2. /\ jobs' \in JobsKnown /\ posts' \in [Items -> 0 .. 2]
      /\ \A i \in Items : jobs[i] \in JobStates => jobs'[i] \in JobStates
  BY <1>1, AsBefore, PostsAsBefore
<1>3. CASE ThenRelease(s)
  <2>1. Releasing(slots[s].item).step = "release" /\ "release" \notin SlotSteps
    BY DEF Releasing, SlotSteps
  <2>2. Releasing(slots[s].item) \in {Releasing(i) : i \in Items}
    BY <1>1, AtWork
  <2> QED BY <1>1, <1>2, <1>3, <2>1, <2>2, SlotMoves DEF ThenRelease
<1>4. CASE ~ThenRelease(s)
  <2> DEFINE slot == [slots[s] EXCEPT !.step = "settle", !.charge = Charge(items)]
  <2>1. slots[s] \in Steps /\ slots = [q \in Slots |-> slots[q]]
    BY <1>1, AtWork DEF IInv, TypeOK
  <2>2. slots' = [slots EXCEPT ![s].step = "settle", ![s].charge = Charge(items)]
    BY <1>4 DEF LoadSettlement
  <2>3. Charge(items) \in Nat
    BY PointsAreNat
  <2>4. slots' = [slots EXCEPT ![s] = slot]
    BY <2>1, <2>2 DEF Steps
  <2>5. slot \in Steps /\ slot.step = "settle" /\ slot.item = slots[s].item
        /\ slot.seen = slots[s].seen /\ slot.to = slots[s].to
    BY <2>1, <2>3 DEF Steps, SlotSteps
  <2>6. SlotInv(s)
    BY DEF IInv
  <2> HIDE DEF slot
  <2> QED BY <1>1, <1>2, <2>4, <2>5, <2>6, SlotMoves DEF SlotInv
<1> QED BY <1>3, <1>4

LEMMA DieKeeps ==
    ASSUME IInv, NEW s \in Slots, Die(s)
    PROVE  IInv'
<1>1. Idle.step \notin SlotSteps \cup {"work", "store"}
  BY DEF Idle, SlotSteps
<1> QED BY <1>1, AsBefore, PostsAsBefore, SlotMoves DEF Die, provider

LEMMA ProviderKeeps ==
    ASSUME IInv, NEW i \in Items, JobRuns(i) \/ Callback(i)
    PROVE  IInv'
<1>1. UNCHANGED <<task, items, attempts, slots, objects, posts>>
  BY DEF JobRuns, Callback, provider
<1>2. /\ jobs' \in JobsKnown /\ \A j \in Items : jobs[j] \in JobStates => jobs'[j] \in JobStates
  BY DEF JobRuns, Callback, provider, IInv, TypeOK, JobsKnown, JobStates
<1>3. /\ events' \in [Items -> JobStates \cup {NoEvent}]
      /\ \A j \in Items : events'[j] # NoEvent => events[j] # NoEvent \/ jobs[j] \in JobStates
  BY DEF JobRuns, Callback, Told, IInv, TypeOK, JobStates, NoEvent
<1>4. bounds' \in [faults : 0 .. MaxFaults, callbacks : 0 .. MaxCallbacks, retries : 0 .. MaxRetries]
  BY VideoAssumption DEF JobRuns, Callback, IInv, TypeOK
<1>5. TypeOK'
  BY <1>1, <1>2, <1>3, <1>4 DEF IInv, TypeOK, JobsKnown, task
<1>6. PointsInv'
  BY <1>1, PointsKept
<1>7. \A j \in Items : ItemInv(j)'
  BY <1>1, <1>2, <1>3 DEF IInv, ItemInv
<1>8. ASSUME NEW s \in Slots PROVE SlotInv(s)'
  <2>1. slots[s].step \in SlotSteps => slots[s].item \in Items
    BY AtWork
  <2> QED BY <1>1, <1>2, <2>1 DEF IInv, SlotInv
<1> QED BY <1>5, <1>6, <1>7, <1>8 DEF IInv

-----------------------------------------------------------------------------
(* Steps that change rows and no slot: cancellations, recoveries, lapses   *)

(* A row that is not queued again, not said to be with the provider unless *)
(* it is, and not made a success.                                          *)
RowMoves(i) ==
    /\ items'[i].status = "queued" => items[i].status = "queued"
    /\ items'[i].status \in AtProvider => jobs[i] \in JobStates
    /\ items'[i].status = "succeeded" =>
           items[i].status = "succeeded" /\ items'[i].asset = items[i].asset

LEMMA RowsMove ==
    ASSUME IInv, items' \in [Items -> Rows], \A i \in Items : RowMoves(i),
           UNCHANGED <<created, attempts, slots, objects, provider, events>>,
           finalized' \in BOOLEAN, PointsInv',
           bounds' \in [faults : 0 .. MaxFaults, callbacks : 0 .. MaxCallbacks,
                        retries : 0 .. MaxRetries]
    PROVE  IInv'
<1>1. TypeOK'
  BY DEF IInv, TypeOK, provider
<1>2. \A i \in Items : ItemInv(i)'
  BY DEF IInv, ItemInv, RowMoves, provider
<1>3. \A s \in Slots : SlotInv(s)'
  BY DEF IInv, SlotInv, provider
<1> QED BY <1>1, <1>2, <1>3 DEF IInv

(* Settling a task once more changes nothing; the first time, the charge   *)
(* and what is given back make up the reservation.                         *)
LEMMA FinalizePoints ==
    ASSUME IInv, NEW charge \in Nat, created, UNCHANGED created, Finalize(charge)
    PROVE  PointsInv' /\ finalized' \in BOOLEAN
<1>1. CASE finalized
  <2>1. UNCHANGED task
    BY <1>1 DEF Finalize, task
  <2> QED BY <2>1, PointsKept DEF task, IInv, TypeOK
<1>2. CASE ~finalized
  <2>1. finalized' /\ Wallet!Settle(Task, charge)
    BY <1>2 DEF Finalize
  <2>2. /\ held \in [{Task} -> Int] /\ charged \in [{Task} -> Int] /\ returned \in [{Task} -> Int]
        /\ held[Task] = Reserved /\ charged[Task] = 0 /\ returned[Task] = 0
    BY <1>2 DEF IInv, PointsInv
  <2>3. Reserved \in Nat /\ Reserved' = Reserved
    BY PointsAreNat DEF Reserved
  <2>4. /\ held' = [held EXCEPT ![Task] = -1]
        /\ charged' = [charged EXCEPT ![Task] = @ + charge]
        /\ returned' = [returned EXCEPT ![Task] = @ + (held[Task] - charge)]
    BY <2>1 DEF Wallet!Settle, Wallet!Nothing
  <2>5. /\ held' \in [{Task} -> Int] /\ charged' \in [{Task} -> Int] /\ returned' \in [{Task} -> Int]
        /\ held'[Task] = -1 /\ charged'[Task] + returned'[Task] = Reserved
    BY <2>2, <2>3, <2>4
  <2>6. finalized' = TRUE
    BY <1>2 DEF Finalize
  <2> QED BY <2>3, <2>5, <2>6 DEF PointsInv, SettledOnce, Wallet!Nothing
<1> QED BY <1>1, <1>2

LEMMA RequestCancelKeeps ==
    ASSUME IInv, RequestCancel
    PROVE  IInv'
<1>1. /\ items' = [i \in Items |-> CancelledRow(i)]
      /\ created /\ UNCHANGED <<created, attempts, slots, objects, provider, events, bounds>>
  BY DEF RequestCancel
<1>2. ASSUME NEW i \in Items PROVE CancelledRow(i) \in Rows /\ RowMoves(i)
  <2>1. items[i] \in Rows /\ items[i].status \in Statuses /\ items'[i] = CancelledRow(i)
    BY <1>1 DEF IInv, TypeOK, Rows
  <2>2. "cancel_requested" \in Statuses /\ "cancelled" \in Statuses
    BY DEF Statuses, Terminal
  <2> DEFINE asked == Advanced(items[i], "cancel_requested")
  <2>3. asked \in Rows /\ asked.status = "cancel_requested"
    BY <2>1, <2>2, RowType
  <2>4. /\ Released(Advanced(asked, "cancelled")) \in Rows
        /\ Released(Advanced(asked, "cancelled")).status = "cancelled"
    <3> HIDE DEF asked
    <3>1. Advanced(asked, "cancelled") \in Rows /\ Advanced(asked, "cancelled").status = "cancelled"
      BY <2>2, <2>3, RowType
    <3> QED BY <3>1, <2>2, RowType
  <2>5. CancelledRow(i) \in {items[i], asked, Released(Advanced(asked, "cancelled"))}
    BY DEF CancelledRow
  <2>6. CASE CancelledRow(i) = items[i]
    BY <2>1, <2>6 DEF RowMoves, IInv, ItemInv
  <2>7. CASE CancelledRow(i) # items[i]
    <3>1. CancelledRow(i).status \in {"cancel_requested", "cancelled"} /\ CancelledRow(i) \in Rows
      BY <2>3, <2>4, <2>5, <2>7
    <3> QED BY <3>1, <2>1 DEF RowMoves, AtProvider
  <2> QED BY <2>6, <2>7
<1>3. PointsInv' /\ finalized' \in BOOLEAN
  <2>1. CASE UNCHANGED <<finalized, billing>>
    <3>1. UNCHANGED task
      BY <1>1, <2>1 DEF task
    <3> QED BY <1>1, <2>1, <3>1, PointsKept DEF IInv, TypeOK
  <2>2. ASSUME NEW rows, Finalize(Charge(rows)) PROVE PointsInv' /\ finalized' \in BOOLEAN
    BY <1>1, <2>2, PointsAreNat, FinalizePoints
  <2> QED BY <2>1, <2>2 DEF RequestCancel
<1>4. items' \in [Items -> Rows]
  BY <1>1, <1>2
<1>5. bounds' \in [faults : 0 .. MaxFaults, callbacks : 0 .. MaxCallbacks, retries : 0 .. MaxRetries]
  BY <1>1 DEF IInv, TypeOK
<1> QED BY <1>1, <1>2, <1>3, <1>4, <1>5, RowsMove

LEMMA AdministratorKeeps ==
    ASSUME IInv, RetryArtifact \/ RetrySettlement
    PROVE  IInv'
<1>1. /\ UNCHANGED <<task, attempts, slots, objects, provider, events>>
      /\ bounds' = [bounds EXCEPT !.retries = @ + 1] /\ bounds.retries < MaxRetries
  BY DEF RetryArtifact, RetrySettlement
<1>2. items' \in [Items -> Rows] /\ \A i \in Items : RowMoves(i)
  <2>1. CASE RetryArtifact
    <3>1. PICK chosen \in {{i} : i \in Retryable} \cup {Retryable} :
            items' = [i \in Items |-> IF i \in chosen
                        THEN [Released(items[i]) EXCEPT !.status = "artifact_pending"]
                        ELSE items[i]]
      BY <2>1 DEF RetryArtifact
    <3>2. ASSUME NEW i \in Items PROVE items'[i] \in Rows /\ RowMoves(i)
      <4>1. items[i] \in Rows /\ items[i].status \in Statuses
        BY DEF IInv, TypeOK, Rows
      <4>2. CASE i \in chosen
        <5>1. Released(items[i]) \in Rows
          BY <4>1, RowType
        <5>2. [Released(items[i]) EXCEPT !.status = "artifact_pending"] \in Rows
          BY <5>1 DEF Rows, Statuses
        <5>3. [Released(items[i]) EXCEPT !.status = "artifact_pending"].status = "artifact_pending"
          BY <5>1 DEF Rows
        <5> QED BY <3>1, <4>2, <5>2, <5>3 DEF RowMoves, AtProvider
      <4>3. CASE i \notin chosen
        BY <3>1, <4>1, <4>3 DEF RowMoves, IInv, ItemInv
      <4> QED BY <4>2, <4>3
    <3>3. items' = [i \in Items |-> items'[i]]
      BY <3>1
    <3> QED BY <3>2, <3>3
  <2>2. CASE RetrySettlement
    <3>1. items' = [i \in Items |-> Released(items[i])]
      BY <2>2 DEF RetrySettlement
    <3>2. ASSUME NEW i \in Items PROVE Released(items[i]) \in Rows /\ RowMoves(i)
      <4>1. items[i] \in Rows
        BY DEF IInv, TypeOK
      <4>2. items[i].status \in Statuses
        BY <4>1 DEF Rows
      <4>3. /\ Released(items[i]) \in Rows /\ Released(items[i]).status = items[i].status
            /\ Released(items[i]).asset = items[i].asset
        BY <4>1, <4>2, RowType
      <4> QED BY <3>1, <4>3 DEF RowMoves, IInv, ItemInv
    <3> QED BY <3>1, <3>2
  <2> QED BY <2>1, <2>2
<1>3. PointsInv'
  BY <1>1, PointsKept
<1>4. bounds' \in [faults : 0 .. MaxFaults, callbacks : 0 .. MaxCallbacks, retries : 0 .. MaxRetries]
  BY <1>1, VideoAssumption DEF IInv, TypeOK
<1>5. finalized' \in BOOLEAN /\ UNCHANGED created
  BY <1>1 DEF IInv, TypeOK, task
<1> QED BY <1>1, <1>2, <1>3, <1>4, <1>5, RowsMove

LEMMA LapseKeeps ==
    ASSUME IInv, NEW j \in Items, Lapse(j)
    PROVE  IInv'
<1>1. /\ items' = [items EXCEPT ![j].fresh = FALSE]
      /\ UNCHANGED <<task, attempts, slots, objects, provider, events>>
  BY DEF Lapse
<1>2. items' \in [Items -> Rows] /\ \A i \in Items : RowMoves(i)
  <2> DEFINE row == [items[j] EXCEPT !.fresh = FALSE]
  <2>1. items[j] \in Rows
    BY DEF IInv, TypeOK
  <2>2. row \in Rows /\ row.status = items[j].status /\ row.asset = items[j].asset
    BY <2>1 DEF Rows
  <2>3. items' = [items EXCEPT ![j] = row]
    BY <1>1
  <2> HIDE DEF row
  <2>4. items' \in [Items -> Rows]
    BY <2>2, <2>3 DEF IInv, TypeOK
  <2>5. ASSUME NEW i \in Items
        PROVE  items'[i].status = items[i].status /\ items'[i].asset = items[i].asset
    BY <2>2, <2>3 DEF IInv, TypeOK
  <2> QED BY <2>4, <2>5 DEF IInv, ItemInv, RowMoves
<1>3. PointsInv'
  BY <1>1, PointsKept
<1>4. bounds' \in [faults : 0 .. MaxFaults, callbacks : 0 .. MaxCallbacks, retries : 0 .. MaxRetries]
  <2>1. \/ bounds' = bounds
        \/ bounds' = [bounds EXCEPT !.faults = @ + 1] /\ bounds.faults < MaxFaults
    BY DEF Lapse, IInv, TypeOK
  <2> QED BY <2>1, VideoAssumption DEF IInv, TypeOK
<1>5. finalized' \in BOOLEAN /\ UNCHANGED created
  BY <1>1 DEF IInv, TypeOK, task
<1> QED BY <1>1, <1>2, <1>3, <1>4, <1>5, RowsMove

-----------------------------------------------------------------------------
(* Steps that change the item a slot works on *)

(* The row of one item moves, its slot lets go of it or goes on with it.   *)
LEMMA ItemMoves ==
    ASSUME IInv, NEW s \in Slots, slots[s] # Idle, NEW i \in Items,
           NEW row \in Rows, items' = [items EXCEPT ![i] = row] \/ UNCHANGED items,
           items' = [items EXCEPT ![i] = row] => RowMoves(i),
           NEW slot \in {Idle} \cup {Releasing(j) : j \in Items} \cup Steps,
           slots' = [slots EXCEPT ![s] = slot],
           slot.step \in SlotSteps =>
               /\ slot.step = "submit" /\ slot.seen.status \notin AtProvider
               /\ slot.to \in AtProvider => jobs[slot.item] \in JobStates,
           UNCHANGED <<task, objects, provider, events, bounds>>,
           attempts' \in [Items -> Nat],
           \A j \in Items : attempts'[j] <= 1 /\ (items'[j].status = "queued" => attempts'[j] = 0)
    PROVE  IInv'
<1>1. created
  BY DEF IInv, PointsInv, TypeOK
<1>2. PointsInv'
  BY <1>1, PointsKept
<1>3. TypeOK'
  <2>1. items' \in [Items -> Rows]
    BY DEF IInv, TypeOK
  <2> QED BY <2>1 DEF IInv, TypeOK, task, provider
<1>4. slots'[s] = slot /\ \A q \in Slots \ {s} : slots'[q] = slots[q]
  BY DEF IInv, TypeOK
<1>5. ASSUME NEW j \in Items PROVE RowMoves(j)
  <2>1. CASE items'[j] = items[j]
    BY <2>1 DEF RowMoves, IInv, ItemInv
  <2> QED BY <2>1 DEF IInv, TypeOK
<1>6. ASSUME NEW j \in Items PROVE ItemInv(j)'
  <2>1. /\ items'[j].status \in AtProvider => jobs[j] \in JobStates
        /\ events[j] # NoEvent => jobs[j] \in JobStates
        /\ UNCHANGED jobs /\ UNCHANGED events /\ UNCHANGED objects
    BY <1>5 DEF RowMoves, IInv, ItemInv, provider
  <2>2. ASSUME items'[j].status = "succeeded"
        PROVE  /\ items'[j].asset \in Slots
               /\ <<j, items'[j].asset>> \in objects
               /\ Apart(slots'[items'[j].asset], j)
    <3>1. items[j].status = "succeeded" /\ items'[j].asset = items[j].asset
      BY <1>5, <2>2 DEF RowMoves
    <3>2. /\ items[j].asset \in Slots /\ <<j, items[j].asset>> \in objects
          /\ Apart(slots[items[j].asset], j)
      BY <3>1 DEF IInv, ItemInv
    <3>3. Apart(slot, j)
      BY DEF Apart
    <3> QED BY <3>1, <3>2, <3>3, <1>4
  <2> QED BY <2>1, <2>2 DEF ItemInv
<1>7. ASSUME NEW q \in Slots PROVE SlotInv(q)'
  <2>1. CASE q = s
    BY <1>4, <2>1 DEF SlotInv, provider
  <2>2. CASE q # s
    BY <1>4, <2>2 DEF SlotInv, IInv, provider
  <2> QED BY <2>1, <2>2
<1> QED BY <1>2, <1>3, <1>6, <1>7 DEF IInv

(* A slot that lets go of its item.                                        *)
LEMMA ReleaseForm ==
    ASSUME NEW i \in Items
    PROVE  /\ Releasing(i) \in {Releasing(j) : j \in Items}
           /\ Releasing(i).step = "release" /\ "release" \notin SlotSteps
BY DEF Releasing, SlotSteps

LEMMA AttemptsKept ==
    ASSUME IInv, UNCHANGED attempts, \A i \in Items : items'[i].status = "queued" => items[i].status = "queued"
    PROVE  /\ attempts' \in [Items -> Nat]
           /\ \A i \in Items : attempts'[i] <= 1 /\ (items'[i].status = "queued" => attempts'[i] = 0)
BY DEF IInv, TypeOK, ItemInv

LEMMA PrepareKeeps ==
    ASSUME IInv, NEW s \in Slots, Prepare(s)
    PROVE  IInv'
<1> DEFINE i == slots[s].item
           row == [items[i] EXCEPT !.status = "submitting", !.version = @ + 1]
           slot == [slots[s] EXCEPT !.step = "submit", !.seen = Seen(row)]
<1>1. /\ slots[s].step \in SlotSteps /\ slots[s] # Idle
      /\ UNCHANGED <<task, objects, provider, events, bounds>>
  BY DEF Prepare, Sees, SlotSteps, Idle
<1>2. slots[s] \in Steps /\ i \in Items /\ slots = [q \in Slots |-> slots[q]]
  BY <1>1, AtWork DEF IInv, TypeOK
<1>3. items[i] \in Rows
  BY <1>2 DEF IInv, TypeOK
<1>4. row \in Rows /\ row.status = "submitting"
  <2>1. items[i].version + 1 \in Nat /\ "submitting" \in Statuses
    BY <1>3 DEF Rows, Statuses
  <2> QED BY <1>3, <2>1 DEF Rows
<1>5. CASE ~MayPrepare(s)
  <2>1. slots' = [slots EXCEPT ![s] = Releasing(i)] /\ UNCHANGED items /\ UNCHANGED attempts
    BY <1>5 DEF Prepare, ThenRelease
  <2>2. /\ attempts' \in [Items -> Nat]
        /\ \A j \in Items : attempts'[j] <= 1 /\ (items'[j].status = "queued" => attempts'[j] = 0)
    BY <2>1, AttemptsKept
  <2>3. items' = [items EXCEPT ![i] = items[i]]
    BY <2>1 DEF IInv, TypeOK
  <2>4. RowMoves(i)
    BY <1>2, <2>1 DEF RowMoves, IInv, ItemInv
  <2> QED BY <1>1, <1>2, <1>3, <2>1, <2>2, <2>3, <2>4, ReleaseForm, ItemMoves
<1>6. CASE MayPrepare(s)
  <2>1. /\ items' = [items EXCEPT ![i] = row]
        /\ attempts' = [attempts EXCEPT ![i] = @ + 1]
        /\ slots' = [slots EXCEPT ![s].step = "submit", ![s].seen = Seen(row)]
        /\ items[i].status = "queued"
    BY <1>6 DEF Prepare, MayPrepare
  <2> HIDE DEF row
  <2>2. /\ Seen(row) \in [status: Statuses, version: Nat, job: BOOLEAN, tries: Nat]
        /\ Seen(row).status = "submitting"
    BY <1>4 DEF Seen, Rows
  <2>3. slots' = [slots EXCEPT ![s] = slot]
    BY <1>2, <2>1 DEF Steps
  <2>4. /\ slot \in Steps /\ slot.step = "submit" /\ slot.item = i
        /\ slot.to = slots[s].to /\ slot.seen = Seen(row)
    BY <1>2, <2>2 DEF Steps, SlotSteps
  <2>5. slots[s].to \in AtProvider => jobs[i] \in JobStates
    BY <1>1 DEF IInv, SlotInv
  <2>6. RowMoves(i)
    BY <1>2, <1>4, <2>1 DEF RowMoves, IInv, TypeOK, AtProvider
  <2>7. /\ attempts' \in [Items -> Nat]
        /\ \A j \in Items : attempts'[j] <= 1 /\ (items'[j].status = "queued" => attempts'[j] = 0)
    <3>1. attempts \in [Items -> Nat] /\ attempts[i] = 0 /\ items \in [Items -> Rows]
      BY <1>2, <2>1 DEF IInv, TypeOK, ItemInv
    <3>2. ASSUME NEW j \in Items
          PROVE  attempts'[j] <= 1 /\ (items'[j].status = "queued" => attempts'[j] = 0)
      <4>1. /\ attempts'[j] = IF j = i THEN attempts[j] + 1 ELSE attempts[j]
            /\ items'[j] = IF j = i THEN row ELSE items[j]
        BY <2>1, <3>1
      <4>2. attempts[j] <= 1 /\ (items[j].status = "queued" => attempts[j] = 0)
        BY DEF IInv, ItemInv
      <4>3. CASE j = i
        BY <1>4, <3>1, <4>1, <4>3
      <4> QED BY <4>1, <4>2, <4>3
    <3>3. attempts[i] + 1 \in Nat /\ attempts' = [attempts EXCEPT ![i] = attempts[i] + 1]
      BY <1>2, <2>1, <3>1
    <3>4. attempts' \in [Items -> Nat]
      BY <3>1, <3>3
    <3> QED BY <3>2, <3>4
  <2>8. "submitting" \notin AtProvider
    BY DEF AtProvider
  <2> HIDE DEF slot
  <2>9. slot \in {Idle} \cup {Releasing(j) : j \in Items} \cup Steps
    BY <2>4
  <2>10. slot.step \in SlotSteps =>
               /\ slot.step = "submit" /\ slot.seen.status \notin AtProvider
               /\ slot.to \in AtProvider => jobs[slot.item] \in JobStates
    BY <2>2, <2>4, <2>5, <2>8
  <2>11. items' = [items EXCEPT ![i] = row] \/ UNCHANGED items
    BY <2>1
  <2> QED BY <1>1, <1>2, <1>4, <2>3, <2>6, <2>7, <2>9, <2>10, <2>11, ItemMoves
<1> QED BY <1>5, <1>6

LEMMA ReleaseKeeps ==
    ASSUME IInv, NEW s \in Slots, Release(s)
    PROVE  IInv'
<1> DEFINE i == slots[s].item
<1>1. /\ slots[s].step = "release" /\ slots' = [slots EXCEPT ![s] = Idle]
      /\ items' = [items EXCEPT ![i] = Released(items[i])] \/ UNCHANGED items
      /\ UNCHANGED <<task, attempts, objects, provider, events, bounds>>
  BY DEF Release
<1>2. slots[s] # Idle /\ i \in Items /\ Idle.step \notin SlotSteps
  BY <1>1, SlotForms DEF IInv, Idle, SlotSteps
<1>3. items[i] \in Rows
  BY <1>2 DEF IInv, TypeOK
<1>4. items[i].status \in Statuses
  BY <1>3 DEF Rows
<1>5. /\ Released(items[i]) \in Rows /\ Released(items[i]).status = items[i].status
      /\ Released(items[i]).asset = items[i].asset
  BY <1>3, <1>4, RowType
<1>6. RowMoves(i) /\ \A j \in Items : items'[j].status = items[j].status
  BY <1>1, <1>2, <1>5 DEF RowMoves, IInv, ItemInv, TypeOK
<1>7. /\ attempts' \in [Items -> Nat]
      /\ \A j \in Items : attempts'[j] <= 1 /\ (items'[j].status = "queued" => attempts'[j] = 0)
  BY <1>1, <1>6, AttemptsKept
<1> QED BY <1>1, <1>2, <1>5, <1>6, <1>7, ItemMoves

(* A step that is applied leads where the transitions allow, and not to a  *)
(* success.                                                                *)
LEMMA ApplyStepKeeps ==
    ASSUME IInv, NEW s \in Slots, ApplyStep(s)
    PROVE  IInv'
<1> DEFINE w == slots[s]
           i == w.item
           from == IF Exhausts(w) THEN Advanced(items[i], "recovery_required") ELSE items[i]
           moved == Released(Advanced(from, w.to))
           row == [moved EXCEPT !.job = @ \/ w.job, !.artifact = @ \/ w.artifact,
                                !.tries = IF w.failed THEN @ + 1 ELSE @]
<1>1. /\ w.step = "apply" /\ w.step \in SlotSteps /\ w # Idle
      /\ slots' = [slots EXCEPT ![s] = Releasing(i)]
      /\ UNCHANGED <<task, attempts, objects, provider, events, bounds>>
  BY DEF ApplyStep, SlotSteps, Idle, ThenRelease
<1>2. w \in Steps /\ i \in Items
  BY <1>1, AtWork
<1>3. items[i] \in Rows /\ items[i].status \in Statuses /\ w.to \in Statuses
  BY <1>2 DEF IInv, TypeOK, Rows, Steps
<1>4. /\ w.to # "succeeded"
      /\ w.to \in AtProvider => jobs[i] \in JobStates
  BY <1>1 DEF IInv, SlotInv
<1>5. CASE IsCurrent(s) /\ CanAdvance(from.status, w.to)
  <2>1. "recovery_required" \in Statuses
    BY DEF Statuses
  <2>2. /\ from \in Rows /\ from.status \in Statuses
        /\ from.status \in {"recovery_required", items[i].status}
    BY <1>3, <2>1, RowType
  <2>3. moved \in Rows /\ moved.status = w.to
    <3> HIDE DEF from
    <3>1. Advanced(from, w.to) \in Rows /\ Advanced(from, w.to).status = w.to
      BY <1>3, <2>2, RowType
    <3> QED BY <1>3, <3>1, RowType
  <2>4. row \in Rows /\ row.status = w.to
    <3> HIDE DEF moved
    <3>1. /\ (moved.job \/ w.job) \in BOOLEAN /\ (moved.artifact \/ w.artifact) \in BOOLEAN
          /\ (IF w.failed THEN moved.tries + 1 ELSE moved.tries) \in Nat
      BY <2>3 DEF Rows
    <3> QED BY <2>3, <3>1 DEF Rows
  <2>5. items' = [items EXCEPT ![i] = row]
    BY <1>5 DEF ApplyStep
  <2>6. w.to = "queued" => items[i].status = "queued"
    BY <1>3, <1>5, <2>2, Transitions
  <2> HIDE DEF row
  <2>7. items'[i] = row /\ \A j \in Items \ {i} : items'[j] = items[j]
    BY <1>2, <2>5 DEF IInv, TypeOK
  <2>8. RowMoves(i) /\ \A j \in Items : items'[j].status = "queued" => items[j].status = "queued"
    BY <1>2, <1>4, <2>4, <2>6, <2>7 DEF RowMoves
  <2>9. /\ attempts' \in [Items -> Nat]
        /\ \A j \in Items : attempts'[j] <= 1 /\ (items'[j].status = "queued" => attempts'[j] = 0)
    BY <1>1, <2>8, AttemptsKept
  <2> QED BY <1>1, <1>2, <2>4, <2>5, <2>8, <2>9, ReleaseForm, ItemMoves
<1>6. CASE ~(IsCurrent(s) /\ CanAdvance(from.status, w.to))
  <2>1. UNCHANGED items
    BY <1>6 DEF ApplyStep
  <2>2. /\ attempts' \in [Items -> Nat]
        /\ \A j \in Items : attempts'[j] <= 1 /\ (items'[j].status = "queued" => attempts'[j] = 0)
    BY <1>1, <2>1, AttemptsKept
  <2>3. RowMoves(i)
    BY <1>2, <2>1 DEF RowMoves, IInv, ItemInv
  <2> QED BY <1>1, <1>2, <1>3, <2>1, <2>2, <2>3, ReleaseForm, ItemMoves
<1> QED BY <1>5, <1>6

-----------------------------------------------------------------------------
(* The artifact *)

LEMMA PersistKeeps ==
    ASSUME IInv, NEW s \in Slots, Persist(s)
    PROVE  IInv'
<1> DEFINE slot == [slots[s] EXCEPT !.step = "store"]
<1>1. /\ slots[s].step = "work" /\ slots[s].seen.status \in Saves
      /\ objects' = objects \cup {<<slots[s].item, s>>}
      /\ slots' = [slots EXCEPT ![s] = slot]
      /\ UNCHANGED <<task, items, attempts, provider, events, bounds>>
  BY DEF Persist, Sees, Then
<1>2. slots[s].step \in SlotSteps /\ slots[s] # Idle /\ slots[s] \in Steps /\ slots[s].item \in Items
  BY <1>1, AtWork DEF SlotSteps, Idle
<1>3. /\ slot \in Steps /\ slot.step = "store" /\ slot.item = slots[s].item
      /\ slot.seen = slots[s].seen /\ slot.to = slots[s].to
  BY <1>2 DEF Steps, SlotSteps
<1> HIDE DEF slot
<1>4. slots'[s] = slot /\ \A q \in Slots \ {s} : slots'[q] = slots[q]
  BY <1>1 DEF IInv, TypeOK
<1>5. TypeOK'
  <2>1. slots' \in [Slots -> {Idle} \cup {Releasing(i) : i \in Items} \cup Steps]
    BY <1>1, <1>3 DEF IInv, TypeOK
  <2>2. objects' \subseteq Items \X Slots
    BY <1>1, <1>2 DEF IInv, TypeOK
  <2> QED BY <1>1, <2>1, <2>2 DEF IInv, TypeOK, task, provider
<1>6. PointsInv'
  <2>1. created
    BY <1>2 DEF IInv, PointsInv, TypeOK
  <2> QED BY <1>1, <2>1, PointsKept
<1>7. ASSUME NEW i \in Items PROVE ItemInv(i)'
  <2>1. ItemInv(i)
    BY DEF IInv
  <2>2. ASSUME items[i].status = "succeeded"
        PROVE  Apart(slots'[items[i].asset], i)
    <3>1. items[i].asset \in Slots /\ Apart(slots[items[i].asset], i)
      BY <2>1, <2>2 DEF ItemInv
    <3>2. CASE items[i].asset = s
      <4>1. slots[s].item # i
        BY <1>1, <1>2, <3>1, <3>2 DEF Apart
      <4> QED BY <1>3, <1>4, <3>2, <4>1 DEF Apart
    <3>3. CASE items[i].asset # s
      BY <1>4, <3>1, <3>3
    <3> QED BY <3>2, <3>3
  <2> QED BY <1>1, <2>1, <2>2 DEF ItemInv, provider
<1>8. ASSUME NEW q \in Slots PROVE SlotInv(q)'
  <2>1. SlotInv(q) /\ SlotInv(s)
    BY DEF IInv
  <2>2. CASE q = s
    <3>1. /\ slots[s].seen.status \in AtProvider => jobs[slots[s].item] \in JobStates
          /\ slots[s].to \in AtProvider => jobs[slots[s].item] \in JobStates
      BY <1>2, <2>1 DEF SlotInv
    <3>2. <<slot.item, s>> \in objects' /\ UNCHANGED jobs
      BY <1>1, <1>3 DEF provider
    <3> QED BY <1>3, <1>4, <2>2, <3>1, <3>2 DEF SlotInv
  <2>3. CASE q # s
    BY <1>1, <1>4, <2>1, <2>3 DEF SlotInv, provider
  <2> QED BY <2>2, <2>3
<1> QED BY <1>5, <1>6, <1>7, <1>8 DEF IInv

(* A commit makes its own object the item's; a commit that is turned down  *)
(* takes its own object away, which is no item's.                          *)
LEMMA CommitKeeps ==
    ASSUME IInv, NEW s \in Slots, Commit(s)
    PROVE  IInv'
<1> DEFINE i == slots[s].item
<1>1. /\ slots[s].step = "store" /\ slots' = [slots EXCEPT ![s] = Releasing(i)]
      /\ UNCHANGED <<task, attempts, provider, events, bounds>>
  BY DEF Commit, ThenRelease
<1>2. slots[s].step \in SlotSteps /\ slots[s] # Idle /\ i \in Items
  BY <1>1, AtWork DEF SlotSteps, Idle
<1>3. <<i, s>> \in objects
  BY <1>1, <1>2 DEF IInv, SlotInv
<1>4. /\ Releasing(i) \in {Releasing(j) : j \in Items}
      /\ Releasing(i).step = "release" /\ "release" \notin SlotSteps
  BY <1>2, ReleaseForm
<1>5. slots'[s] = Releasing(i) /\ \A q \in Slots \ {s} : slots'[q] = slots[q]
  BY <1>1 DEF IInv, TypeOK
<1>6. \A j \in Items : Apart(slots'[s], j)
  BY <1>4, <1>5 DEF Apart
<1>7. PointsInv'
  <2>1. created
    BY <1>2 DEF IInv, PointsInv, TypeOK
  <2> QED BY <1>1, <2>1, PointsKept
<1>8. slots' \in [Slots -> {Idle} \cup {Releasing(j) : j \in Items} \cup Steps]
  BY <1>1, <1>4 DEF IInv, TypeOK
<1>9. CASE IsCurrent(s) /\ items[i].status = "artifact_pending"
  <2> DEFINE row == [Released(Advanced(items[i], "succeeded")) EXCEPT !.asset = s]
  <2>1. items' = [items EXCEPT ![i] = row] /\ UNCHANGED objects
    BY <1>9 DEF Commit
  <2>2. row \in Rows /\ row.status = "succeeded" /\ row.asset = s
    <3>1. items[i] \in Rows /\ "succeeded" \in Statuses
      BY <1>2 DEF IInv, TypeOK, Statuses, Terminal
    <3>2. Advanced(items[i], "succeeded") \in Rows /\ Advanced(items[i], "succeeded").status = "succeeded"
      BY <3>1, RowType
    <3>3. /\ Released(Advanced(items[i], "succeeded")) \in Rows
          /\ Released(Advanced(items[i], "succeeded")).status = "succeeded"
      BY <3>1, <3>2, RowType
    <3> QED BY <3>3 DEF Rows
  <2> HIDE DEF row
  <2>3. items' \in [Items -> Rows] /\ items'[i] = row /\ \A j \in Items \ {i} : items'[j] = items[j]
    BY <1>2, <2>1, <2>2 DEF IInv, TypeOK
  <2>4. TypeOK'
    BY <1>1, <1>8, <2>1, <2>3 DEF IInv, TypeOK, task, provider
  <2>5. ASSUME NEW j \in Items PROVE ItemInv(j)'
    <3>1. ItemInv(j)
      BY DEF IInv
    <3>2. CASE j = i
      BY <1>1, <1>3, <1>6, <2>1, <2>2, <2>3, <3>1, <3>2 DEF ItemInv, provider, AtProvider
    <3>3. CASE j # i
      <4>1. items'[j] = items[j]
        BY <2>3, <3>3
      <4>2. items[j].status = "succeeded" => Apart(slots'[items[j].asset], j)
        BY <1>5, <1>6, <3>1 DEF ItemInv
      <4> QED BY <1>1, <2>1, <3>1, <4>1, <4>2 DEF ItemInv, provider
    <3> QED BY <3>2, <3>3
  <2>6. ASSUME NEW q \in Slots PROVE SlotInv(q)'
    BY <1>1, <1>4, <1>5, <2>1 DEF IInv, SlotInv, provider
  <2> QED BY <1>7, <2>4, <2>5, <2>6 DEF IInv
<1>10. CASE ~(IsCurrent(s) /\ items[i].status = "artifact_pending")
  <2>1. objects' = objects \ {<<i, s>>} /\ UNCHANGED items
    BY <1>10 DEF Commit, Discarded
  <2>2. TypeOK'
    BY <1>1, <1>8, <2>1 DEF IInv, TypeOK, task, provider
  <2>3. ASSUME NEW j \in Items PROVE ItemInv(j)'
    <3>1. ItemInv(j)
      BY DEF IInv
    <3>2. ASSUME items[j].status = "succeeded"
          PROVE  <<j, items[j].asset>> \in objects' /\ Apart(slots'[items[j].asset], j)
      <4>1. ~(items[j].asset = s /\ i = j)
        BY <1>1, <1>2, <3>1, <3>2 DEF ItemInv, Apart
      <4>2. <<j, items[j].asset>> # <<i, s>>
        BY <4>1
      <4> QED BY <1>5, <1>6, <2>1, <3>1, <3>2, <4>2 DEF ItemInv
    <3> QED BY <1>1, <2>1, <3>1, <3>2 DEF ItemInv, provider
  <2>4. ASSUME NEW q \in Slots PROVE SlotInv(q)'
    <3>1. CASE q = s
      BY <1>4, <1>5, <3>1 DEF SlotInv
    <3>2. CASE q # s
      <4>1. <<slots[q].item, q>> # <<i, s>>
        BY <3>2
      <4> QED BY <1>1, <1>5, <2>1, <3>2, <4>1 DEF IInv, SlotInv, provider
    <3> QED BY <3>1, <3>2
  <2> QED BY <1>7, <2>2, <2>3, <2>4 DEF IInv
<1> QED BY <1>9, <1>10

-----------------------------------------------------------------------------
(* The task: its creation, a claim, and its settlement *)

LEMMA CreateKeeps == IInv /\ Create => IInv'
<1> SUFFICES ASSUME IInv, Create PROVE IInv'
  OBVIOUS
<1>1. /\ ~created /\ created' = TRUE /\ Wallet!Hold(Task, Reserved)
      /\ UNCHANGED <<finalized, items, attempts, slots, objects, provider, events, bounds>>
  BY DEF Create
<1>2. TypeOK'
  BY <1>1 DEF IInv, TypeOK, provider
<1>3. PointsInv'
  <2>1. /\ held' = [held EXCEPT ![Task] = Reserved] /\ UNCHANGED <<charged, returned>>
    BY <1>1 DEF Wallet!Hold
  <2>2. Reserved \in Nat /\ Reserved' = Reserved
    BY PointsAreNat DEF Reserved
  <2> QED BY <1>1, <2>1, <2>2 DEF IInv, PointsInv, SettledOnce
<1>4. \A i \in Items : ItemInv(i)'
  BY <1>1 DEF IInv, ItemInv, provider
<1>5. \A s \in Slots : SlotInv(s)'
  BY <1>1 DEF IInv, SlotInv, provider
<1> QED BY <1>2, <1>3, <1>4, <1>5 DEF IInv

(* A callback moves a row along the transitions, to where its job is.      *)
LEMMA ProjectedMoves ==
    ASSUME IInv, NEW i \in Items
    PROVE  /\ Projected(i) \in Rows
           /\ Projected(i).status = "queued" => items[i].status = "queued"
           /\ Projected(i).status \in AtProvider => jobs[i] \in JobStates
           /\ Projected(i).status = "succeeded" =>
                  items[i].status = "succeeded" /\ Projected(i).asset = items[i].asset
<1> DEFINE to == StatusOf(events[i])
           moved == Released(Advanced(items[i], to))
<1>1. items[i] \in Rows /\ items[i].status \in Statuses /\ ItemInv(i)
  BY DEF IInv, TypeOK, Rows
<1>2. CASE Projected(i) = items[i]
  BY <1>1, <1>2 DEF ItemInv
<1>3. CASE Projected(i) # items[i]
  <2>1. /\ events[i] # NoEvent
        /\ Projected(i) = [moved EXCEPT !.artifact = @ \/ events[i] = "succeeded"]
    BY <1>3 DEF Projected
  <2>2. events[i] \in JobStates
    BY <2>1 DEF IInv, TypeOK
  <2>3. to \in Statuses /\ to # "queued" /\ to # "succeeded"
    BY <2>2, StatusOfType
  <2>4. moved \in Rows /\ moved.status = to
    <3> HIDE DEF to
    <3>1. Advanced(items[i], to) \in Rows /\ Advanced(items[i], to).status = to
      BY <1>1, <2>3, RowType
    <3> QED BY <2>3, <3>1, RowType
  <2>5. Projected(i) \in Rows /\ Projected(i).status = to
    <3> HIDE DEF moved, to
    <3>1. (moved.artifact \/ events[i] = "succeeded") \in BOOLEAN
      BY <2>4 DEF Rows
    <3> QED BY <2>1, <2>4, <3>1 DEF Rows
  <2> QED BY <1>1, <2>1, <2>3, <2>5 DEF ItemInv
<1> QED BY <1>2, <1>3

LEMMA ClaimKeeps ==
    ASSUME IInv, NEW s \in Slots, ClaimDue(s)
    PROVE  IInv'
<1> DEFINE rows == [i \in Items |-> Projected(i)]
<1>1. /\ created /\ slots[s] = Idle
      /\ events' = [i \in Items |-> NoEvent]
      /\ UNCHANGED <<task, attempts, objects, provider, bounds>>
  BY DEF ClaimDue
<1>2. rows \in [Items -> Rows]
  BY ProjectedMoves
<1>3. PointsInv'
  BY <1>1, PointsKept
<1>4. CASE items' = rows /\ UNCHANGED slots
  <2>1. TypeOK'
    BY <1>1, <1>2, <1>4 DEF IInv, TypeOK, task, provider
  <2>2. ASSUME NEW i \in Items PROVE ItemInv(i)'
    <3>1. items'[i] = Projected(i) /\ events'[i] = NoEvent
      BY <1>1, <1>4
    <3> QED BY <1>1, <1>4, <3>1, ProjectedMoves DEF IInv, ItemInv, provider
  <2>3. \A q \in Slots : SlotInv(q)'
    BY <1>1, <1>4 DEF IInv, SlotInv, provider
  <2> QED BY <1>3, <2>1, <2>2, <2>3 DEF IInv
<1>5. CASE ~(items' = rows /\ UNCHANGED slots)
  <2>1. PICK i \in Items :
          LET row == [rows[i] EXCEPT !.owner = OwnerOf[s], !.fresh = TRUE] IN
          /\ Due(rows[i])
          /\ items' = [rows EXCEPT ![i] = row]
          /\ slots' = [slots EXCEPT ![s] = Working("work", i, row)]
    BY <1>5 DEF ClaimDue
  <2> DEFINE row == [rows[i] EXCEPT !.owner = OwnerOf[s], !.fresh = TRUE]
             slot == Working("work", i, row)
  <2>2. /\ row \in Rows /\ row.status = rows[i].status /\ row.asset = rows[i].asset
    <3>1. rows[i] \in Rows /\ OwnerOf[s] \in Owners
      BY <1>2 DEF Owners
    <3> HIDE DEF rows
    <3> QED BY <3>1 DEF Rows
  <2>3. /\ items' = [rows EXCEPT ![i] = row] /\ slots' = [slots EXCEPT ![s] = slot]
    BY <2>1
  <2>4. ASSUME NEW j \in Items
        PROVE  /\ items'[j] \in Rows /\ items'[j].status = Projected(j).status
               /\ items'[j].asset = Projected(j).asset
    <3>1. rows[j] = Projected(j) /\ rows[j] \in Rows
      BY <1>2
    <3> HIDE DEF rows, row
    <3> QED BY <1>2, <2>2, <2>3, <3>1
  <2>5. items' \in [Items -> Rows]
    <3> HIDE DEF rows, row
    <3> QED BY <1>2, <2>2, <2>3
  <2>6. /\ slot \in Steps /\ slot.step = "work" /\ slot.item = i
        /\ slot.seen.status = row.status /\ slot.to = row.status
    <3> HIDE DEF row
    <3>1. /\ Seen(row) \in [status: Statuses, version: Nat, job: BOOLEAN, tries: Nat]
          /\ Seen(row).status = row.status
      BY <2>2 DEF Seen, Rows
    <3>2. (row.status \in Terminal /\ ~finalized) \in BOOLEAN
      OBVIOUS
    <3>3. row.status \in Statuses /\ "work" \in SlotSteps /\ 0 \in Nat
      BY <2>2 DEF Rows, SlotSteps
    <3> QED BY <3>1, <3>2, <3>3 DEF Working, Steps
  <2> HIDE DEF row, slot
  <2>7. /\ slots' \in [Slots -> {Idle} \cup {Releasing(j) : j \in Items} \cup Steps]
        /\ slots'[s] = slot /\ \A q \in Slots \ {s} : slots'[q] = slots[q]
    BY <2>3, <2>6 DEF IInv, TypeOK
  <2>8. TypeOK'
    BY <1>1, <2>5, <2>7 DEF IInv, TypeOK, task, provider
  <2>9. ASSUME NEW j \in Items PROVE ItemInv(j)'
    <3>1. ItemInv(j)
      BY DEF IInv
    <3>2. /\ items'[j].status = "queued" => items[j].status = "queued"
          /\ items'[j].status \in AtProvider => jobs[j] \in JobStates
          /\ items'[j].status = "succeeded" =>
                  items[j].status = "succeeded" /\ items'[j].asset = items[j].asset
      BY <2>4, ProjectedMoves
    <3>3. events'[j] = NoEvent
      BY <1>1
    <3>4. ASSUME items'[j].status = "succeeded" PROVE Apart(slots'[items'[j].asset], j)
      <4>1. items[j].asset \in Slots /\ Apart(slots[items[j].asset], j)
        BY <3>1, <3>2, <3>4 DEF ItemInv
      <4>2. CASE items[j].asset = s /\ i = j
        <5>1. slot.seen.status = "succeeded"
          BY <2>2, <2>4, <2>6, <3>4, <4>2
        <5> QED BY <2>6, <2>7, <3>2, <3>4, <4>2, <5>1 DEF Apart, Saves
      <4>3. CASE items[j].asset # s \/ i # j
        BY <2>6, <2>7, <3>2, <3>4, <4>1, <4>3 DEF Apart
      <4> QED BY <4>2, <4>3
    <3> QED BY <1>1, <3>1, <3>2, <3>3, <3>4 DEF ItemInv, provider
  <2>10. ASSUME NEW q \in Slots PROVE SlotInv(q)'
    <3>1. CASE q = s
      <4>1. row.status \in AtProvider => jobs[i] \in JobStates
        BY <2>2, ProjectedMoves
      <4> QED BY <1>1, <2>6, <2>7, <3>1, <4>1 DEF SlotInv, provider
    <3>2. CASE q # s
      BY <1>1, <2>7, <3>2 DEF IInv, SlotInv, provider
    <3> QED BY <3>1, <3>2
  <2> QED BY <1>3, <2>8, <2>9, <2>10 DEF IInv
<1> QED BY <1>4, <1>5

LEMMA FinalizeTaskKeeps ==
    ASSUME IInv, NEW s \in Slots, FinalizeTask(s)
    PROVE  IInv'
<1> DEFINE i == slots[s].item
<1>1. /\ slots[s].step = "settle" /\ slots' = [slots EXCEPT ![s] = Releasing(i)]
      /\ UNCHANGED <<created, items, attempts, objects, provider, events, bounds>>
  BY DEF FinalizeTask, ThenRelease
<1>2. slots[s].step \in SlotSteps /\ slots[s] # Idle /\ i \in Items /\ slots[s].charge \in Nat
  BY <1>1, AtWork DEF SlotSteps, Idle, Steps
<1>3. created
  BY <1>2 DEF IInv, PointsInv, TypeOK
<1>4. /\ Releasing(i) \in {Releasing(j) : j \in Items}
      /\ Releasing(i).step = "release" /\ "release" \notin SlotSteps
  BY <1>2, ReleaseForm
<1>5. slots'[s] = Releasing(i) /\ \A q \in Slots \ {s} : slots'[q] = slots[q]
  BY <1>1 DEF IInv, TypeOK
<1>6. PointsInv' /\ finalized' \in BOOLEAN
  <2>1. CASE UNCHANGED <<finalized, billing>>
    <3>1. UNCHANGED task
      BY <1>1, <2>1 DEF task
    <3> QED BY <1>3, <2>1, <3>1, PointsKept DEF IInv, TypeOK
  <2>2. CASE Finalize(slots[s].charge)
    BY <1>1, <1>2, <1>3, <2>2, FinalizePoints
  <2> QED BY <2>1, <2>2 DEF FinalizeTask
<1>7. TypeOK'
  <2>1. slots' \in [Slots -> {Idle} \cup {Releasing(j) : j \in Items} \cup Steps]
    BY <1>1, <1>4 DEF IInv, TypeOK
  <2> QED BY <1>1, <1>6, <2>1 DEF IInv, TypeOK, provider
<1>8. ASSUME NEW j \in Items PROVE ItemInv(j)'
  BY <1>1, <1>4, <1>5 DEF IInv, ItemInv, Apart, provider
<1>9. ASSUME NEW q \in Slots PROVE SlotInv(q)'
  BY <1>1, <1>4, <1>5 DEF IInv, SlotInv, provider
<1> QED BY <1>6, <1>7, <1>8, <1>9 DEF IInv

-----------------------------------------------------------------------------
LEMMA InitHolds == Init => IInv
<1> SUFFICES ASSUME Init PROVE IInv
  OBVIOUS
<1>1. NewRow \in Rows /\ NewRow.status = "queued"
  BY DEF NewRow, Rows, Statuses
<1>2. TypeOK
  <2>1. bounds \in [faults : 0 .. MaxFaults, callbacks : 0 .. MaxCallbacks, retries : 0 .. MaxRetries]
    BY VideoAssumption DEF Init
  <2>2. items \in [Items -> Rows]
    BY <1>1 DEF Init
  <2>3. slots \in [Slots -> {Idle} \cup {Releasing(i) : i \in Items} \cup Steps]
    BY DEF Init
  <2>4. /\ jobs \in [Items -> JobStates \cup {"none", "refused"}]
        /\ posts \in [Items -> 0 .. 2] /\ events \in [Items -> JobStates \cup {NoEvent}]
        /\ attempts \in [Items -> Nat] /\ objects \subseteq Items \X Slots
    BY DEF Init
  <2> QED BY <2>1, <2>2, <2>3, <2>4 DEF Init, TypeOK
<1>3. PointsInv
  BY DEF Init, PointsInv, SettledOnce, Wallet!Init, Wallet!Nothing
<1>4. ASSUME NEW i \in Items PROVE ItemInv(i)
  BY <1>1 DEF Init, ItemInv, AtProvider
<1>5. ASSUME NEW s \in Slots PROVE SlotInv(s)
  BY DEF Init, SlotInv, Idle, SlotSteps
<1> QED BY <1>2, <1>3, <1>4, <1>5 DEF IInv

LEMMA NextKeeps == IInv /\ [Next]_vars => IInv'
<1> SUFFICES ASSUME IInv, [Next]_vars PROVE IInv'
  OBVIOUS
<1>1. CASE UNCHANGED vars
  <2>1. /\ UNCHANGED <<created, finalized, held, charged, returned>>
        /\ UNCHANGED <<items, attempts, slots, objects, jobs, posts, events, bounds>>
    BY <1>1 DEF vars, task, billing, provider
  <2>2. TypeOK'
    BY <2>1 DEF IInv, TypeOK
  <2>3. PointsInv'
    BY <2>1, PointsKept DEF task, billing
  <2>4. (\A i \in Items : ItemInv(i))' /\ (\A s \in Slots : SlotInv(s))'
    BY <2>1 DEF IInv, ItemInv, SlotInv
  <2> QED BY <2>2, <2>3, <2>4 DEF IInv
<1>2. CASE Create \/ RequestCancel \/ RetryArtifact \/ RetrySettlement
  BY <1>2, CreateKeeps, RequestCancelKeeps, AdministratorKeeps
<1>3. ASSUME NEW i \in Items, JobRuns(i) \/ Callback(i) \/ Lapse(i) PROVE IInv'
  BY <1>3, ProviderKeeps, LapseKeeps
<1>4. ASSUME NEW s \in Slots, Step(s) \/ Die(s) PROVE IInv'
  <2>1. CASE ClaimDue(s) \/ Prepare(s) \/ SubmitAnswered(s) \/ SubmitFails(s)
    BY <2>1, ClaimKeeps, PrepareKeeps, SubmitKeeps
  <2>2. CASE ReconcileAnswered(s) \/ ReconcileFails(s) \/ PollAnswered(s) \/ PollFails(s)
    BY <2>2, ReconcileKeeps, PollKeeps
  <2>3. CASE CancelAnswered(s) \/ CancelDeclined(s) \/ ApplyStep(s) \/ Release(s)
    BY <2>3, CancelKeeps, ApplyStepKeeps, ReleaseKeeps
  <2>4. CASE Persist(s) \/ PersistFails(s) \/ Commit(s)
    BY <2>4, PersistKeeps, PersistFailsKeeps, CommitKeeps
  <2>5. CASE LoadSettlement(s) \/ FinalizeTask(s) \/ Die(s)
    BY <2>5, LoadSettlementKeeps, FinalizeTaskKeeps, DieKeeps
  <2> QED BY <1>4, <2>1, <2>2, <2>3, <2>4, <2>5 DEF Step
<1> QED BY <1>1, <1>2, <1>3, <1>4 DEF Next

LEMMA Inductive == Spec => []IInv
BY InitHolds, NextKeeps, PTL DEF Spec

-----------------------------------------------------------------------------
(* The theorems *)

(* Every column keeps its type: no step of a slot that has lost its lease, *)
(* no callback and no recovery leaves a row the code could not read.       *)
THEOREM Typed == Spec => []TypeOK
<1>1. IInv => TypeOK
  BY DEF IInv
<1> QED BY <1>1, Inductive, PTL

(* However many workers take an item from each other, PrepareAttempt makes *)
(* one attempt of it, and with it one idempotency key.                     *)
THEOREM AttemptedOnce == Spec => []OneAttempt
<1>1. IInv => OneAttempt
  BY DEF IInv, ItemInv, OneAttempt
<1> QED BY <1>1, Inductive, PTL

(* The object of a committed asset is there: persistArtifact deletes only  *)
(* the object of a commit that was turned down.                            *)
THEOREM AssetsKept == Spec => []AssetHasObject
<1>1. IInv => AssetHasObject
  BY DEF IInv, ItemInv, AssetHasObject
<1> QED BY <1>1, Inductive, PTL

(* finalizeVideoTaskTx settles a task once: what was charged and what was  *)
(* given back make up the reservation, whatever an administrator retries.  *)
THEOREM SettledOnceHolds == Spec => []SettledOnce
<1>1. IInv => SettledOnce
  BY DEF IInv, PointsInv
<1> QED BY <1>1, Inductive, PTL
=============================================================================
