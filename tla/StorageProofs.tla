---------------------------- MODULE StorageProofs ----------------------------
(***************************************************************************)
(* Theorems about ObjectCleanup, for any number of references, cleanup     *)
(* loops, jobs and faults; and about MediaUpload, for any number of        *)
(* sessions, keys, parts, requests and faults, and any backend.            *)
(***************************************************************************)
EXTENDS Storage, TLAPS

-----------------------------------------------------------------------------
(* Typing *)

LEMMA EnqueueType ==
    ASSUME TypeOK, Enqueue
    PROVE  jobs' \in [JobIds -> [state: States, attempt: Nat]]
<1>1. ASSUME NEW j \in JobIds
      PROVE  /\ Reactivated(j) \in [JobIds -> [state: States, attempt: Nat]]
             /\ Created(j) \in [JobIds -> [state: States, attempt: Nat]]
  <2>1. [jobs[j] EXCEPT !.state = "pending"] \in [state: States, attempt: Nat]
    BY DEF TypeOK, States
  <2>2. [state |-> "pending", attempt |-> 0] \in [state: States, attempt: Nat]
    BY DEF States
  <2> QED BY <2>1, <2>2 DEF TypeOK, Reactivated, Created
<1> QED BY <1>1 DEF Enqueue, Live

LEMMA BecomeType ==
    ASSUME TypeOK, NEW w \in Workers, NEW next \in {Idle} \cup Claims \cup Sweeps,
           Become(w, next)
    PROVE  workers' \in [Workers -> {Idle} \cup Claims \cup Sweeps]
BY DEF Become, TypeOK

(* What a loop is about to do tells its fields. *)
LEMMA StepFields ==
    ASSUME TypeOK, NEW w \in Workers
    PROVE  /\ workers[w].step \in ClaimSteps => workers[w] \in Claims
           /\ workers[w].step = "write" => workers[w].job \in JobIds
BY DEF TypeOK, Idle, Claims, Sweeps, ClaimSteps

LEMMA InitType == Init => TypeOK
BY CleanupAssumption DEF Init, TypeOK, NoJob, States

LEMMA WorkType ==
    ASSUME TypeOK, NEW w \in Workers, Work(w) \/ Die(w)
    PROVE  TypeOK'
<1>1. CASE Claim(w)
  <2>1. PICK j \in JobIds :
           /\ faults' \in {faults, faults + 1}
           /\ jobs' = [jobs EXCEPT ![j] = [state |-> "running", attempt |-> jobs[j].attempt + 1]]
           /\ Become(w, [step |-> "check", job |-> j, attempt |-> jobs[j].attempt + 1])
    BY <1>1 DEF Claim
  <2>2. jobs[j].attempt + 1 \in Nat
    BY DEF TypeOK
  <2>3. [state |-> "running", attempt |-> jobs[j].attempt + 1] \in [state: States, attempt: Nat]
    BY <2>2 DEF States
  <2>4. [step |-> "check", job |-> j, attempt |-> jobs[j].attempt + 1] \in Claims
    BY <2>2 DEF Claims, ClaimSteps
  <2>5. workers' \in [Workers -> {Idle} \cup Claims \cup Sweeps]
    BY <2>1, <2>4, BecomeType
  <2> QED BY <1>1, <2>1, <2>3, <2>5 DEF Claim, TypeOK
<1>2. CASE Check(w)
  <2>1. workers[w] \in Claims
    BY <1>2, StepFields DEF Check, ClaimSteps
  <2>2. \A step \in ClaimSteps : [workers[w] EXCEPT !.step = step] \in Claims
    BY <2>1 DEF Claims
  <2>3. PICK next \in {Idle} \cup Claims : Become(w, next)
    BY <1>2, <2>2 DEF Check, ClaimSteps
  <2>4. workers' \in [Workers -> {Idle} \cup Claims \cup Sweeps]
    BY <2>3, BecomeType
  <2> QED BY <1>2, <2>4 DEF Check, TypeOK
<1>3. CASE Remove(w)
  <2>1. workers[w] \in Claims
    BY <1>3, StepFields DEF Remove, ClaimSteps
  <2>2. \A step \in ClaimSteps : [workers[w] EXCEPT !.step = step] \in Claims
    BY <2>1 DEF Claims
  <2>3. PICK next \in Claims : Become(w, next)
    BY <1>3, <2>2 DEF Remove, ClaimSteps
  <2>4. workers' \in [Workers -> {Idle} \cup Claims \cup Sweeps]
    BY <2>3, BecomeType
  <2>5. object' \in BOOLEAN
    BY <1>3 DEF Remove, TypeOK
  <2>6. faults' \in Nat
    BY <1>3 DEF Remove, TypeOK
  <2>7. UNCHANGED <<result, media, refs, taking, held, jobs, taken>>
    BY <1>3 DEF Remove
  <2> QED BY <2>4, <2>5, <2>6, <2>7 DEF TypeOK
<1>4. CASE Mark(w)
  <2>1. workers[w] \in Claims /\ workers[w].job \in JobIds
    BY <1>4, StepFields DEF Mark, ClaimSteps, Claims
  <2>2. workers[w].step \in States
    BY <1>4 DEF Mark, States
  <2>3. [jobs[workers[w].job] EXCEPT !.state = workers[w].step] \in [state: States, attempt: Nat]
    BY <2>1, <2>2 DEF TypeOK
  <2>4. jobs' \in [JobIds -> [state: States, attempt: Nat]]
    BY <1>4, <2>1, <2>3 DEF Mark, TypeOK
  <2>5. workers' \in [Workers -> {Idle} \cup Claims \cup Sweeps]
    BY <1>4, BecomeType DEF Mark
  <2> QED BY <1>4, <2>4, <2>5 DEF Mark, TypeOK
<1>5. CASE Die(w)
  <2>1. workers' \in [Workers -> {Idle} \cup Claims \cup Sweeps]
    BY <1>5, BecomeType DEF Die
  <2>2. object' \in BOOLEAN
    BY <1>5 DEF Die, TypeOK
  <2>3. faults' \in Nat /\ UNCHANGED <<result, media, refs, taking, held, jobs, taken>>
    BY <1>5 DEF Die, TypeOK
  <2> QED BY <2>1, <2>2, <2>3 DEF TypeOK
<1> QED BY <1>1, <1>2, <1>3, <1>4, <1>5 DEF Work

LEMMA SweepType ==
    ASSUME TypeOK, NEW w \in Workers, Sweep(w)
    PROVE  TypeOK'
<1>1. CASE ReconcileRows(w)
  BY <1>1, EnqueueType DEF ReconcileRows, TypeOK
<1>2. CASE SweepFinds(w)
  <2>1. workers' \in [Workers -> {Idle} \cup Claims \cup Sweeps]
    BY <1>2, BecomeType DEF SweepFinds, Sweeps
  <2> QED BY <1>2, <2>1 DEF SweepFinds, TypeOK
<1>3. CASE SweepLooks(w)
  <2>1. \A j \in Live : [step |-> "write", job |-> j] \in Sweeps
    BY DEF Live, Sweeps
  <2>2. workers' \in [Workers -> {Idle} \cup Claims \cup Sweeps]
    BY <1>3, <2>1, BecomeType DEF SweepLooks, Sweeps
  <2> QED BY <1>3, <2>2 DEF SweepLooks, TypeOK
<1>4. CASE SweepWrites(w)
  <2>1. \A j \in JobIds : /\ Reactivated(j) \in [JobIds -> [state: States, attempt: Nat]]
                          /\ Created(j) \in [JobIds -> [state: States, attempt: Nat]]
    <3>1. \A j \in JobIds : [jobs[j] EXCEPT !.state = "pending"] \in [state: States, attempt: Nat]
      BY DEF TypeOK, States
    <3>2. [state |-> "pending", attempt |-> 0] \in [state: States, attempt: Nat]
      BY DEF States
    <3> QED BY <3>1, <3>2 DEF TypeOK, Reactivated, Created
  <2>2. jobs' \in [JobIds -> [state: States, attempt: Nat]]
    BY <1>4, <2>1, StepFields DEF SweepWrites, TypeOK
  <2>3. workers' \in [Workers -> {Idle} \cup Claims \cup Sweeps]
    BY <1>4, BecomeType DEF SweepWrites, Sweeps
  <2> QED BY <1>4, <2>2, <2>3 DEF SweepWrites, TypeOK
<1> QED BY <1>1, <1>2, <1>3, <1>4 DEF Sweep

LEMMA UserType ==
    ASSUME TypeOK,
           \/ DeleteImage \/ Import \/ DeleteAsset
           \/ \E r \in Refs : LookUp(r) \/ Take(r) \/ Release(r)
    PROVE  TypeOK'
<1>1. CASE DeleteImage
  BY <1>1, EnqueueType DEF DeleteImage, TypeOK
<1>2. CASE Import
  BY <1>2 DEF Import, TypeOK
<1>3. CASE DeleteAsset
  BY <1>3, EnqueueType DEF DeleteAsset, TypeOK
<1>4. CASE \E r \in Refs : LookUp(r) \/ Take(r) \/ Release(r)
  BY <1>4 DEF LookUp, Take, Release, TypeOK
<1> QED BY <1>1, <1>2, <1>3, <1>4

LEMMA NextType == TypeOK /\ [Next]_vars => TypeOK'
<1> SUFFICES ASSUME TypeOK, [Next]_vars PROVE TypeOK'
  OBVIOUS
<1>1. CASE UNCHANGED vars
  BY <1>1 DEF vars, TypeOK
<1> QED BY <1>1, UserType, WorkType, SweepType DEF Next

(* Every row, claim and sweep is well formed. *)
THEOREM Typed == Spec => []TypeOK
BY InitType, NextType, PTL DEF Spec

-----------------------------------------------------------------------------
(* An object goes only when its rows are deleted and nothing has held it   *)
(* since: this is so when a worker goes to delete it, and stays so, since  *)
(* an alias is made of a live result only and the references held are      *)
(* those of the moment its asset was deleted.                              *)
Deleting == \E w \in Workers : workers[w].step = "delete"
Unneeded == ~RowLive /\ held = {}
Unreferred == media = "none" => refs = {} /\ taking = {}

IInv ==
    /\ TypeOK
    /\ Unreferred
    /\ ~object => Unneeded
    /\ Deleting => Unneeded

LEMMA InitInv == Init => IInv
<1>1. Init => ~Deleting
  BY DEF Init, Deleting, Idle
<1> QED BY <1>1, InitType DEF Init, IInv, Unreferred

(* What the users do makes nothing needed again, and starts no deletion.   *)
LEMMA UserInv ==
    ASSUME IInv,
           \/ DeleteImage \/ Import \/ DeleteAsset
           \/ \E r \in Refs : LookUp(r) \/ Take(r) \/ Release(r)
    PROVE  Unreferred' /\ (Unneeded => Unneeded') /\ UNCHANGED <<object, workers>>
<1>1. CASE DeleteImage
  BY <1>1 DEF DeleteImage, IInv, Unreferred, Unneeded, RowLive
<1>2. CASE Import
  BY <1>2 DEF Import, IInv, Unreferred, Unneeded, RowLive
<1>3. CASE DeleteAsset
  BY <1>3 DEF DeleteAsset, IInv, Unreferred, Unneeded, RowLive
<1>4. CASE \E r \in Refs : LookUp(r) \/ Take(r) \/ Release(r)
  BY <1>4 DEF LookUp, Take, Release, IInv, Unreferred, Unneeded, RowLive
<1> QED BY <1>1, <1>2, <1>3, <1>4

(* A worker deletes only what it found not needed.                         *)
LEMMA LoopInv ==
    ASSUME IInv, NEW w \in Workers, Work(w) \/ Sweep(w) \/ Die(w)
    PROVE  /\ UNCHANGED <<result, media, refs, taking, held>>
           /\ Deleting' => Deleting \/ Unneeded
           /\ ~object' => ~object \/ Deleting
<1>1. UNCHANGED <<result, media, refs, taking, held>>
  BY DEF Work, Sweep, Claim, Check, Remove, Mark, ReconcileRows, SweepFinds, SweepLooks,
         SweepWrites, Die
<1>2. ~object' => ~object \/ Deleting
  BY DEF Work, Sweep, Claim, Check, Remove, Mark, ReconcileRows, SweepFinds, SweepLooks,
         SweepWrites, Die, Deleting
<1>3. \A v \in Workers \ {w} : workers'[v] = workers[v]
  BY DEF Work, Sweep, Claim, Check, Remove, Mark, ReconcileRows, SweepFinds, SweepLooks,
         SweepWrites, Die, Become, IInv, TypeOK
<1>4. workers'[w].step = "delete" => Deleting \/ Unneeded
  <2>1. CASE Check(w)
    <3>1. workers[w] \in Claims
      BY <2>1, StepFields DEF Check, ClaimSteps, IInv
    <3>2. Needed => workers'[w].step # "delete"
      BY <2>1, <3>1 DEF Check, Become, Idle, Claims, IInv, TypeOK
    <3>3. ~Needed => Unneeded
      BY DEF Needed, Referred, Unneeded, IInv, Unreferred, TypeOK
    <3> QED BY <3>2, <3>3
  <2>2. CASE Claim(w)
    <3>1. PICK j \in JobIds :
             Become(w, [step |-> "check", job |-> j, attempt |-> jobs[j].attempt + 1])
      BY <2>2 DEF Claim
    <3> QED BY <3>1 DEF Become, IInv, TypeOK
  <2>3. CASE Remove(w)
    BY <2>3 DEF Remove, Deleting
  <2>4. CASE Mark(w)
    BY <2>4 DEF Mark, Become, Idle, IInv, TypeOK
  <2>5. CASE Die(w)
    BY <2>5 DEF Die, Become, Idle, IInv, TypeOK
  <2>6. CASE ReconcileRows(w)
    BY <2>6 DEF ReconcileRows, Idle
  <2>7. CASE SweepFinds(w)
    BY <2>7 DEF SweepFinds, Become, IInv, TypeOK
  <2>8. CASE SweepLooks(w)
    <3>1. PICK next \in {[step |-> "write", job |-> j] : j \in Live} \cup {[step |-> "create"]} :
             Become(w, next)
      BY <2>8 DEF SweepLooks
    <3>2. next.step # "delete"
      OBVIOUS
    <3> QED BY <3>1, <3>2 DEF Become, IInv, TypeOK
  <2>9. CASE SweepWrites(w)
    BY <2>9 DEF SweepWrites, Become, Idle, IInv, TypeOK
  <2>10. \/ Claim(w) \/ Check(w) \/ Remove(w) \/ Mark(w) \/ Die(w)
         \/ ReconcileRows(w) \/ SweepFinds(w) \/ SweepLooks(w) \/ SweepWrites(w)
    BY DEF Work, Sweep
  <2> QED BY <2>1, <2>2, <2>3, <2>4, <2>5, <2>6, <2>7, <2>8, <2>9, <2>10
<1>5. Deleting' => Deleting \/ Unneeded
  BY <1>3, <1>4 DEF Deleting
<1> QED BY <1>1, <1>2, <1>5

LEMMA NextInv == IInv /\ [Next]_vars => IInv'
<1> SUFFICES ASSUME IInv, [Next]_vars PROVE IInv'
  OBVIOUS
<1>1. TypeOK'
  BY NextType DEF IInv
<1>2. CASE \/ DeleteImage \/ Import \/ DeleteAsset
           \/ \E r \in Refs : LookUp(r) \/ Take(r) \/ Release(r)
  BY <1>1, <1>2, UserInv DEF IInv, Deleting
<1>3. CASE \E w \in Workers : Work(w) \/ Sweep(w) \/ Die(w)
  BY <1>1, <1>3, LoopInv DEF IInv, Unneeded, RowLive, Unreferred
<1>4. CASE UNCHANGED vars
  BY <1>1, <1>4 DEF vars, IInv, Unneeded, RowLive, Unreferred, Deleting
<1> QED BY <1>2, <1>3, <1>4 DEF Next

LEMMA Inductive == Spec => []IInv
BY InitInv, NextInv, PTL DEF Spec

(* A result or asset the user has not deleted has its object, whatever was *)
(* deleted of its aliases (hasLiveObjectReferences).                       *)
THEOREM RowsKept == Spec => []RowHasObject
<1>1. IInv => RowHasObject
  BY DEF IInv, Unneeded, RowHasObject, TypeOK
<1> QED BY <1>1, Inductive, PTL

(* An object stays for the canvases and tasks that used it when its asset  *)
(* was deleted, as long as they do (rebuildReferences, DeleteAsset).       *)
THEOREM HeldKept == Spec => []HeldIsKept
<1>1. IInv => HeldIsKept
  BY DEF IInv, Unneeded, HeldIsKept, TypeOK
<1> QED BY <1>1, Inductive, PTL

-----------------------------------------------------------------------------
(* Uploads.  A session is a row that is inserted once, for an upload       *)
(* nobody else has opened; whoever goes on with it has found its row, and  *)
(* the transaction that makes its asset ends it for good.                  *)

Blank(s) == session[s].status = "none" /\ made[s] = 0
Inserting(c, s) == calls[c].step = "insert" /\ calls[c].session = s
(* The steps of a request that has read the row of its session. *)
Bound == {"put", "record", "list", "mark", "merge", "commit", "delete", "drop", "close"}

FreshInv(b) ==
    \A s \in b.sessions : upload[s].state = "none" => Blank(s) /\ \A c \in Calls : ~Inserting(c, s)
InsertInv(b) ==
    \A s \in b.sessions, c \in Calls :
        Inserting(c, s) => Blank(s) /\ \A d \in Calls : Inserting(d, s) => d = c
BoundInv ==
    /\ \A c \in Calls : calls[c].step \in Bound => session[calls[c].session].status # "none"
    /\ \A w \in Loops : loops[w].step # "idle" => session[loops[w].session].status # "none"
MadeInv(b) ==
    \A s \in b.sessions : made[s] <= 1 /\ (made[s] > 0 => session[s].status = "completed")
KeyInv(b) ==
    \A s, t \in b.sessions :
        session[s].status # "none" /\ session[t].status # "none" /\ session[s].key = session[t].key => s = t
CallType(b) ==
    {Uploads(b)!Idle} \cup [step: {"create"}, key: Keys]
    \cup [step: {"insert"}, key: Keys, session: b.sessions]
    \cup [step: {"put"}, session: b.sessions, part: Parts, parts: SUBSET Parts]
    \cup [step: {"record"}, session: b.sessions, parts: SUBSET Parts]
    \cup [step: Uploads(b)!CallSteps \cup {"undo"}, session: b.sessions]
RowType(b) ==
    [status: {"none"} \cup Uploads(b)!Open \cup Uploads(b)!Ended,
     key: Keys \cup {Uploads(b)!NoKey}, parts: SUBSET Parts]
FileType == [state: {"none", "open", "merged", "gone"}, parts: SUBSET Parts]
LoopType(b) == {Uploads(b)!Idle} \cup [step: {"drop", "finish"}, session: b.sessions]

UploadType(b) ==
    /\ session \in [b.sessions -> RowType(b)] /\ made \in [b.sessions -> Nat]
    /\ upload \in [b.sessions -> FileType]
    /\ stored \subseteq b.sessions /\ due \subseteq b.sessions /\ stale \subseteq b.sessions
    /\ signed \subseteq b.sessions \X Parts
    /\ calls \in [Calls -> CallType(b)] /\ loops \in [Loops -> LoopType(b)]
    /\ errors \in Nat

UploadInv(b) ==
    UploadType(b) /\ FreshInv(b) /\ InsertInv(b) /\ BoundInv /\ MadeInv(b) /\ KeyInv(b)

LEMMA UploadTypes == ASSUME NEW b PROVE UploadType(b) <=> Uploads(b)!TypeOK
BY DEF UploadType, Uploads!TypeOK, RowType, FileType, CallType, LoopType

(* What a request is about to do tells its fields. *)
LEMMA CallFields ==
    ASSUME NEW b, NEW x \in CallType(b)
    PROVE  /\ x.step \in Bound \cup {"insert", "undo"} => x.session \in b.sessions
           /\ x.step \in {"create", "insert"} => x.key \in Keys
           /\ x.step = "put" => x.part \in Parts
           /\ x.step \in {"put", "record"} => x.parts \subseteq Parts
BY DEF CallType, Bound, Uploads!CallSteps, Uploads!Idle

LEMMA UploadInit ==
    ASSUME NEW b, Uploads(b)!Init
    PROVE  UploadInv(b)
<1>1. Uploads(b)!NoSession \in RowType(b) /\ Uploads(b)!NoUpload \in FileType
  BY DEF RowType, FileType, Uploads!NoSession, Uploads!NoUpload
<1>2. UploadType(b)
  BY <1>1 DEF UploadType, Uploads!Init, CallType, LoopType
<1>3. \A c \in Calls : calls[c].step = "idle"
  BY DEF Uploads!Init, Uploads!Idle
<1>4. \A w \in Loops : loops[w].step = "idle"
  BY DEF Uploads!Init, Uploads!Idle
<1>5. \A s \in b.sessions : session[s].status = "none" /\ made[s] = 0
  BY DEF Uploads!Init, Uploads!NoSession
<1>6. FreshInv(b) /\ InsertInv(b)
  BY <1>3, <1>5 DEF FreshInv, InsertInv, Blank, Inserting
<1>7. BoundInv
  BY <1>3, <1>4 DEF BoundInv, Bound
<1>8. MadeInv(b) /\ KeyInv(b)
  BY <1>5 DEF MadeInv, KeyInv
<1> QED BY <1>2, <1>6, <1>7, <1>8 DEF UploadInv

(* What a step does to a session that neither inserts its row nor makes    *)
(* its asset.                                                              *)
RowsQuiet(b) ==
    /\ \A s \in b.sessions :
         /\ session'[s].status = "none" <=> session[s].status = "none"
         /\ session'[s].key = session[s].key
         /\ session[s].status = "completed" => session'[s].status = "completed"
    /\ made' = made
FilesQuiet(b) == \A s \in b.sessions : upload'[s].state = "none" => upload[s].state = "none"
CallsQuiet(b) ==
    \A c \in Calls :
        /\ calls'[c].step = "insert" => calls[c] = calls'[c]
        /\ calls'[c].step \in Bound => session[calls'[c].session].status # "none"
LoopsQuiet == \A w \in Loops : loops'[w].step # "idle" => session[loops'[w].session].status # "none"
Quiet(b) == RowsQuiet(b) /\ FilesQuiet(b) /\ CallsQuiet(b) /\ LoopsQuiet

LEMMA QuietInv ==
    ASSUME NEW b, UploadInv(b), UploadType(b)', Quiet(b)
    PROVE  UploadInv(b)'
<1>1. FreshInv(b)' /\ InsertInv(b)'
  <2>1. \A c \in Calls, s \in b.sessions : Inserting(c, s)' => Inserting(c, s)
    BY DEF Quiet, CallsQuiet, Inserting
  <2>2. \A s \in b.sessions : Blank(s) => Blank(s)'
    BY DEF Quiet, RowsQuiet, Blank
  <2> QED BY <2>1, <2>2 DEF FreshInv, InsertInv, UploadInv, Quiet, FilesQuiet
<1>2. BoundInv'
  <2>1. \A c \in Calls : calls'[c].step \in Bound => calls'[c].session \in b.sessions
    BY CallFields DEF UploadType
  <2>2. \A w \in Loops : loops'[w].step # "idle" => loops'[w].session \in b.sessions
    BY DEF UploadType, LoopType, Uploads!Idle
  <2> QED BY <2>1, <2>2 DEF BoundInv, Quiet, RowsQuiet, CallsQuiet, LoopsQuiet
<1>3. MadeInv(b)'
  BY DEF MadeInv, UploadInv, Quiet, RowsQuiet
<1>4. KeyInv(b)'
  BY DEF KeyInv, UploadInv, Quiet, RowsQuiet
<1> QED BY <1>1, <1>2, <1>3, <1>4 DEF UploadInv

LEMMA CallsStep ==
    ASSUME NEW b, UploadInv(b), NEW c \in Calls, NEW next \in CallType(b),
           Uploads(b)!Become(c, next), next.step # "insert",
           next.step \in Bound => session[next.session].status # "none"
    PROVE  calls' \in [Calls -> CallType(b)] /\ CallsQuiet(b)
<1>1. calls' = [calls EXCEPT ![c] = next] /\ calls \in [Calls -> CallType(b)]
  BY DEF Uploads!Become, UploadInv, UploadType
<1>2. BoundInv
  BY DEF UploadInv
<1> QED BY <1>1, <1>2 DEF CallsQuiet, BoundInv

LEMMA CallsSame ==
    ASSUME NEW b, UploadInv(b), calls' = calls
    PROVE  calls' \in [Calls -> CallType(b)] /\ CallsQuiet(b)
BY DEF UploadInv, UploadType, CallsQuiet, BoundInv

LEMMA LoopsSame ==
    ASSUME NEW b, UploadInv(b), loops' = loops
    PROVE  loops' \in [Loops -> LoopType(b)] /\ LoopsQuiet
BY DEF UploadInv, UploadType, LoopsQuiet, BoundInv

LEMMA LoopsStep ==
    ASSUME NEW b, UploadInv(b), NEW w \in Loops, NEW next \in LoopType(b),
           loops' = [loops EXCEPT ![w] = next],
           next.step # "idle" => session[next.session].status # "none"
    PROVE  loops' \in [Loops -> LoopType(b)] /\ LoopsQuiet
BY DEF UploadInv, UploadType, LoopsQuiet, BoundInv

LEMMA RowsSame ==
    ASSUME NEW b, UploadInv(b), session' = session, made' = made
    PROVE  session' \in [b.sessions -> RowType(b)] /\ made' \in [b.sessions -> Nat] /\ RowsQuiet(b)
BY DEF UploadInv, UploadType, RowsQuiet

LEMMA RowsStep ==
    ASSUME NEW b, UploadInv(b), NEW s \in b.sessions, NEW row \in RowType(b),
           session' = [session EXCEPT ![s] = row], made' = made,
           row.key = session[s].key, row.status = "none" <=> session[s].status = "none",
           session[s].status = "completed" => row.status = "completed"
    PROVE  session' \in [b.sessions -> RowType(b)] /\ made' \in [b.sessions -> Nat] /\ RowsQuiet(b)
BY DEF UploadInv, UploadType, RowsQuiet

LEMMA StatusStep ==
    ASSUME NEW b, UploadInv(b), NEW s \in b.sessions,
           NEW status \in {"expiring", "expired", "aborted"},
           Uploads(b)!SetStatus(s, status), made' = made,
           session[s].status \notin {"none", "completed"}
    PROVE  session' \in [b.sessions -> RowType(b)] /\ made' \in [b.sessions -> Nat] /\ RowsQuiet(b)
<1> DEFINE row == [session[s] EXCEPT !.status = status]
<1>1. session[s] \in RowType(b)
  BY DEF UploadInv, UploadType
<1>2. row \in RowType(b) /\ row.key = session[s].key /\ row.status = status
  BY <1>1 DEF RowType, Uploads!Open, Uploads!Ended
<1>3. session' = [session EXCEPT ![s] = row]
  BY DEF Uploads!SetStatus
<1> HIDE DEF row
<1> QED BY <1>2, <1>3, RowsStep

LEMMA FilesSame ==
    ASSUME NEW b, UploadInv(b), upload' = upload
    PROVE  upload' \in [b.sessions -> FileType] /\ FilesQuiet(b)
BY DEF UploadInv, UploadType, FilesQuiet

LEMMA FilesStep ==
    ASSUME NEW b, UploadInv(b), NEW s \in b.sessions, NEW file \in FileType,
           upload' = [upload EXCEPT ![s] = file], file.state # "none"
    PROVE  upload' \in [b.sessions -> FileType] /\ FilesQuiet(b)
BY DEF UploadInv, UploadType, FilesQuiet

LEMMA FilesGone ==
    ASSUME NEW b, UploadInv(b), NEW s \in b.sessions, Uploads(b)!AbortMultipart(s)
    PROVE  upload' \in [b.sessions -> FileType] /\ FilesQuiet(b)
<1>1. Uploads(b)!Gone \in FileType /\ Uploads(b)!Gone.state # "none"
  BY DEF FileType, Uploads!Gone
<1> QED BY <1>1, FilesStep DEF Uploads!AbortMultipart

LEMMA PartsStored ==
    ASSUME NEW b, UploadInv(b), NEW s \in b.sessions, NEW ps \in SUBSET Parts, Uploads(b)!Stores(s, ps)
    PROVE  upload' \in [b.sessions -> FileType] /\ FilesQuiet(b)
<1> DEFINE file == [upload[s] EXCEPT !.parts = @ \cup ps]
<1>1. upload[s] \in FileType /\ upload[s].state = "open"
  BY DEF UploadInv, UploadType, Uploads!Stores
<1>2. file \in FileType /\ file.state # "none"
  BY <1>1 DEF FileType
<1>3. upload' = [upload EXCEPT ![s] = file]
  BY DEF Uploads!Stores
<1> HIDE DEF file
<1> QED BY <1>2, <1>3, FilesStep

LEMMA ErrorsType ==
    ASSUME NEW b, UploadInv(b), errors' = errors \/ \E f : Uploads(b)!Fault(f)
    PROVE  errors' \in Nat
BY DEF UploadInv, UploadType, Uploads!Fault

LEMMA QuietStep ==
    ASSUME NEW b, UploadInv(b),
           session' \in [b.sessions -> RowType(b)], made' \in [b.sessions -> Nat], RowsQuiet(b),
           upload' \in [b.sessions -> FileType], FilesQuiet(b),
           calls' \in [Calls -> CallType(b)], CallsQuiet(b),
           loops' \in [Loops -> LoopType(b)], LoopsQuiet,
           stored' \subseteq b.sessions, due' \subseteq b.sessions, stale' \subseteq b.sessions,
           signed' \subseteq b.sessions \X Parts, errors' \in Nat
    PROVE  UploadInv(b)'
BY QuietInv DEF UploadType, Quiet

(* A step of a request that changes no row. *)
LEMMA RequestStep ==
    ASSUME NEW b, UploadInv(b), NEW c \in Calls, NEW next \in CallType(b),
           Uploads(b)!Become(c, next), next.step # "insert",
           next.step \in Bound => session[next.session].status # "none",
           upload' \in [b.sessions -> FileType], FilesQuiet(b), stored' \subseteq b.sessions,
           errors' = errors \/ \E f : Uploads(b)!Fault(f),
           UNCHANGED <<session, made, signed, due, stale, loops>>
    PROVE  UploadInv(b)'
<1>1. calls' \in [Calls -> CallType(b)] /\ CallsQuiet(b)
  BY CallsStep
<1>2. session' \in [b.sessions -> RowType(b)] /\ made' \in [b.sessions -> Nat] /\ RowsQuiet(b)
  BY RowsSame
<1>3. loops' \in [Loops -> LoopType(b)] /\ LoopsQuiet
  BY LoopsSame
<1>4. errors' \in Nat
  BY ErrorsType
<1>5. due' \subseteq b.sessions /\ stale' \subseteq b.sessions /\ signed' \subseteq b.sessions \X Parts
  BY DEF UploadInv, UploadType
<1> QED BY <1>1, <1>2, <1>3, <1>4, <1>5, QuietStep

(* A step of a request that changes no row and no file. *)
LEMMA RequestMoves ==
    ASSUME NEW b, UploadInv(b), NEW c \in Calls, NEW next \in CallType(b),
           Uploads(b)!Become(c, next), next.step # "insert",
           next.step \in Bound => session[next.session].status # "none",
           errors' = errors \/ \E f : Uploads(b)!Fault(f),
           UNCHANGED <<session, made, upload, stored, signed, due, stale, loops>>
    PROVE  UploadInv(b)'
<1>1. upload' \in [b.sessions -> FileType] /\ FilesQuiet(b)
  BY FilesSame
<1>2. stored' \subseteq b.sessions
  BY DEF UploadInv, UploadType
<1> QED BY <1>1, <1>2, RequestStep

LEMMA IdleCall == ASSUME NEW b
                  PROVE  /\ Uploads(b)!Idle \in CallType(b) /\ Uploads(b)!Idle \in LoopType(b)
                         /\ Uploads(b)!Idle.step = "idle" /\ Uploads(b)!Idle.step \notin Bound
BY DEF CallType, LoopType, Uploads!Idle, Bound

LEMMA StepCall ==
    ASSUME NEW b, NEW s \in b.sessions, NEW step \in Uploads(b)!CallSteps \cup {"undo"}
    PROVE  /\ [step |-> step, session |-> s] \in CallType(b)
           /\ [step |-> step, session |-> s].step # "insert"
           /\ [step |-> step, session |-> s].session = s
BY DEF CallType, Uploads!CallSteps

(* A request at a step knows its session. *)
LEMMA CallAt ==
    ASSUME NEW b, UploadInv(b), NEW c \in Calls, NEW s \in b.sessions, NEW step \in Bound,
           Uploads(b)!At(c, step, s)
    PROVE  /\ calls[c] \in CallType(b) /\ calls[c].step = step /\ calls[c].session = s
           /\ session[s].status # "none"
BY DEF UploadInv, UploadType, BoundInv, Uploads!At

LEMMA UploadBegins ==
    ASSUME NEW b, UploadInv(b), NEW c \in Calls,
           \/ \E k \in Keys : Uploads(b)!InitUpload(c, k)
           \/ \E s \in b.sessions, p \in Parts : Uploads(b)!UploadPart(c, s, p)
           \/ \E s \in b.sessions :
                Uploads(b)!Status(c, s) \/ Uploads(b)!CompleteUpload(c, s) \/ Uploads(b)!AbortUpload(c, s)
    PROVE  UploadInv(b)'
<1>1. ASSUME NEW k \in Keys, Uploads(b)!InitUpload(c, k)
      PROVE  UploadInv(b)'
  <2> DEFINE next == [step |-> "create", key |-> k]
  <2>1. next \in CallType(b) /\ next.step # "insert" /\ next.step \notin Bound
    BY DEF CallType, Bound
  <2>2. /\ Uploads(b)!Become(c, next)
        /\ UNCHANGED <<session, made, upload, stored, signed, due, stale, loops, errors>>
    BY <1>1 DEF Uploads!InitUpload, Uploads!rows, Uploads!storage, Uploads!clock
  <2> HIDE DEF next
  <2> QED BY <2>1, <2>2, RequestMoves
<1>2. ASSUME NEW s \in b.sessions, NEW p \in Parts, Uploads(b)!UploadPart(c, s, p)
      PROVE  UploadInv(b)'
  <2> DEFINE next == [step |-> "put", session |-> s, part |-> p, parts |-> session[s].parts]
  <2>1. session[s].parts \subseteq Parts /\ session[s].status # "none"
    BY <1>2 DEF UploadInv, UploadType, RowType, Uploads!UploadPart, Uploads!IsWritable, Uploads!Writable
  <2>2. next \in CallType(b) /\ next.step # "insert" /\ next.session = s
    BY <2>1 DEF CallType
  <2>3. /\ Uploads(b)!Become(c, next)
        /\ UNCHANGED <<session, made, upload, stored, signed, due, stale, loops, errors>>
    BY <1>2 DEF Uploads!UploadPart, Uploads!rows, Uploads!storage, Uploads!clock
  <2> HIDE DEF next
  <2> QED BY <2>1, <2>2, <2>3, RequestMoves
<1>3. ASSUME NEW s \in b.sessions,
             Uploads(b)!Status(c, s) \/ Uploads(b)!CompleteUpload(c, s) \/ Uploads(b)!AbortUpload(c, s)
      PROVE  UploadInv(b)'
  <2>1. PICK step \in {"list", "mark", "drop"} :
           /\ Uploads(b)!Become(c, [step |-> step, session |-> s])
           /\ session[s].status # "none"
           /\ UNCHANGED <<session, made, upload, stored, signed, due, stale, loops, errors>>
    BY <1>3 DEF Uploads!Status, Uploads!CompleteUpload, Uploads!AbortUpload, Uploads!Begins,
                Uploads!Writable, Uploads!rows, Uploads!storage, Uploads!clock
  <2> DEFINE next == [step |-> step, session |-> s]
  <2>2. next \in CallType(b) /\ next.step # "insert" /\ next.session = s
    BY StepCall DEF Uploads!CallSteps
  <2>3. Uploads(b)!Become(c, next)
    BY <2>1
  <2> HIDE DEF next
  <2> QED BY <2>1, <2>2, <2>3, RequestMoves
<1> QED BY <1>1, <1>2, <1>3

(* A session is opened for one request, which is then the only one to      *)
(* insert its row.                                                         *)
LEMMA UploadCreates ==
    ASSUME NEW b, UploadInv(b), NEW c \in Calls, NEW s \in b.sessions, Uploads(b)!CreateMultipart(c, s)
    PROVE  UploadInv(b)'
<1> DEFINE next == [step |-> "insert", key |-> calls[c].key, session |-> s]
           file == [state |-> "open", parts |-> {}]
<1>1. /\ session \in [b.sessions -> RowType(b)] /\ upload \in [b.sessions -> FileType]
      /\ calls \in [Calls -> CallType(b)]
  BY DEF UploadInv, UploadType
<1>2. /\ calls[c].step = "create" /\ upload[s].state = "none"
      /\ upload' = [upload EXCEPT ![s] = file] /\ calls' = [calls EXCEPT ![c] = next]
      /\ UNCHANGED <<session, made, stored, signed, due, stale, loops, errors>>
  BY DEF Uploads!CreateMultipart, Uploads!NoUpload, Uploads!Become, Uploads!rows, Uploads!clock
<1>3. calls[c].key \in Keys
  BY <1>1, <1>2, CallFields
<1>4. next \in CallType(b) /\ next.step = "insert" /\ next.session = s
  BY <1>3 DEF CallType
<1>5. file \in FileType /\ file.state = "open"
  BY DEF FileType
<1> HIDE DEF next, file
<1>6. calls'[c] = next /\ \A d \in Calls \ {c} : calls'[d] = calls[d]
  BY <1>1, <1>2
<1>7. upload'[s] = file /\ \A t \in b.sessions \ {s} : upload'[t] = upload[t]
  BY <1>1, <1>2
<1>8. UploadType(b)'
  <2>1. upload' \in [b.sessions -> FileType] /\ calls' \in [Calls -> CallType(b)]
    BY <1>1, <1>2, <1>4, <1>5
  <2>2. session' \in [b.sessions -> RowType(b)] /\ loops' \in [Loops -> LoopType(b)]
    BY <1>2 DEF UploadInv, UploadType
  <2> QED BY <1>2, <2>1, <2>2 DEF UploadInv, UploadType
<1>9. Blank(s) /\ \A d \in Calls : ~Inserting(d, s)
  BY <1>2 DEF UploadInv, FreshInv
<1>10. \A t \in b.sessions : Blank(t)' <=> Blank(t)
  BY <1>2 DEF Blank
<1>11. \A t \in b.sessions, d \in Calls : Inserting(d, t)' => Inserting(d, t) \/ (d = c /\ t = s)
  BY <1>4, <1>6 DEF Inserting
<1>12. FreshInv(b)'
  BY <1>5, <1>7, <1>10, <1>11 DEF UploadInv, FreshInv
<1>13. InsertInv(b)'
  BY <1>9, <1>10, <1>11 DEF UploadInv, InsertInv
<1>14. BoundInv'
  BY <1>2, <1>4, <1>6 DEF UploadInv, BoundInv, Bound
<1>15. MadeInv(b)' /\ KeyInv(b)'
  BY <1>2 DEF UploadInv, MadeInv, KeyInv
<1> QED BY <1>8, <1>12, <1>13, <1>14, <1>15 DEF UploadInv

(* The transaction that inserts a row finds its key unused. *)
LEMMA RowInserted ==
    ASSUME NEW b, UploadInv(b), NEW c \in Calls, NEW s \in b.sessions,
           Uploads(b)!At(c, "insert", s), Uploads(b)!Admits(calls[c].key),
           session' = [session EXCEPT ![s] = [status |-> "initialized", key |-> calls[c].key, parts |-> {}]],
           Uploads(b)!Become(c, Uploads(b)!Idle),
           UNCHANGED <<made, upload, stored, signed, due, stale, loops, errors>>
    PROVE  UploadInv(b)'
<1> DEFINE row == [status |-> "initialized", key |-> calls[c].key, parts |-> {}]
<1>1. /\ session \in [b.sessions -> RowType(b)] /\ calls \in [Calls -> CallType(b)]
  BY DEF UploadInv, UploadType
<1>2. Inserting(c, s)
  BY DEF Uploads!At, Inserting
<1>3. calls[c].key \in Keys
  BY <1>1, <1>2, CallFields DEF Inserting
<1>4. row \in RowType(b) /\ row.status = "initialized" /\ row.key = calls[c].key
  BY <1>3 DEF RowType, Uploads!Open, Uploads!Counted, Uploads!Writable
<1> HIDE DEF row
<1>5. session' = [session EXCEPT ![s] = row]
  BY DEF row
<1>6. session'[s] = row /\ \A t \in b.sessions \ {s} : session'[t] = session[t]
  BY <1>1, <1>5
<1>7. calls'[c].step = "idle" /\ \A d \in Calls \ {c} : calls'[d] = calls[d]
  BY <1>1, IdleCall DEF Uploads!Become
<1>8. UploadType(b)'
  <2>1. session' \in [b.sessions -> RowType(b)]
    BY <1>1, <1>4, <1>5
  <2>2. calls' \in [Calls -> CallType(b)]
    BY <1>1, IdleCall DEF Uploads!Become
  <2>3. loops' \in [Loops -> LoopType(b)] /\ upload' \in [b.sessions -> FileType]
    BY DEF UploadInv, UploadType
  <2> QED BY <2>1, <2>2, <2>3 DEF UploadInv, UploadType
<1>9. Blank(s) /\ \A d \in Calls : Inserting(d, s) => d = c
  BY <1>2 DEF UploadInv, InsertInv
<1>10. \A t \in b.sessions, d \in Calls : Inserting(d, t)' => d # c /\ Inserting(d, t) /\ t # s
  BY <1>7, <1>9 DEF Inserting
<1>11. \A t \in b.sessions \ {s} : Blank(t)' <=> Blank(t)
  BY <1>6 DEF Blank
<1>12. FreshInv(b)'
  <2>1. upload[s].state # "none"
    BY <1>2 DEF UploadInv, FreshInv
  <2> QED BY <1>10, <1>11, <2>1 DEF UploadInv, FreshInv
<1>13. InsertInv(b)'
  BY <1>10, <1>11 DEF UploadInv, InsertInv
<1>14. BoundInv'
  <2>1. \A d \in Calls : calls[d].step \in Bound => calls[d].session \in b.sessions
    BY <1>1, CallFields
  <2>2. \A w \in Loops : loops[w].step # "idle" => loops[w].session \in b.sessions
    BY DEF UploadInv, UploadType, LoopType, Uploads!Idle
  <2> QED BY <1>4, <1>6, <1>7, <2>1, <2>2 DEF UploadInv, BoundInv, Bound
<1>15. MadeInv(b)'
  <2>1. made[s] = 0
    BY <1>9 DEF Blank
  <2> QED BY <1>6, <2>1 DEF UploadInv, MadeInv
<1>16. KeyInv(b)'
  <2>1. \A t \in b.sessions : session[t].key # calls[c].key
    BY DEF Uploads!Admits
  <2> QED BY <1>4, <1>6, <2>1 DEF UploadInv, KeyInv
<1> QED BY <1>8, <1>12, <1>13, <1>14, <1>15, <1>16 DEF UploadInv

LEMMA UploadInserts ==
    ASSUME NEW b, UploadInv(b), NEW c \in Calls, NEW s \in b.sessions, Uploads(b)!Insert(c, s)
    PROVE  UploadInv(b)'
<1>1. /\ Uploads(b)!At(c, "insert", s)
      /\ UNCHANGED <<made, upload, stored, signed, due, stale, loops>>
  BY DEF Uploads!Insert, Uploads!storage, Uploads!clock
<1>2. CASE /\ Uploads(b)!Admits(calls[c].key)
           /\ session' = [session EXCEPT ![s] =
                            [status |-> "initialized", key |-> calls[c].key, parts |-> {}]]
           /\ Uploads(b)!Become(c, Uploads(b)!Idle)
           /\ UNCHANGED errors
  BY <1>1, <1>2, RowInserted
<1>3. CASE /\ Uploads(b)!GoesOn(c, "undo") /\ UNCHANGED session
           /\ (UNCHANGED errors \/ Uploads(b)!Fault("error"))
  <2> DEFINE next == [step |-> "undo", session |-> s]
  <2>1. next \in CallType(b) /\ next.step # "insert" /\ next.step \notin Bound
    BY StepCall DEF Bound
  <2>2. Uploads(b)!Become(c, next)
    BY <1>1, <1>3 DEF Uploads!GoesOn, Uploads!At
  <2> HIDE DEF next
  <2> QED BY <1>1, <1>3, <2>1, <2>2, RequestMoves
<1> QED BY <1>1, <1>2, <1>3 DEF Uploads!Insert

(* A request that has read its row goes on or ends, and changes no row. *)
LEMMA RequestGoesOn ==
    ASSUME NEW b, UploadInv(b), NEW c \in Calls, NEW s \in b.sessions, NEW step \in Bound,
           Uploads(b)!At(c, step, s),
           \/ Uploads(b)!Become(c, Uploads(b)!Idle)
           \/ \E next \in Uploads(b)!CallSteps : Uploads(b)!GoesOn(c, next),
           upload' \in [b.sessions -> FileType], FilesQuiet(b), stored' \subseteq b.sessions,
           errors' = errors \/ \E f : Uploads(b)!Fault(f),
           UNCHANGED <<session, made, signed, due, stale, loops>>
    PROVE  UploadInv(b)'
<1>1. calls[c].session = s /\ session[s].status # "none"
  BY CallAt
<1>2. CASE Uploads(b)!Become(c, Uploads(b)!Idle)
  <2>1. Uploads(b)!Idle.step # "insert"
    BY IdleCall
  <2> QED BY <1>2, <2>1, IdleCall, RequestStep
<1>3. CASE \E next \in Uploads(b)!CallSteps : Uploads(b)!GoesOn(c, next)
  <2>1. PICK next \in Uploads(b)!CallSteps : Uploads(b)!GoesOn(c, next)
    BY <1>3
  <2> DEFINE call == [step |-> next, session |-> s]
  <2>2. call \in CallType(b) /\ call.step # "insert" /\ call.session = s
    BY StepCall
  <2>3. Uploads(b)!Become(c, call)
    BY <1>1, <2>1 DEF Uploads!GoesOn
  <2> HIDE DEF call
  <2> QED BY <1>1, <2>2, <2>3, RequestStep
<1> QED BY <1>2, <1>3

LEMMA UploadUndo ==
    ASSUME NEW b, UploadInv(b), NEW c \in Calls, NEW s \in b.sessions, Uploads(b)!Undo(c, s)
    PROVE  UploadInv(b)'
<1>1. upload' \in [b.sessions -> FileType] /\ FilesQuiet(b)
  BY FilesGone, FilesSame DEF Uploads!Undo, Uploads!Withdraw
<1>2. /\ Uploads(b)!Become(c, Uploads(b)!Idle)
      /\ errors' = errors \/ \E f : Uploads(b)!Fault(f)
      /\ UNCHANGED <<session, made, stored, signed, due, stale, loops>>
  BY DEF Uploads!Undo, Uploads!rows, Uploads!clock
<1>3. stored' \subseteq b.sessions
  BY <1>2 DEF UploadInv, UploadType
<1>4. Uploads(b)!Idle.step # "insert"
  BY IdleCall
<1> QED BY <1>1, <1>2, <1>3, <1>4, IdleCall, RequestStep

(* A part is stored, and the parts to record are those read and it. *)
LEMMA UploadPuts ==
    ASSUME NEW b, UploadInv(b), NEW c \in Calls, NEW s \in b.sessions,
           Uploads(b)!PutPart(c, s) \/ Uploads(b)!ListParts(c, s)
    PROVE  UploadInv(b)'
<1>1. UNCHANGED <<session, made, stored, signed, due, stale, loops>>
  BY DEF Uploads!PutPart, Uploads!ListParts, Uploads!rows, Uploads!storage, Uploads!clock
<1>2. stored' \subseteq b.sessions
  BY <1>1 DEF UploadInv, UploadType
<1>3. errors' = errors \/ \E f : Uploads(b)!Fault(f)
  BY DEF Uploads!PutPart, Uploads!ListParts
<1>4. PICK step \in {"put", "list"} : Uploads(b)!At(c, step, s)
  BY DEF Uploads!PutPart, Uploads!ListParts
<1>5. /\ calls[c] \in CallType(b) /\ calls[c].step = step /\ calls[c].session = s
      /\ session[s].status # "none"
  BY <1>4, CallAt DEF Bound
<1>6. CASE Uploads(b)!Become(c, Uploads(b)!Idle) /\ UNCHANGED upload
  BY <1>1, <1>2, <1>3, <1>4, <1>6, FilesSame, RequestGoesOn DEF Bound
<1>7. ASSUME NEW parts \in SUBSET Parts, Uploads(b)!Recording(c, parts),
             upload' \in [b.sessions -> FileType], FilesQuiet(b)
      PROVE  UploadInv(b)'
  <2> DEFINE next == [step |-> "record", session |-> s, parts |-> parts]
  <2>1. next \in CallType(b) /\ next.step # "insert" /\ next.session = s
    BY DEF CallType
  <2>2. Uploads(b)!Become(c, next)
    BY <1>5, <1>7 DEF Uploads!Recording
  <2> HIDE DEF next
  <2> QED BY <1>1, <1>2, <1>3, <1>5, <1>7, <2>1, <2>2, RequestStep
<1>8. CASE Uploads(b)!PutPart(c, s) /\ Uploads(b)!Stores(s, {calls[c].part})
           /\ Uploads(b)!Recording(c, calls[c].parts \cup {calls[c].part})
  <2>1. calls[c].step = "put"
    BY <1>8 DEF Uploads!PutPart, Uploads!At
  <2>2. calls[c].part \in Parts /\ calls[c].parts \subseteq Parts
    BY <1>5, <2>1, CallFields
  <2>3. upload' \in [b.sessions -> FileType] /\ FilesQuiet(b)
    BY <1>8, <2>2, PartsStored
  <2> QED BY <1>7, <1>8, <2>2, <2>3
<1>9. CASE Uploads(b)!ListParts(c, s)
  <2>1. UNCHANGED upload
    BY <1>9 DEF Uploads!ListParts, Uploads!storage
  <2>2. upload[s].parts \subseteq Parts
    BY DEF UploadInv, UploadType, FileType
  <2> QED BY <1>6, <1>7, <1>9, <2>1, <2>2, FilesSame DEF Uploads!ListParts
<1> QED BY <1>6, <1>8, <1>9 DEF Uploads!PutPart, Uploads!FailsPut

LEMMA UploadRecords ==
    ASSUME NEW b, UploadInv(b), NEW c \in Calls, NEW s \in b.sessions, Uploads(b)!Record(c, s)
    PROVE  UploadInv(b)'
<1>1. /\ calls[c] \in CallType(b) /\ calls[c].step = "record" /\ session[s].status # "none"
  BY CallAt DEF Uploads!Record, Bound
<1>2. /\ Uploads(b)!Become(c, Uploads(b)!Idle)
      /\ UNCHANGED <<made, upload, stored, signed, due, stale, loops, errors>>
  BY DEF Uploads!Record, Uploads!storage, Uploads!clock
<1>3. session' \in [b.sessions -> RowType(b)] /\ made' \in [b.sessions -> Nat] /\ RowsQuiet(b)
  <2>1. CASE session[s].status \notin Uploads(b)!Writable
    BY <1>2, <2>1, RowsSame DEF Uploads!Record
  <2>2. CASE session[s].status \in Uploads(b)!Writable
    <3> DEFINE row == [session[s] EXCEPT !.status = "uploading", !.parts = calls[c].parts]
    <3>1. session[s] \in RowType(b) /\ calls[c].parts \subseteq Parts
      BY <1>1, CallFields DEF UploadInv, UploadType
    <3>2. /\ row \in RowType(b) /\ row.key = session[s].key /\ row.status = "uploading"
      BY <3>1 DEF RowType, Uploads!Open, Uploads!Counted, Uploads!Writable
    <3>3. session' = [session EXCEPT ![s] = row]
      BY <2>2 DEF Uploads!Record
    <3>4. session[s].status # "completed"
      BY <2>2 DEF Uploads!Writable
    <3> HIDE DEF row
    <3> QED BY <1>1, <1>2, <3>2, <3>3, <3>4, RowsStep
  <2> QED BY <2>1, <2>2
<1>4. calls' \in [Calls -> CallType(b)] /\ CallsQuiet(b)
  BY <1>2, IdleCall, CallsStep
<1>5. upload' \in [b.sessions -> FileType] /\ FilesQuiet(b) /\ loops' \in [Loops -> LoopType(b)] /\ LoopsQuiet
  BY <1>2, FilesSame, LoopsSame
<1> QED BY <1>2, <1>3, <1>4, <1>5, QuietStep DEF UploadInv, UploadType

LEMMA UploadMarks ==
    ASSUME NEW b, UploadInv(b), NEW c \in Calls, NEW s \in b.sessions, Uploads(b)!Mark(c, s)
    PROVE  UploadInv(b)'
<1>1. calls[c].session = s /\ session[s].status # "none"
  BY CallAt DEF Uploads!Mark, Bound
<1>2. UNCHANGED <<made, upload, stored, signed, due, stale, loops, errors>>
  BY DEF Uploads!Mark, Uploads!storage, Uploads!clock
<1>3. session' \in [b.sessions -> RowType(b)] /\ made' \in [b.sessions -> Nat] /\ RowsQuiet(b)
  <2>1. CASE UNCHANGED session
    BY <1>2, <2>1, RowsSame
  <2>2. CASE /\ session[s].status \notin Uploads(b)!Refuses \cup {"completed"}
             /\ session' = [session EXCEPT ![s].status = "completing", ![s].parts = Parts]
    <3> DEFINE row == [session[s] EXCEPT !.status = "completing", !.parts = Parts]
    <3>1. session[s] \in RowType(b)
      BY DEF UploadInv, UploadType
    <3>2. /\ row \in RowType(b) /\ row.key = session[s].key /\ row.status = "completing"
      BY <3>1 DEF RowType, Uploads!Open, Uploads!Counted
    <3>3. session' = [session EXCEPT ![s] = row]
      BY <2>2
    <3> HIDE DEF row
    <3> QED BY <1>1, <1>2, <2>2, <3>2, <3>3, RowsStep
  <2> QED BY <2>1, <2>2 DEF Uploads!Mark
<1>4. calls' \in [Calls -> CallType(b)] /\ CallsQuiet(b)
  <2>1. CASE Uploads(b)!Become(c, Uploads(b)!Idle)
    BY <2>1, IdleCall, CallsStep
  <2>2. CASE Uploads(b)!GoesOn(c, "merge")
    <3> DEFINE next == [step |-> "merge", session |-> s]
    <3>1. next \in CallType(b) /\ next.step # "insert" /\ next.session = s
      BY StepCall DEF Uploads!CallSteps
    <3>2. Uploads(b)!Become(c, next)
      BY <1>1, <2>2 DEF Uploads!GoesOn
    <3> HIDE DEF next
    <3> QED BY <1>1, <3>1, <3>2, CallsStep
  <2> QED BY <2>1, <2>2 DEF Uploads!Mark
<1>5. upload' \in [b.sessions -> FileType] /\ FilesQuiet(b) /\ loops' \in [Loops -> LoopType(b)] /\ LoopsQuiet
  BY <1>2, FilesSame, LoopsSame
<1> QED BY <1>2, <1>3, <1>4, <1>5, QuietStep DEF UploadInv, UploadType

LEMMA UploadMerges ==
    ASSUME NEW b, UploadInv(b), NEW c \in Calls, NEW s \in b.sessions, Uploads(b)!Merge(c, s)
    PROVE  UploadInv(b)'
<1>1. upload' \in [b.sessions -> FileType] /\ FilesQuiet(b) /\ stored' \subseteq b.sessions
  <2>1. CASE UNCHANGED <<upload, stored>>
    BY <2>1, FilesSame DEF UploadInv, UploadType
  <2>2. CASE Uploads(b)!Merges(s)
    <3> DEFINE file == IF b.local THEN [state |-> "merged", parts |-> {}] ELSE Uploads(b)!Gone
    <3>1. file \in FileType /\ file.state # "none"
      BY DEF FileType, Uploads!Gone
    <3>2. upload' = [upload EXCEPT ![s] = file]
      BY <2>2 DEF Uploads!Merges
    <3>3. stored' \subseteq b.sessions
      BY <2>2 DEF Uploads!Merges, UploadInv, UploadType
    <3> HIDE DEF file
    <3> QED BY <3>1, <3>2, <3>3, FilesStep
  <2> QED BY <2>1, <2>2 DEF Uploads!Merge
<1>2. /\ Uploads(b)!Become(c, Uploads(b)!Idle) \/ Uploads(b)!GoesOn(c, "commit")
      /\ errors' = errors \/ \E f : Uploads(b)!Fault(f)
      /\ UNCHANGED <<session, made, signed, due, stale, loops>>
  BY DEF Uploads!Merge, Uploads!rows, Uploads!clock
<1>3. Uploads(b)!At(c, "merge", s)
  BY DEF Uploads!Merge
<1> QED BY <1>1, <1>2, <1>3, RequestGoesOn DEF Bound, Uploads!CallSteps

(* The transaction that makes the asset finds the session completing, and  *)
(* completes it.                                                           *)
LEMMA AssetMade ==
    ASSUME NEW b, UploadInv(b), NEW s \in b.sessions, Uploads(b)!Commits(s), Uploads(b)!MakesAsset(s),
           calls' \in [Calls -> CallType(b)], CallsQuiet(b),
           errors' = errors \/ \E f : Uploads(b)!Fault(f),
           UNCHANGED <<upload, stored, signed, due, stale, loops>>
    PROVE  UploadInv(b)'
<1> DEFINE row == [session[s] EXCEPT !.status = "completed"]
<1>1. /\ session \in [b.sessions -> RowType(b)] /\ made \in [b.sessions -> Nat]
      /\ session[s].status = "completing"
  BY DEF UploadInv, UploadType, Uploads!Commits
<1>2. row \in RowType(b) /\ row.status = "completed" /\ row.key = session[s].key
  BY <1>1 DEF RowType, Uploads!Open, Uploads!Ended
<1>3. session' = [session EXCEPT ![s] = row] /\ made' = [made EXCEPT ![s] = made[s] + 1]
  BY DEF Uploads!MakesAsset, Uploads!SetStatus
<1> HIDE DEF row
<1>4. session'[s] = row /\ \A t \in b.sessions \ {s} : session'[t] = session[t] /\ made'[t] = made[t]
  BY <1>1, <1>3
<1>5. made[s] = 0 /\ made'[s] = 1
  BY <1>1, <1>3 DEF UploadInv, MadeInv
<1>6. UploadType(b)'
  <2>1. session' \in [b.sessions -> RowType(b)] /\ made' \in [b.sessions -> Nat]
    BY <1>1, <1>2, <1>3
  <2>2. errors' \in Nat
    BY ErrorsType
  <2>3. loops' \in [Loops -> LoopType(b)] /\ upload' \in [b.sessions -> FileType]
    BY DEF UploadInv, UploadType
  <2> QED BY <2>1, <2>2, <2>3 DEF UploadInv, UploadType
<1>7. \A t \in b.sessions : /\ session'[t].status = "none" <=> session[t].status = "none"
                            /\ session'[t].key = session[t].key
  BY <1>1, <1>2, <1>4
<1>8. \A t \in b.sessions, d \in Calls : Inserting(d, t)' => Inserting(d, t)
  BY DEF CallsQuiet, Inserting
<1>9. \A t \in b.sessions : Blank(t) => Blank(t)'
  BY <1>1, <1>4 DEF Blank
<1>10. FreshInv(b)' /\ InsertInv(b)'
  BY <1>8, <1>9 DEF UploadInv, FreshInv, InsertInv
<1>11. BoundInv'
  <2>1. \A d \in Calls : calls'[d].step \in Bound => calls'[d].session \in b.sessions
    BY CallFields
  <2>2. \A w \in Loops : loops[w].step # "idle" => loops[w].session \in b.sessions
    BY DEF UploadInv, UploadType, LoopType, Uploads!Idle
  <2> QED BY <1>7, <2>1, <2>2 DEF UploadInv, BoundInv, CallsQuiet
<1>12. MadeInv(b)'
  BY <1>2, <1>4, <1>5 DEF UploadInv, MadeInv
<1>13. KeyInv(b)'
  BY <1>7 DEF UploadInv, KeyInv
<1> QED BY <1>6, <1>10, <1>11, <1>12, <1>13 DEF UploadInv

LEMMA UploadCommits ==
    ASSUME NEW b, UploadInv(b), NEW c \in Calls, NEW s \in b.sessions, Uploads(b)!Commit(c, s)
    PROVE  UploadInv(b)'
<1>1. calls[c].session = s /\ session[s].status # "none"
  BY CallAt DEF Uploads!Commit, Bound
<1>2. /\ Uploads(b)!At(c, "commit", s)
      /\ Uploads(b)!Become(c, Uploads(b)!Idle) \/ Uploads(b)!GoesOn(c, "delete")
      /\ errors' = errors \/ \E f : Uploads(b)!Fault(f)
      /\ UNCHANGED <<upload, stored, signed, due, stale, loops>>
  BY DEF Uploads!Commit, Uploads!storage, Uploads!clock
<1>3. calls' \in [Calls -> CallType(b)] /\ CallsQuiet(b)
  <2>1. CASE Uploads(b)!Become(c, Uploads(b)!Idle)
    BY <2>1, IdleCall, CallsStep
  <2>2. CASE Uploads(b)!GoesOn(c, "delete")
    <3> DEFINE next == [step |-> "delete", session |-> s]
    <3>1. next \in CallType(b) /\ next.step # "insert" /\ next.session = s
      BY StepCall DEF Uploads!CallSteps
    <3>2. Uploads(b)!Become(c, next)
      BY <1>1, <2>2 DEF Uploads!GoesOn
    <3> HIDE DEF next
    <3> QED BY <1>1, <3>1, <3>2, CallsStep
  <2> QED BY <1>2, <2>1, <2>2
<1>4. CASE Uploads(b)!Commits(s) /\ Uploads(b)!MakesAsset(s)
  BY <1>2, <1>3, <1>4, AssetMade
<1>5. CASE UNCHANGED <<session, made>>
  <2>1. upload' \in [b.sessions -> FileType] /\ FilesQuiet(b) /\ stored' \subseteq b.sessions
    BY <1>2, FilesSame DEF UploadInv, UploadType
  <2> QED BY <1>2, <1>5, <2>1, RequestGoesOn DEF Bound, Uploads!CallSteps
<1> QED BY <1>4, <1>5 DEF Uploads!Commit, Uploads!rows

LEMMA UploadDeletes ==
    ASSUME NEW b, UploadInv(b), NEW c \in Calls, NEW s \in b.sessions,
           Uploads(b)!Delete(c, s) \/ Uploads(b)!DropParts(c, s)
    PROVE  UploadInv(b)'
<1>1. PICK step \in {"delete", "drop"} : Uploads(b)!At(c, step, s)
  BY DEF Uploads!Delete, Uploads!DropParts
<1>2. /\ Uploads(b)!Become(c, Uploads(b)!Idle) \/ Uploads(b)!GoesOn(c, "close")
      /\ errors' = errors \/ \E f : Uploads(b)!Fault(f)
      /\ UNCHANGED <<session, made, signed, due, stale, loops>>
  BY DEF Uploads!Delete, Uploads!DropParts, Uploads!rows, Uploads!clock
<1>3. upload' \in [b.sessions -> FileType] /\ FilesQuiet(b)
  BY FilesSame, FilesGone DEF Uploads!Delete, Uploads!DropParts
<1>4. stored' \subseteq b.sessions
  BY DEF Uploads!Delete, Uploads!DropParts, UploadInv, UploadType
<1> QED BY <1>1, <1>2, <1>3, <1>4, RequestGoesOn DEF Bound, Uploads!CallSteps

LEMMA UploadCloses ==
    ASSUME NEW b, UploadInv(b), NEW c \in Calls, NEW s \in b.sessions, Uploads(b)!Close(c, s)
    PROVE  UploadInv(b)'
<1>1. session[s].status # "none"
  BY CallAt DEF Uploads!Close, Bound
<1>2. /\ Uploads(b)!Become(c, Uploads(b)!Idle)
      /\ UNCHANGED <<made, upload, stored, signed, due, stale, loops, errors>>
  BY DEF Uploads!Close, Uploads!storage, Uploads!clock
<1>3. session' \in [b.sessions -> RowType(b)] /\ made' \in [b.sessions -> Nat] /\ RowsQuiet(b)
  BY <1>1, <1>2, RowsSame, StatusStep DEF Uploads!Close, Uploads!Closes
<1>4. calls' \in [Calls -> CallType(b)] /\ CallsQuiet(b)
  BY <1>2, IdleCall, CallsStep
<1>5. upload' \in [b.sessions -> FileType] /\ FilesQuiet(b) /\ loops' \in [Loops -> LoopType(b)] /\ LoopsQuiet
  BY <1>2, FilesSame, LoopsSame
<1> QED BY <1>2, <1>3, <1>4, <1>5, QuietStep DEF UploadInv, UploadType

LEMMA UploadDies ==
    ASSUME NEW b, UploadInv(b), NEW c \in Calls, Uploads(b)!Die(c)
    PROVE  UploadInv(b)'
<1>1. /\ Uploads(b)!Become(c, Uploads(b)!Idle) /\ Uploads(b)!Fault("die")
      /\ UNCHANGED <<session, made, upload, stored, signed, due, stale, loops>>
  BY DEF Uploads!Die, Uploads!rows, Uploads!storage, Uploads!clock
<1>2. Uploads(b)!Idle.step # "insert"
  BY IdleCall
<1> QED BY <1>1, <1>2, IdleCall, RequestMoves

LEMMA UploadProceeds ==
    ASSUME NEW b, UploadInv(b), NEW c \in Calls, Uploads(b)!Proceed(c)
    PROVE  UploadInv(b)'
BY UploadCreates, UploadInserts, UploadUndo, UploadPuts, UploadRecords, UploadMarks, UploadMerges,
   UploadCommits, UploadDeletes, UploadCloses DEF Uploads!Proceed

(* What the client sends to S3, the clock and the sweep of stored objects  *)
(* change no row and no request.                                           *)
LEMMA UploadPasses ==
    ASSUME NEW b, UploadInv(b),
           \/ \E s \in b.sessions, p \in Parts : Uploads(b)!SignPart(s, p) \/ Uploads(b)!PutSigned(s, p)
           \/ \E s \in b.sessions : \/ Uploads(b)!Expire(s) \/ Uploads(b)!SweepObject(s)
                                    \/ Uploads(b)!SweepFiles(s) \/ Uploads(b)!RunOut(s)
    PROVE  UploadInv(b)'
<1>1. UNCHANGED <<session, made, calls, loops>>
  BY DEF Uploads!SignPart, Uploads!PutSigned, Uploads!Expire, Uploads!SweepObject, Uploads!SweepFiles,
         Uploads!RunOut, Uploads!rows
<1>2. upload' \in [b.sessions -> FileType] /\ FilesQuiet(b)
  <2>1. CASE UNCHANGED upload
    BY <2>1, FilesSame
  <2>2. ASSUME NEW s \in b.sessions, NEW p \in Parts, Uploads(b)!PutSigned(s, p)
        PROVE  upload' \in [b.sessions -> FileType] /\ FilesQuiet(b)
    BY <2>2, PartsStored DEF Uploads!PutSigned
  <2>3. ASSUME NEW s \in b.sessions, Uploads(b)!SweepFiles(s)
        PROVE  upload' \in [b.sessions -> FileType] /\ FilesQuiet(b)
    BY <2>3, FilesGone DEF Uploads!SweepFiles, Uploads!AbortMultipart
  <2> QED BY <2>1, <2>2, <2>3 DEF Uploads!SignPart, Uploads!Expire, Uploads!SweepObject, Uploads!RunOut,
                                  Uploads!storage
<1>3. /\ stored' \subseteq b.sessions /\ due' \subseteq b.sessions /\ stale' \subseteq b.sessions
      /\ signed' \subseteq b.sessions \X Parts
  <2>1. /\ stored \subseteq b.sessions /\ due \subseteq b.sessions /\ stale \subseteq b.sessions
        /\ signed \subseteq b.sessions \X Parts
    BY DEF UploadInv, UploadType
  <2>2. ASSUME NEW s \in b.sessions, NEW p \in Parts, Uploads(b)!SignPart(s, p)
        PROVE  signed' = signed \cup {<<s, p>>} /\ UNCHANGED <<stored, due, stale>>
    BY <2>2 DEF Uploads!SignPart, Uploads!clock
  <2>3. ASSUME NEW s \in b.sessions, NEW p \in Parts, Uploads(b)!PutSigned(s, p)
        PROVE  UNCHANGED <<signed, stored, due, stale>>
    BY <2>3 DEF Uploads!PutSigned, Uploads!clock
  <2>4. ASSUME NEW s \in b.sessions,
               \/ Uploads(b)!Expire(s) \/ Uploads(b)!SweepObject(s)
               \/ Uploads(b)!SweepFiles(s) \/ Uploads(b)!RunOut(s)
        PROVE  /\ signed' = signed /\ stored' \subseteq stored
               /\ due' \subseteq due \cup {s} /\ stale' \subseteq stale \cup {s}
    BY <2>4 DEF Uploads!Expire, Uploads!SweepObject, Uploads!SweepFiles, Uploads!RunOut,
                Uploads!storage, Uploads!clock
  <2> QED BY <2>1, <2>2, <2>3, <2>4
<1>4. errors' \in Nat
  <2>1. errors' = errors \/ \E f : Uploads(b)!Fault(f)
    BY DEF Uploads!SignPart, Uploads!PutSigned, Uploads!Expire, Uploads!SweepObject, Uploads!SweepFiles,
           Uploads!RunOut
  <2> QED BY <2>1, ErrorsType
<1>5. /\ session' \in [b.sessions -> RowType(b)] /\ made' \in [b.sessions -> Nat] /\ RowsQuiet(b)
      /\ calls' \in [Calls -> CallType(b)] /\ CallsQuiet(b)
      /\ loops' \in [Loops -> LoopType(b)] /\ LoopsQuiet
  BY <1>1, RowsSame, CallsSame, LoopsSame
<1> QED BY <1>2, <1>3, <1>4, <1>5, QuietStep

(* The cleanup role claims a session, drops its parts and closes it. *)
LEMMA UploadExpires ==
    ASSUME NEW b, UploadInv(b), NEW w \in Loops, NEW s \in b.sessions,
           Uploads(b)!Claim(w, s) \/ Uploads(b)!ExpiryDrops(w, s) \/ Uploads(b)!ExpiryFinishes(w, s)
    PROVE  UploadInv(b)'
<1>1. UNCHANGED <<made, stored, signed, due, calls>>
  BY DEF Uploads!Claim, Uploads!ExpiryDrops, Uploads!ExpiryFinishes, Uploads!rows, Uploads!storage,
         Uploads!clock
<1>2. calls' \in [Calls -> CallType(b)] /\ CallsQuiet(b)
  BY <1>1, CallsSame
<1>3. errors' \in Nat
  <2>1. errors' = errors \/ \E f : Uploads(b)!Fault(f)
    BY DEF Uploads!Claim, Uploads!ExpiryDrops, Uploads!ExpiryFinishes
  <2> QED BY <2>1, ErrorsType
<1>4. upload' \in [b.sessions -> FileType] /\ FilesQuiet(b)
  BY FilesSame, FilesGone DEF Uploads!Claim, Uploads!ExpiryDrops, Uploads!ExpiryFinishes, Uploads!storage
<1>5. session' \in [b.sessions -> RowType(b)] /\ made' \in [b.sessions -> Nat] /\ RowsQuiet(b)
  <2>1. CASE UNCHANGED session
    BY <1>1, <2>1, RowsSame
  <2>2. CASE Uploads(b)!Claim(w, s)
    <3>1. session[s].status \notin {"none", "completed"}
      BY <2>2 DEF Uploads!Claim, Uploads!Claimable, Uploads!Counted, Uploads!Writable
    <3> QED BY <1>1, <2>2, <3>1, StatusStep DEF Uploads!Claim
  <2>3. CASE session[s].status = "expiring" /\ Uploads(b)!SetStatus(s, "expired")
    BY <1>1, <2>3, StatusStep
  <2> QED BY <2>1, <2>2, <2>3 DEF Uploads!ExpiryDrops, Uploads!ExpiryFinishes, Uploads!rows
<1>6. loops' \in [Loops -> LoopType(b)] /\ LoopsQuiet
  <2>1. loops \in [Loops -> LoopType(b)] /\ BoundInv
    BY DEF UploadInv, UploadType
  <2>2. CASE loops' = [loops EXCEPT ![w] = Uploads(b)!Idle]
    BY <2>2, IdleCall, LoopsStep
  <2>3. CASE Uploads(b)!Claim(w, s)
    <3> DEFINE next == [step |-> "drop", session |-> s]
    <3>1. next \in LoopType(b) /\ next.session = s
      BY DEF LoopType
    <3>2. session[s].status # "none" /\ loops' = [loops EXCEPT ![w] = next]
      BY <2>3 DEF Uploads!Claim, Uploads!Claimable, Uploads!Counted, Uploads!Writable
    <3> HIDE DEF next
    <3> QED BY <3>1, <3>2, LoopsStep
  <2>4. CASE /\ loops[w] = [step |-> "drop", session |-> s]
             /\ loops' = [loops EXCEPT ![w].step = "finish"]
    <3> DEFINE next == [step |-> "finish", session |-> s]
    <3>1. next \in LoopType(b) /\ next.session = s
      BY DEF LoopType
    <3>2. [loops[w] EXCEPT !.step = "finish"] = next
      BY <2>4
    <3>3. loops' = [loops EXCEPT ![w] = next]
      BY <2>4, <3>2
    <3>4. session[s].status # "none"
      BY <2>1, <2>4 DEF BoundInv
    <3> HIDE DEF next
    <3> QED BY <3>1, <3>3, <3>4, LoopsStep
  <2> QED BY <2>2, <2>3, <2>4 DEF Uploads!ExpiryDrops, Uploads!ExpiryFinishes
<1>7. stale' \subseteq b.sessions
  BY DEF Uploads!Claim, Uploads!ExpiryDrops, Uploads!ExpiryFinishes, Uploads!clock, UploadInv, UploadType
<1>8. stored' \subseteq b.sessions /\ due' \subseteq b.sessions /\ signed' \subseteq b.sessions \X Parts
  BY <1>1 DEF UploadInv, UploadType
<1> QED BY <1>2, <1>3, <1>4, <1>5, <1>6, <1>7, <1>8, QuietStep

LEMMA UploadNext ==
    ASSUME NEW b, UploadInv(b), Uploads(b)!Next
    PROVE  UploadInv(b)'
BY UploadBegins, UploadProceeds, UploadDies, UploadPasses, UploadExpires
   DEF Uploads!Next, Uploads!ExpiryGoesOn

LEMMA UploadSame ==
    ASSUME NEW b, UploadInv(b), UNCHANGED uploadVars
    PROVE  UploadInv(b)'
BY DEF uploadVars, UploadInv, UploadType, FreshInv, InsertInv, BoundInv, MadeInv, KeyInv, Blank,
       Inserting

(* The invariant of the backend the program is started with. *)
StorageInv ==
    /\ part \in {"cleanup", "local", "s3"}
    /\ part = "local" => UploadInv(Disk)
    /\ part = "s3" => UploadInv(S3)

LEMMA StorageInductive == StorageSpec => []StorageInv
<1>1. StorageInit => StorageInv
  BY UploadInit DEF StorageInit, StorageInv
<1>2. StorageInv /\ [StorageNext]_storageVars => StorageInv'
  <2> SUFFICES ASSUME StorageInv, [StorageNext]_storageVars PROVE StorageInv'
    OBVIOUS
  <2>1. part' = part
    BY DEF StorageNext, storageVars
  <2>2. CASE part = "local"
    <3>1. Uploads(Disk)!Next \/ UNCHANGED uploadVars
      BY <2>2 DEF StorageNext, storageVars
    <3> QED BY <2>1, <2>2, <3>1, UploadNext, UploadSame DEF StorageInv
  <2>3. CASE part = "s3"
    <3>1. Uploads(S3)!Next \/ UNCHANGED uploadVars
      BY <2>3 DEF StorageNext, storageVars
    <3> QED BY <2>1, <2>3, <3>1, UploadNext, UploadSame DEF StorageInv
  <2>4. CASE part = "cleanup"
    BY <2>1, <2>4 DEF StorageInv
  <2> QED BY <2>2, <2>3, <2>4 DEF StorageInv
<1> QED BY <1>1, <1>2, PTL DEF StorageSpec

(* Rows, uploads and requests are well formed, on either backend.          *)
THEOREM UploadsTyped ==
    StorageSpec => [](/\ part = "local" => Uploads(Disk)!TypeOK
                      /\ part = "s3" => Uploads(S3)!TypeOK)
<1>1. StorageInv => /\ part = "local" => Uploads(Disk)!TypeOK
                    /\ part = "s3" => Uploads(S3)!TypeOK
  BY UploadTypes DEF StorageInv, UploadInv
<1> QED BY <1>1, StorageInductive, PTL

(* The requests of a client that repeats its initialisation and completion *)
(* make one asset, on either backend: the key of a session is unused when  *)
(* its row is inserted, and the transaction that makes an asset completes  *)
(* its session (CreateUpload, CompleteUpload).                             *)
THEOREM OneAssetHolds == StorageSpec => []OneAsset
<1>1. ASSUME NEW b, UploadInv(b)
      PROVE  Uploads(b)!OneAsset
  <2> SUFFICES ASSUME NEW s \in b.sessions, NEW t \in b.sessions
               PROVE  /\ made[s] <= 1
                      /\ made[s] > 0 /\ made[t] > 0 /\ session[s].key = session[t].key => s = t
    BY DEF Uploads!OneAsset
  <2> QED BY <1>1 DEF UploadInv, MadeInv, KeyInv
<1>2. StorageInv => OneAsset
  BY <1>1 DEF StorageInv, OneAsset
<1> QED BY <1>2, StorageInductive, PTL
=============================================================================
