--------------------------- MODULE ImageTaskProofs ---------------------------
(***************************************************************************)
(* Theorems about ImageTask for every number of tasks, requests, slots,    *)
(* processes, providers, attempts and faults.  Slots may share a process   *)
(* and requests a task; a theorem speaks of the behaviours in which no two *)
(* slots of one process are at work on one task at once and no two         *)
(* requests of one task get past their check.  The code excludes neither,  *)
(* and the README says what goes wrong when one happens.                   *)
(***************************************************************************)
EXTENDS ImageTask, TLAPS

(* A slot that is still at work when its lease lapses meets a second one on *)
(* its task only in another process, whose writes the owner tells apart.   *)
SlotsApart ==
    \A s, q \in Slots :
        /\ s # q
        /\ slots[s].step # "idle" /\ slots[q].step # "idle" /\ slots[s].task = slots[q].task
        => OwnerOf[s] # OwnerOf[q]

(* While a request has its task in hand, all others with its idempotency   *)
(* key are still to check for the row.                                     *)
RequestsApart ==
    \A r, q \in Requests :
        r # q /\ TaskOf[r] = TaskOf[q] /\ requests[r].step \notin {"check", "done"} =>
            requests[q].step = "check"

Undisturbed == SlotsApart /\ RequestsApart

-----------------------------------------------------------------------------
(* The inductive invariant.  A slot is in flight from the mark it saves    *)
(* before a call to the provider's answer; a task whose row, or whose copy *)
(* in the hands of its holder, carries no mark has no call out and no slot *)
(* in flight, so the next call is the only one.                            *)

InFlight(s, t) == slots[s].step \in {"submit", "answer"} /\ slots[s].task = t
Unsent(t) == calls[t] = 0 /\ \A s \in Slots : ~InFlight(s, t)
Loaded(s) == slots[s].step \notin {"idle", "load"}

(* Attempts that are used up leave an error and nothing to recover.        *)
Finite(copy) == copy.tries < Attempts \/ (copy.error /\ copy.payload = "none")

SlotBounds(slot) ==
    /\ slot.step \in {"load", "mark", "submit", "answer"} => slot.tried < Candidates
    /\ slot.step \notin {"idle", "load"} =>
           /\ slot.copy.status = "running"
           /\ Finite(slot.copy)
           /\ slot.step \in {"reject", "save", "settle", "final"} \/ slot.copy.tries < Attempts
           /\ slot.step \in {"mark", "clear"} => ~slot.copy.started

RowBounds(row) ==
    /\ Finite(row)
    /\ row.status = "none" => ~row.started

Bounds ==
    /\ \A s \in Slots : SlotBounds(slots[s])
    /\ \A t \in Tasks : RowBounds(rows[t])

RequestedIsNew ==
    \A r \in Requests :
        requests[r].step \in {"reserve", "save", "insert"} => rows[TaskOf[r]].status = "none"

CallsFollowSteps ==
    /\ \A t \in Tasks : calls[t] \in {0, 1}
    /\ \A s \in Slots : slots[s].step = "submit" => calls[slots[s].task] = 0
    /\ \A s \in Slots : slots[s].step = "answer" => calls[slots[s].task] = 1
    /\ \A s, q \in Slots, t \in Tasks : InFlight(s, t) /\ InFlight(q, t) => s = q

MarksAreKept ==
    /\ \A t \in Tasks : ~rows[t].started => Unsent(t)
    /\ \A s \in Slots :
           Loaded(s) /\ Holds(s) /\ ~slots[s].copy.started => Unsent(slots[s].task)

Flight == CallsFollowSteps /\ MarksAreKept
TaskInv == TypeOK /\ Bounds /\ RequestedIsNew /\ Flight

-----------------------------------------------------------------------------
(* Typing of rows and slots *)

LEMMA Parameters ==
    /\ 0 < Attempts /\ Attempts \in Nat /\ Candidates \in Nat /\ 0 < Candidates
    /\ Estimate \in Nat /\ 0 < Estimate /\ Charges \subseteq 1 .. Estimate /\ MaxFaults \in Nat
BY ImageTaskAssumption

LEMMA NewRowType ==
    ASSUME NEW status \in {"none", "queued", "failed"}
    PROVE  NewRow(status) \in Rows /\ RowBounds(NewRow(status)) /\ ~NewRow(status).started
           /\ NewRow(status).status = status
<1>1. 0 \in 0 .. Attempts /\ 0 \in 0 .. Estimate
  BY Parameters
<1> QED BY <1>1, Parameters DEF NewRow, Rows, RowBounds, Finite, FinalStatuses

(* A slot that is doing something has a task and a copy.                   *)
LEMMA AtWork ==
    ASSUME TypeOK, NEW s \in Slots, slots[s].step # "idle"
    PROVE  slots[s] \in Working /\ slots[s].task \in Tasks /\ slots[s].copy \in Rows
<1>1. slots[s] \in {Idle} \cup Working
  BY DEF TypeOK
<1>2. slots[s] # Idle
  BY DEF Idle
<1> QED BY <1>1, <1>2 DEF Working

LEMMA IdleBounds == Idle.step = "idle" /\ SlotBounds(Idle)
BY DEF Idle, SlotBounds

(* What a slot becomes is all that changes among the slots.                *)
LEMMA BecomeFacts ==
    ASSUME TypeOK, NEW s \in Slots, NEW slot \in {Idle} \cup Working, Become(s, slot)
    PROVE  /\ slots' \in [Slots -> {Idle} \cup Working]
           /\ slots'[s] = slot
           /\ \A q \in Slots : q # s => slots'[q] = slots[q]
BY DEF TypeOK, Become

(* A write of a copy changes one row, and of that row no lease column that *)
(* the copy's status would keep.                                           *)
LEMMA WriteFacts ==
    ASSUME TypeOK, NEW s \in Slots, slots[s].step # "idle", NEW copy \in Rows, Write(s, copy)
    PROVE  /\ rows' \in [Tasks -> Rows]
           /\ \A t \in Tasks : t # slots[s].task => rows'[t] = rows[t]
           /\ LET row == rows'[slots[s].task]
              IN /\ row.status = copy.status /\ row.started = copy.started
                 /\ row.tries = copy.tries /\ row.error = copy.error
                 /\ row.payload = copy.payload
                 /\ copy.status = "running" => row.owner = rows[slots[s].task].owner
<1> DEFINE t == slots[s].task
           new == IF copy.status = "running"
                  THEN [copy EXCEPT !.owner = rows[t].owner, !.fresh = rows[t].fresh]
                  ELSE [copy EXCEPT !.owner = Nobody, !.fresh = FALSE]
<1>1. t \in Tasks /\ rows[t] \in Rows
  BY AtWork DEF TypeOK
<1>2. rows[t].owner \in Owners \cup {Nobody} /\ rows[t].fresh \in BOOLEAN
  BY <1>1 DEF Rows
<1>3. new \in Rows
  BY <1>2 DEF Rows
<1>4. /\ new.status = copy.status /\ new.started = copy.started
      /\ new.tries = copy.tries /\ new.error = copy.error /\ new.payload = copy.payload
      /\ copy.status = "running" => new.owner = rows[t].owner
  BY <1>2 DEF Rows
<1>5. rows' = [rows EXCEPT ![t] = new]
  BY DEF Write
<1> HIDE DEF new
<1>6. rows'[t] = new
  BY <1>1, <1>5 DEF TypeOK
<1>7. \A u \in Tasks : u # t => rows'[u] = rows[u]
  BY <1>5 DEF TypeOK
<1>8. rows' \in [Tasks -> Rows]
  BY <1>1, <1>3, <1>5 DEF TypeOK
<1> QED BY <1>4, <1>6, <1>7, <1>8

(* failOwnedTask makes no copy that a save could not take.                 *)
LEMMA FailingFacts ==
    ASSUME NEW slot \in Working, slot.copy.status = "running",
           slot.copy.tries < Attempts \/ slot.copy.payload = "none"
    PROVE  /\ Failing(slot) \in Working
           /\ Failing(slot).step = "save" /\ Failing(slot).task = slot.task
           /\ Failing(slot).copy.started = slot.copy.started
           /\ SlotBounds(Failing(slot))
<1>1. slot.copy \in Rows
  BY DEF Working
<1>2. 0 \in 0 .. Estimate
  BY Parameters
<1> DEFINE copy == [slot.copy EXCEPT !.error = TRUE, !.actual = 0]
<1>3. copy \in Rows /\ copy.error = TRUE /\ copy.status = "running"
      /\ copy.started = slot.copy.started
      /\ copy.tries = slot.copy.tries /\ copy.payload = slot.copy.payload
  BY <1>1, <1>2 DEF Rows
<1>4. Failing(slot) = [slot EXCEPT !.step = "save", !.end = "failed", !.rescue = TRUE,
                                   !.copy = copy]
  BY DEF Failing, Working
<1> HIDE DEF copy
<1>5. Failing(slot) \in Working /\ Failing(slot).step = "save" /\ Failing(slot).copy = copy
      /\ Failing(slot).task = slot.task
  BY <1>3, <1>4 DEF Working, SlotSteps
<1> QED BY <1>3, <1>5 DEF SlotBounds, Finite

-----------------------------------------------------------------------------
(* Steps of a slot *)

(* A step that calls no provider keeps the invariant if it leaves the slot *)
(* out of flight, with a copy that is marked or a task that is unsent, and *)
(* writes nothing, or as the holder a copy of that kind.                   *)
LEMMA SlotStep ==
    ASSUME TaskInv, SlotsApart, NEW s \in Slots, slots[s].step # "idle",
           NEW slot \in {Idle} \cup Working, Become(s, slot), SlotBounds(slot),
           slot.step \notin {"submit", "answer"},
           slot.step # "idle" => slot.task = slots[s].task,
           slot.step # "idle" /\ slot.step # "load" /\ Holds(s) /\ ~slot.copy.started
               => Unsent(slots[s].task),
           NEW copy \in Rows,
           \/ UNCHANGED rows
           \/ /\ Holds(s) /\ Write(s, copy) /\ RowBounds(copy) /\ copy.status # "none"
              /\ ~copy.started => Unsent(slots[s].task),
           UNCHANGED <<calls, lost, requests>>
    PROVE  /\ slots' \in [Slots -> {Idle} \cup Working] /\ rows' \in [Tasks -> Rows]
           /\ Bounds' /\ RequestedIsNew' /\ Flight'
<1> DEFINE t == slots[s].task
<1>1. /\ slots' \in [Slots -> {Idle} \cup Working]
      /\ slots'[s] = slot
      /\ \A q \in Slots : q # s => slots'[q] = slots[q]
  BY BecomeFacts DEF TaskInv
<1>2. t \in Tasks
  BY AtWork DEF TaskInv
<1>3. /\ rows' \in [Tasks -> Rows]
      /\ \A u \in Tasks : u # t => rows'[u] = rows[u]
      /\ \/ rows'[t] = rows[t]
         \/ /\ Holds(s) /\ RowBounds(copy) /\ copy.status # "none"
            /\ ~copy.started => Unsent(t)
            /\ rows'[t].status = copy.status /\ rows'[t].started = copy.started
            /\ rows'[t].tries = copy.tries /\ rows'[t].error = copy.error
            /\ rows'[t].payload = copy.payload
            /\ copy.status = "running" => rows'[t].owner = rows[t].owner
  <2>1. CASE UNCHANGED rows
    BY <2>1 DEF TaskInv, TypeOK
  <2>2. CASE Holds(s) /\ Write(s, copy) /\ RowBounds(copy) /\ copy.status # "none"
             /\ (~copy.started => Unsent(t))
    BY <2>2, WriteFacts DEF TaskInv
  <2> QED BY <2>1, <2>2
<1>4. Bounds'
  <2>1. \A u \in Tasks : RowBounds(rows'[u])
    BY <1>3 DEF TaskInv, Bounds, RowBounds, Finite
  <2>2. \A q \in Slots : SlotBounds(slots'[q])
    BY <1>1 DEF TaskInv, Bounds
  <2> QED BY <2>1, <2>2 DEF Bounds
<1>5. RequestedIsNew'
  <2> SUFFICES ASSUME NEW r \in Requests,
                      requests[r].step \in {"reserve", "save", "insert"}
               PROVE  rows'[TaskOf[r]].status = "none"
    BY DEF RequestedIsNew
  <2>1. rows[TaskOf[r]].status = "none" /\ TaskOf[r] \in Tasks
    BY ImageTaskAssumption DEF TaskInv, RequestedIsNew
  <2>2. Holds(s) => rows[t].status = "running"
    BY DEF Holds
  <2> QED BY <1>3, <2>1, <2>2
<1>6. \A q \in Slots, u \in Tasks : InFlight(q, u)' => q # s /\ InFlight(q, u)
  <2> SUFFICES ASSUME NEW q \in Slots, NEW u \in Tasks, InFlight(q, u)'
               PROVE  q # s /\ InFlight(q, u)
    OBVIOUS
  <2>1. q # s
    BY <1>1 DEF InFlight
  <2> QED BY <1>1, <2>1 DEF InFlight
<1>7. \A u \in Tasks : Unsent(u) => Unsent(u)'
  BY <1>6 DEF Unsent
<1>8. CallsFollowSteps'
  BY <1>1, <1>6 DEF TaskInv, Flight, CallsFollowSteps
<1>9. \A u \in Tasks : ~rows'[u].started => Unsent(u)'
  BY <1>3, <1>7 DEF TaskInv, Flight, MarksAreKept
<1>10. ASSUME NEW q \in Slots, Loaded(q)', Holds(q)', ~slots'[q].copy.started,
              NEW u \in Tasks, slots'[q].task = u
       PROVE  Unsent(u)'
  <2>1. CASE q = s
    <3>1. slot.step # "idle" /\ slot.step # "load" /\ slot.task = t /\ ~slot.copy.started
      BY <1>1, <1>10, <2>1 DEF Loaded
    <3>2. Holds(s)
      <4>1. rows'[t].status = "running" /\ rows'[t].owner = OwnerOf[s]
        BY <1>1, <1>10, <2>1, <3>1 DEF Holds
      <4> QED BY <1>3, <4>1 DEF Holds
    <3>3. Unsent(t) /\ u = t
      BY <1>1, <1>10, <2>1, <3>1, <3>2
    <3> QED BY <1>7, <3>3
  <2>2. CASE q # s
    <3>1. slots'[q] = slots[q] /\ slots[q].step # "idle" /\ Loaded(q)
      BY <1>1, <1>10, <2>2 DEF Loaded
    <3>2. slots[q].task \in Tasks
      BY <3>1, AtWork DEF TaskInv
    <3>3. Holds(q)
      <4>1. CASE rows'[slots[q].task] = rows[slots[q].task]
        BY <1>10, <3>1, <4>1 DEF Holds
      <4>2. CASE slots[q].task = t /\ rows'[t] # rows[t]
        <5>1. rows'[t].status = "running" /\ rows'[t].owner = OwnerOf[q]
          BY <1>10, <3>1, <4>2 DEF Holds
        <5>2. Holds(s) /\ rows[t].owner = OwnerOf[q]
          BY <1>3, <4>2, <5>1
        <5> QED BY <4>2, <5>2 DEF Holds
      <4> QED BY <1>3, <3>2, <4>1, <4>2
    <3>4. Unsent(slots[q].task)
      BY <1>10, <3>1, <3>3 DEF TaskInv, Flight, MarksAreKept
    <3> QED BY <1>7, <1>10, <3>1, <3>4
  <2> QED BY <2>1, <2>2
<1>11. MarksAreKept'
  <2> SUFFICES ASSUME NEW q \in Slots, Loaded(q)', Holds(q)', ~slots'[q].copy.started
               PROVE  Unsent(slots[q].task)'
    BY <1>9 DEF MarksAreKept
  <2>1. slots'[q].task \in Tasks
    BY <1>1, <1>2 DEF Loaded, Idle, Working
  <2> QED BY <1>10, <2>1 DEF Unsent, InFlight
<1> QED BY <1>1, <1>3, <1>4, <1>5, <1>8, <1>11 DEF Flight

(* A copy may be written, or kept, by the holder of the lease: it carries  *)
(* the mark, or no call is out.                                            *)
Sound(s, copy) == ~copy.started => Unsent(slots[s].task)

LEMMA LoadedFacts ==
    ASSUME TaskInv, NEW s \in Slots, slots[s].step \notin {"idle", "load"}
    PROVE  /\ slots[s] \in Working /\ slots[s].task \in Tasks /\ slots[s].copy \in Rows
           /\ slots[s].copy.status = "running" /\ Finite(slots[s].copy)
           /\ slots[s].step \in {"reject", "save", "settle", "final"}
              \/ slots[s].copy.tries < Attempts
           /\ slots[s].step \in {"mark", "submit", "answer"} => slots[s].tried < Candidates
           /\ slots[s].step \in {"mark", "clear"} => ~slots[s].copy.started
           /\ Holds(s) => Sound(s, slots[s].copy)
<1>1. slots[s] \in Working /\ slots[s].task \in Tasks /\ slots[s].copy \in Rows
  BY AtWork DEF TaskInv
<1>2. SlotBounds(slots[s])
  BY DEF TaskInv, Bounds
<1>3. Holds(s) => Sound(s, slots[s].copy)
  BY DEF TaskInv, Flight, MarksAreKept, Loaded, Sound
<1> QED BY <1>1, <1>2, <1>3 DEF SlotBounds

LEMMA StopStep ==
    ASSUME TaskInv, SlotsApart, NEW s \in Slots, slots[s].step # "idle", Stop(s),
           UNCHANGED <<rows, requests, calls, lost, faults, billing>>
    PROVE  TaskInv'
<1>1. slots[s].copy \in Rows
  BY AtWork DEF TaskInv
<1>2. Become(s, Idle)
  BY DEF Stop
<1>3. UNCHANGED rows /\ UNCHANGED <<calls, lost, requests>>
  OBVIOUS
<1>4. /\ slots' \in [Slots -> {Idle} \cup Working] /\ rows' \in [Tasks -> Rows]
      /\ Bounds' /\ RequestedIsNew' /\ Flight'
  BY <1>1, <1>2, <1>3, IdleBounds, SlotStep
<1> QED BY <1>4 DEF TaskInv, TypeOK, billing

LEMMA MoveStep ==
    ASSUME TaskInv, SlotsApart, NEW s \in Slots, slots[s].step # "idle",
           NEW slot \in Working, Become(s, slot), slot.task = slots[s].task, SlotBounds(slot),
           slot.step \notin {"submit", "answer"},
           Holds(s) => Sound(s, slot.copy),
           UNCHANGED <<rows, requests, calls, lost, faults, billing>>
    PROVE  TaskInv'
<1>1. slots[s].copy \in Rows
  BY AtWork DEF TaskInv
<1>2. UNCHANGED rows /\ UNCHANGED <<calls, lost, requests>>
  OBVIOUS
<1>3. Holds(s) /\ ~slot.copy.started => Unsent(slots[s].task)
  BY DEF Sound
<1>4. /\ slots' \in [Slots -> {Idle} \cup Working] /\ rows' \in [Tasks -> Rows]
      /\ Bounds' /\ RequestedIsNew' /\ Flight'
  BY <1>1, <1>2, <1>3, SlotStep
<1> QED BY <1>4 DEF TaskInv, TypeOK, billing

LEMMA WriteStep ==
    ASSUME TaskInv, SlotsApart, NEW s \in Slots, slots[s].step # "idle",
           NEW slot \in {Idle} \cup Working, Become(s, slot),
           slot # Idle => slot.task = slots[s].task /\ Sound(s, slot.copy),
           SlotBounds(slot), slot.step \notin {"submit", "answer"},
           NEW copy \in Rows, Holds(s), Write(s, copy), RowBounds(copy),
           copy.status # "none", Sound(s, copy),
           UNCHANGED <<requests, calls, lost, faults, billing>>
    PROVE  TaskInv'
<1>1. slot.step # "idle" => slot # Idle
  BY IdleBounds
<1>2. ~copy.started => Unsent(slots[s].task)
  BY DEF Sound
<1>3. slot.step # "idle" /\ slot.step # "load" /\ Holds(s) /\ ~slot.copy.started
          => Unsent(slots[s].task)
  BY <1>1 DEF Sound
<1>4. slot.step # "idle" => slot.task = slots[s].task
  BY <1>1
<1>5. UNCHANGED <<calls, lost, requests>>
  OBVIOUS
<1>6. /\ slots' \in [Slots -> {Idle} \cup Working] /\ rows' \in [Tasks -> Rows]
      /\ Bounds' /\ RequestedIsNew' /\ Flight'
  BY <1>2, <1>3, <1>4, <1>5, SlotStep
<1> QED BY <1>6 DEF TaskInv, TypeOK, billing

(* A slot that goes on with the copy it has.                               *)
LEMMA GotoStep ==
    ASSUME TaskInv, SlotsApart, NEW s \in Slots, Loaded(s),
           NEW step \in SlotSteps \ {"load", "submit", "answer", "mark", "clear"}, Goto(s, step),
           step \in {"reject", "save", "settle", "final"} \/ slots[s].copy.tries < Attempts,
           UNCHANGED <<rows, requests, calls, lost, faults, billing>>
    PROVE  TaskInv'
<1> DEFINE slot == [slots[s] EXCEPT !.step = step]
<1>1. slots[s].step \notin {"idle", "load"}
  BY DEF Loaded
<1>2. slot \in Working /\ slot.task = slots[s].task /\ slot.copy = slots[s].copy /\ slot.step = step
  BY <1>1, LoadedFacts DEF Working
<1>3. Become(s, slot)
  BY DEF Goto
<1> HIDE DEF slot
<1>4. SlotBounds(slot)
  BY <1>1, <1>2, LoadedFacts DEF SlotBounds
<1>5. Holds(s) => Sound(s, slot.copy)
  BY <1>1, <1>2, LoadedFacts
<1> QED BY <1>1, <1>2, <1>3, <1>4, <1>5, MoveStep

-----------------------------------------------------------------------------
(* The actions of ExecuteLeasedTask *)

LEMMA LoadKeeps ==
    ASSUME TaskInv, SlotsApart, NEW s \in Slots, Load(s)
    PROVE  TaskInv'
<1> DEFINE row == rows[slots[s].task]
           slot == [slots[s] EXCEPT !.copy = row]
<1>1. slots[s].step = "load" /\ UNCHANGED <<rows, requests, calls, lost, faults, billing>>
  BY DEF Load
<1>2. slots[s] \in Working /\ slots[s].task \in Tasks
  BY <1>1, AtWork DEF TaskInv
<1>3. row \in Rows /\ RowBounds(row)
  BY <1>2 DEF TaskInv, TypeOK, Bounds
<1>4. Sound(s, row)
  BY <1>2 DEF TaskInv, Flight, MarksAreKept, Sound
<1>5. slot \in Working /\ slot.task = slots[s].task /\ slot.copy = row
  BY <1>2, <1>3 DEF Working
<1>6. \/ Stop(s)
      \/ /\ row.status = "running"
         /\ \/ row.payload # "none" /\ Become(s, [slot EXCEPT !.step = "recover"])
            \/ Become(s, [slot EXCEPT !.step = "reject"])
            \/ \E end \in {"succeeded", "failed"} :
                  Become(s, [slot EXCEPT !.step = "settle", !.end = end])
            \/ /\ row.payload = "none" /\ ~row.error /\ ~row.started
               /\ Become(s, [slot EXCEPT !.step = "mark"]) \/ Become(s, Failing(slot))
  <2>1. CASE ~Owns(s)
    BY <2>1 DEF Load
  <2>2. CASE Owns(s)
    <3>1. row.status = "running"
      BY <2>2 DEF Owns, Holds
    <3>2. row.started \in BOOLEAN /\ row.results \in BOOLEAN /\ row.error \in BOOLEAN
      BY <1>3 DEF Rows
    <3> QED BY <2>2, <3>1, <3>2 DEF Load, IsUncertain, ResumeStep
  <2> QED BY <2>1, <2>2
<1> HIDE DEF row
<1>7. ASSUME NEW next \in Working, Become(s, next), next.task = slots[s].task, SlotBounds(next),
             next.step \notin {"submit", "answer"}, next.copy.started = row.started
      PROVE  TaskInv'
  <2>1. Sound(s, next.copy)
    BY <1>4, <1>7 DEF Sound
  <2> QED BY <1>1, <1>7, <2>1, MoveStep
<1>8. CASE Stop(s)
  BY <1>1, <1>8, StopStep
<1> HIDE DEF slot
<1>9. ASSUME row.status = "running", row.payload # "none",
             Become(s, [slot EXCEPT !.step = "recover"])
      PROVE  TaskInv'
  <2> DEFINE next == [slot EXCEPT !.step = "recover"]
  <2>1. /\ next \in Working /\ next.task = slots[s].task /\ next.copy = row
        /\ next.step = "recover"
    BY <1>5 DEF Working, SlotSteps
  <2>2. Become(s, next)
    BY <1>9
  <2> HIDE DEF next
  <2>3. SlotBounds(next)
    BY <1>3, <1>9, <2>1 DEF SlotBounds, RowBounds, Finite
  <2> QED BY <1>7, <2>1, <2>2, <2>3
<1>10. ASSUME row.status = "running", Become(s, [slot EXCEPT !.step = "reject"])
       PROVE  TaskInv'
  <2> DEFINE next == [slot EXCEPT !.step = "reject"]
  <2>1. /\ next \in Working /\ next.task = slots[s].task /\ next.copy = row
        /\ next.step = "reject"
    BY <1>5 DEF Working, SlotSteps
  <2>2. Become(s, next)
    BY <1>10
  <2> HIDE DEF next
  <2>3. SlotBounds(next)
    BY <1>3, <1>10, <2>1 DEF SlotBounds, RowBounds
  <2> QED BY <1>7, <2>1, <2>2, <2>3
<1>11. ASSUME row.status = "running", NEW end \in {"succeeded", "failed"},
              Become(s, [slot EXCEPT !.step = "settle", !.end = end])
       PROVE  TaskInv'
  <2> DEFINE next == [slot EXCEPT !.step = "settle", !.end = end]
  <2>1. /\ next \in Working /\ next.task = slots[s].task /\ next.copy = row
        /\ next.step = "settle"
    BY <1>5 DEF Working, SlotSteps
  <2>2. Become(s, next)
    BY <1>11
  <2> HIDE DEF next
  <2>3. SlotBounds(next)
    BY <1>3, <1>11, <2>1 DEF SlotBounds, RowBounds
  <2> QED BY <1>7, <2>1, <2>2, <2>3
<1>12. ASSUME row.status = "running", row.payload = "none", ~row.error, ~row.started,
              Become(s, [slot EXCEPT !.step = "mark"])
       PROVE  TaskInv'
  <2> DEFINE next == [slot EXCEPT !.step = "mark"]
  <2>1. /\ next \in Working /\ next.task = slots[s].task /\ next.copy = row
        /\ next.step = "mark" /\ next.tried = slots[s].tried
    BY <1>2, <1>5 DEF Working, SlotSteps, slot
  <2>2. Become(s, next)
    BY <1>12
  <2>3. next.tried < Candidates
    BY <1>1, <1>2, <2>1 DEF TaskInv, Bounds, SlotBounds
  <2> HIDE DEF next
  <2>4. SlotBounds(next)
    BY <1>3, <1>12, <2>1, <2>3 DEF SlotBounds, RowBounds, Finite
  <2> QED BY <1>7, <2>1, <2>2, <2>4
<1>13. ASSUME row.status = "running", row.payload = "none", Become(s, Failing(slot))
       PROVE  TaskInv'
  <2>1. /\ Failing(slot) \in Working /\ Failing(slot).task = slots[s].task
        /\ Failing(slot).step = "save" /\ SlotBounds(Failing(slot))
        /\ Failing(slot).copy.started = row.started
    BY <1>5, <1>13, FailingFacts
  <2> QED BY <1>7, <1>13, <2>1
<1> QED BY <1>6, <1>8, <1>9, <1>10, <1>11, <1>12, <1>13

LEMMA RejectKeeps ==
    ASSUME TaskInv, SlotsApart, NEW s \in Slots, Reject(s)
    PROVE  TaskInv'
<1>1. slots[s].step = "reject" /\ UNCHANGED <<requests, calls, lost, faults, billing>> /\ Become(s, Idle)
  BY DEF Reject, Stop
<1> DEFINE copy == [slots[s].copy EXCEPT !.status = "rejected", !.error = TRUE]
<1>2. /\ copy \in Rows /\ copy.status = "rejected" /\ copy.started = slots[s].copy.started
      /\ Finite(copy)
  BY <1>1, LoadedFacts DEF Rows, FinalStatuses, Finite
<1>3. CASE UNCHANGED rows
  BY <1>1, <1>3, StopStep DEF Stop
<1>4. CASE Owns(s) /\ Write(s, copy)
  <2> HIDE DEF copy
  <2>1. Holds(s) /\ Write(s, copy)
    BY <1>4 DEF Owns
  <2>2. Sound(s, copy)
    BY <1>1, <1>2, <2>1, LoadedFacts DEF Sound
  <2>3. RowBounds(copy)
    BY <1>2 DEF RowBounds
  <2> QED BY <1>1, <1>2, <2>1, <2>2, <2>3, IdleBounds, WriteStep
<1> QED BY <1>3, <1>4 DEF Reject

LEMMA SaveableCopy ==
    ASSUME TaskInv, NEW s \in Slots, Loaded(s)
    PROVE  RowBounds(slots[s].copy) /\ slots[s].copy.status = "running"
BY LoadedFacts DEF Loaded, RowBounds

LEMMA ClearKeeps ==
    ASSUME TaskInv, SlotsApart, NEW s \in Slots, Clear(s)
    PROVE  TaskInv'
<1>1. slots[s].step = "clear" /\ UNCHANGED <<requests, calls, lost, faults, billing>>
  BY DEF Clear
<1>2. /\ slots[s] \in Working /\ slots[s].copy \in Rows /\ slots[s].copy.status = "running"
      /\ slots[s].copy.tries < Attempts /\ ~slots[s].copy.started
      /\ Holds(s) => Sound(s, slots[s].copy)
  BY <1>1, LoadedFacts
<1> DEFINE mark == [slots[s] EXCEPT !.step = "mark"]
           failing == Failing(slots[s])
<1>3. /\ mark \in Working /\ mark.task = slots[s].task /\ mark.copy = slots[s].copy
      /\ mark.step = "mark" /\ mark.tried = slots[s].tried
  BY <1>2 DEF Working, SlotSteps
<1>4. /\ failing \in Working /\ failing.task = slots[s].task /\ failing.step = "save"
      /\ failing.copy.started = slots[s].copy.started /\ SlotBounds(failing)
  BY <1>2, FailingFacts
<1>5. CASE Stop(s) /\ UNCHANGED rows
  BY <1>1, <1>5, StopStep
<1> HIDE DEF failing
<1>6. CASE Become(s, failing) /\ UNCHANGED rows
  <2>1. Holds(s) => Sound(s, failing.copy)
    BY <1>2, <1>4 DEF Sound
  <2> QED BY <1>1, <1>4, <1>6, <2>1, MoveStep
<1>7. RowBounds(slots[s].copy)
  BY <1>1, SaveableCopy DEF Loaded
<1>8. CASE Holds(s) /\ Write(s, slots[s].copy) /\ Become(s, failing)
  <2>1. Sound(s, failing.copy) /\ Sound(s, slots[s].copy)
    BY <1>2, <1>4, <1>8 DEF Sound
  <2>2. failing \in {Idle} \cup Working /\ slots[s].copy.status # "none"
    BY <1>2, <1>4
  <2> QED BY <1>1, <1>2, <1>4, <1>7, <1>8, <2>1, <2>2, WriteStep
<1> HIDE DEF mark
<1>9. CASE /\ Holds(s) /\ Write(s, slots[s].copy) /\ slots[s].tried < Candidates
           /\ Become(s, mark)
  <2>1. Sound(s, mark.copy) /\ Sound(s, slots[s].copy)
    BY <1>2, <1>3, <1>9
  <2>2. mark \in {Idle} \cup Working /\ slots[s].copy.status # "none"
    BY <1>2, <1>3
  <2>3. SlotBounds(mark)
    BY <1>2, <1>3, <1>9 DEF SlotBounds, Finite
  <2>4. mark.step \notin {"submit", "answer"}
    BY <1>3
  <2> QED BY <1>1, <1>2, <1>3, <1>7, <1>9, <2>1, <2>2, <2>3, <2>4, WriteStep
<1> QED BY <1>5, <1>6, <1>8, <1>9 DEF Clear, Owns, Goto, mark, failing

LEMMA CheckpointKeeps ==
    ASSUME TaskInv, SlotsApart, NEW s \in Slots, Checkpoint(s)
    PROVE  TaskInv'
<1>1. slots[s].step = "checkpoint" /\ UNCHANGED <<requests, calls, lost, faults, billing>>
  BY DEF Checkpoint
<1>2. /\ slots[s] \in Working /\ slots[s].copy \in Rows /\ slots[s].copy.status = "running"
      /\ slots[s].copy.tries < Attempts
      /\ Holds(s) => Sound(s, slots[s].copy)
  BY <1>1, LoadedFacts
<1>3. CASE UNCHANGED rows /\ Stop(s)
  BY <1>1, <1>3, StopStep
<1> DEFINE copy == [slots[s].copy EXCEPT !.payload = "kept"]
           slot == [slots[s] EXCEPT !.step = "pin", !.copy = copy, !.rescue = TRUE]
<1>4. /\ copy \in Rows /\ copy.status = "running" /\ copy.started = slots[s].copy.started
      /\ copy.tries < Attempts
  BY <1>2 DEF Rows
<1>5. CASE Holds(s) /\ Write(s, copy) /\ Become(s, slot)
  <2> HIDE DEF copy
  <2>1. /\ slot \in Working /\ slot.task = slots[s].task /\ slot.copy = copy
        /\ slot.step = "pin"
    BY <1>2, <1>4 DEF Working, SlotSteps
  <2> HIDE DEF slot
  <2>2. Sound(s, copy)
    BY <1>2, <1>4, <1>5 DEF Sound
  <2>3. SlotBounds(slot) /\ RowBounds(copy)
    BY <1>4, <2>1 DEF SlotBounds, RowBounds, Finite
  <2>4. slot \in {Idle} \cup Working /\ slot.step \notin {"submit", "answer"}
    BY <2>1
  <2> QED BY <1>1, <1>4, <1>5, <2>1, <2>2, <2>3, <2>4, WriteStep
<1> QED BY <1>3, <1>5 DEF Checkpoint

LEMMA RecoverKeeps ==
    ASSUME TaskInv, SlotsApart, NEW s \in Slots, Recover(s)
    PROVE  TaskInv'
<1>1. slots[s].step = "recover" /\ UNCHANGED <<rows, requests, calls, lost, faults, billing>>
  BY DEF Recover
<1>2. CASE Stop(s)
  BY <1>1, <1>2, StopStep
<1>3. CASE Goto(s, "pin")
  <2>1. Loaded(s) /\ slots[s].copy.tries < Attempts
    BY <1>1, LoadedFacts DEF Loaded
  <2>2. "pin" \in SlotSteps \ {"load", "submit", "answer", "mark", "clear"}
    BY DEF SlotSteps
  <2> QED BY <1>1, <1>3, <2>1, <2>2, GotoStep
<1> QED BY <1>2, <1>3 DEF Recover

LEMMA ArtifactFailureKeeps ==
    ASSUME TaskInv, SlotsApart, NEW s \in Slots, slots[s].step \in {"pin", "persist"},
           ArtifactFailure(s), UNCHANGED <<rows, requests, calls, lost, faults, billing>>
    PROVE  TaskInv'
<1> DEFINE copy == [slots[s].copy EXCEPT !.tries = @ + 1]
<1>1. /\ slots[s] \in Working /\ slots[s].copy \in Rows /\ slots[s].copy.status = "running"
      /\ slots[s].copy.tries < Attempts
      /\ Holds(s) => Sound(s, slots[s].copy)
  BY LoadedFacts
<1>2. slots[s].copy.tries + 1 \in 0 .. Attempts
  BY <1>1, Parameters DEF Rows
<1>3. copy \in Rows /\ copy.status = "running" /\ copy.started = slots[s].copy.started
  BY <1>1, <1>2 DEF Rows
<1> HIDE DEF copy
<1>4. CASE copy.tries < Attempts /\ GotoWith(s, "requeue", copy)
  <2> DEFINE slot == [slots[s] EXCEPT !.step = "requeue", !.copy = copy]
  <2>1. /\ slot \in Working /\ slot.task = slots[s].task /\ slot.copy = copy
        /\ slot.step = "requeue"
    BY <1>1, <1>3 DEF Working, SlotSteps
  <2>2. Become(s, slot)
    BY <1>4 DEF GotoWith
  <2> HIDE DEF slot
  <2>3. SlotBounds(slot)
    BY <1>3, <1>4, <2>1 DEF SlotBounds, Finite
  <2>4. Holds(s) => Sound(s, slot.copy)
    BY <1>1, <1>3, <2>1 DEF Sound
  <2> QED BY <2>1, <2>2, <2>3, <2>4, MoveStep
<1>5. CASE Become(s, Failing([slots[s] EXCEPT !.copy = [copy EXCEPT !.payload = "none"]]))
  <2> DEFINE slot == [slots[s] EXCEPT !.copy = [copy EXCEPT !.payload = "none"]]
  <2>1. /\ slot \in Working /\ slot.task = slots[s].task /\ slot.copy.status = "running"
        /\ slot.copy.payload = "none" /\ slot.copy.started = slots[s].copy.started
    BY <1>1, <1>3 DEF Working, Rows
  <2>2. Become(s, Failing(slot))
    BY <1>5
  <2> HIDE DEF slot
  <2>3. /\ Failing(slot) \in Working /\ Failing(slot).task = slots[s].task
        /\ Failing(slot).step = "save" /\ SlotBounds(Failing(slot))
        /\ Failing(slot).copy.started = slots[s].copy.started
    BY <2>1, FailingFacts
  <2>4. Holds(s) => Sound(s, Failing(slot).copy)
    BY <1>1, <2>3 DEF Sound
  <2> QED BY <2>2, <2>3, <2>4, MoveStep
<1> QED BY <1>4, <1>5 DEF ArtifactFailure, MayRetry, copy

LEMMA PinKeeps ==
    ASSUME TaskInv, SlotsApart, NEW s \in Slots, Pin(s)
    PROVE  TaskInv'
<1>1. slots[s].step = "pin" /\ UNCHANGED <<requests, calls, lost, faults, billing>>
  BY DEF Pin
<1>2. /\ slots[s] \in Working /\ slots[s].copy \in Rows /\ slots[s].copy.status = "running"
      /\ slots[s].copy.tries < Attempts
      /\ Holds(s) => Sound(s, slots[s].copy)
  BY <1>1, LoadedFacts
<1>3. CASE Goto(s, "persist") /\ UNCHANGED rows
  <2>1. "persist" \in SlotSteps \ {"load", "submit", "answer", "mark", "clear"} /\ Loaded(s)
    BY <1>1 DEF SlotSteps, Loaded
  <2> QED BY <1>1, <1>2, <1>3, <2>1, GotoStep
<1>4. CASE UNCHANGED rows /\ Stop(s)
  BY <1>1, <1>4, StopStep
<1>5. CASE ArtifactFailure(s) /\ UNCHANGED rows
  BY <1>1, <1>5, ArtifactFailureKeeps
<1> DEFINE copy == [slots[s].copy EXCEPT !.payload = "pinned"]
           slot == [slots[s] EXCEPT !.step = "persist", !.copy = copy]
<1>6. CASE Holds(s) /\ Write(s, copy) /\ GotoWith(s, "persist", copy)
  <2>1. /\ copy \in Rows /\ copy.status = "running" /\ copy.started = slots[s].copy.started
        /\ copy.tries < Attempts
    BY <1>2 DEF Rows
  <2>2. Become(s, slot)
    BY <1>6 DEF GotoWith
  <2> HIDE DEF copy
  <2>3. /\ slot \in Working /\ slot.task = slots[s].task /\ slot.copy = copy
        /\ slot.step = "persist"
    BY <1>2, <2>1 DEF Working, SlotSteps
  <2> HIDE DEF slot
  <2>4. Sound(s, copy)
    BY <1>2, <1>6, <2>1 DEF Sound
  <2>5. SlotBounds(slot) /\ RowBounds(copy)
    BY <2>1, <2>3 DEF SlotBounds, RowBounds, Finite
  <2>6. slot \in {Idle} \cup Working /\ slot.step \notin {"submit", "answer"}
    BY <2>3
  <2> QED BY <1>1, <1>6, <2>1, <2>2, <2>3, <2>4, <2>5, <2>6, WriteStep
<1> QED BY <1>3, <1>4, <1>5, <1>6 DEF Pin

LEMMA PersistKeeps ==
    ASSUME TaskInv, SlotsApart, NEW s \in Slots, Persist(s)
    PROVE  TaskInv'
<1>1. slots[s].step = "persist" /\ UNCHANGED <<rows, requests, calls, lost, faults, billing>>
  BY DEF Persist
<1>2. /\ slots[s] \in Working /\ slots[s].copy \in Rows /\ slots[s].copy.status = "running"
      /\ slots[s].copy.tries < Attempts
      /\ Holds(s) => Sound(s, slots[s].copy)
  BY <1>1, LoadedFacts
<1> DEFINE copy == [slots[s].copy EXCEPT !.results = TRUE, !.payload = "none"]
<1>3. /\ copy \in Rows /\ copy.status = "running" /\ copy.tries < Attempts
      /\ copy.started = slots[s].copy.started
  BY <1>2 DEF Rows
<1> HIDE DEF copy
<1>4. ASSUME NEW saved \in Rows, saved.status = "running", saved.tries < Attempts,
             saved.started = slots[s].copy.started, NEW rescue \in BOOLEAN,
             Become(s, [slots[s] EXCEPT !.step = "save", !.copy = saved,
                                        !.end = "succeeded", !.rescue = rescue])
      PROVE  TaskInv'
  <2> DEFINE slot == [slots[s] EXCEPT !.step = "save", !.copy = saved,
                                      !.end = "succeeded", !.rescue = rescue]
  <2>1. /\ slot \in Working /\ slot.task = slots[s].task /\ slot.copy = saved
        /\ slot.step = "save"
    BY <1>2, <1>4 DEF Working, SlotSteps
  <2>2. Become(s, slot)
    BY <1>4
  <2> HIDE DEF slot
  <2>3. SlotBounds(slot)
    BY <1>4, <2>1 DEF SlotBounds, Finite
  <2>4. Holds(s) => Sound(s, slot.copy)
    BY <1>2, <1>4, <2>1 DEF Sound
  <2> QED BY <1>1, <2>1, <2>2, <2>3, <2>4, MoveStep
<1>5. ASSUME NEW points \in Charges,
             Become(s, [slots[s] EXCEPT !.step = "save", !.copy = [copy EXCEPT !.actual = points],
                                        !.end = "succeeded", !.rescue = slots[s].rescue])
      PROVE  TaskInv'
  <2>1. points \in 0 .. Estimate /\ slots[s].rescue \in BOOLEAN
    BY <1>2, Parameters DEF Working
  <2> DEFINE saved == [copy EXCEPT !.actual = points]
  <2>2. /\ saved \in Rows /\ saved.status = "running" /\ saved.tries < Attempts
        /\ saved.started = slots[s].copy.started
    BY <1>3, <2>1 DEF Rows
  <2>3. Become(s, [slots[s] EXCEPT !.step = "save", !.copy = saved,
                                   !.end = "succeeded", !.rescue = slots[s].rescue])
    BY <1>5
  <2> HIDE DEF saved
  <2> QED BY <1>4, <2>1, <2>2, <2>3
<1>6. CASE Become(s, [slots[s] EXCEPT !.step = "save",
                          !.copy = [copy EXCEPT !.actual = Estimate, !.error = TRUE],
                          !.end = "succeeded", !.rescue = FALSE])
  <2>1. Estimate \in 0 .. Estimate
    BY Parameters
  <2> DEFINE saved == [copy EXCEPT !.actual = Estimate, !.error = TRUE]
  <2>2. /\ saved \in Rows /\ saved.status = "running" /\ saved.tries < Attempts
        /\ saved.started = slots[s].copy.started
    BY <1>3, <2>1 DEF Rows
  <2>3. Become(s, [slots[s] EXCEPT !.step = "save", !.copy = saved,
                                   !.end = "succeeded", !.rescue = FALSE])
    BY <1>6
  <2> HIDE DEF saved
  <2> QED BY <1>4, <2>2, <2>3
<1>7. CASE ArtifactFailure(s)
  BY <1>1, <1>7, ArtifactFailureKeeps
<1> QED BY <1>5, <1>6, <1>7 DEF Persist, PersistedStep, copy

LEMMA RequeueKeeps ==
    ASSUME TaskInv, SlotsApart, NEW s \in Slots, Requeue(s)
    PROVE  TaskInv'
<1>1. slots[s].step = "requeue" /\ UNCHANGED <<requests, calls, lost, faults, billing>>
      /\ Become(s, Idle)
  BY DEF Requeue, Stop
<1> DEFINE copy == [slots[s].copy EXCEPT !.status = "queued", !.error = FALSE]
<1>2. /\ copy \in Rows /\ copy.status = "queued" /\ copy.started = slots[s].copy.started
      /\ copy.tries < Attempts
  BY <1>1, LoadedFacts DEF Rows
<1>3. CASE UNCHANGED rows
  BY <1>1, <1>3, StopStep DEF Stop
<1>4. CASE Owns(s) /\ Write(s, copy)
  <2> HIDE DEF copy
  <2>1. Holds(s) /\ Write(s, copy)
    BY <1>4 DEF Owns
  <2>2. Sound(s, copy)
    BY <1>1, <1>2, <2>1, LoadedFacts DEF Sound
  <2>3. RowBounds(copy)
    BY <1>2 DEF RowBounds, Finite
  <2> QED BY <1>1, <1>2, <2>1, <2>2, <2>3, IdleBounds, WriteStep
<1> QED BY <1>3, <1>4 DEF Requeue, Requeued

LEMMA SaveKeeps ==
    ASSUME TaskInv, SlotsApart, NEW s \in Slots, Save(s)
    PROVE  TaskInv'
<1>1. slots[s].step = "save" /\ UNCHANGED <<requests, calls, lost, faults, billing>>
  BY DEF Save
<1>2. /\ slots[s] \in Working /\ slots[s].copy \in Rows /\ slots[s].copy.status = "running"
      /\ Finite(slots[s].copy) /\ RowBounds(slots[s].copy)
      /\ Holds(s) => Sound(s, slots[s].copy)
  BY <1>1, LoadedFacts, SaveableCopy DEF Loaded
<1>3. CASE UNCHANGED rows /\ Stop(s)
  BY <1>1, <1>3, StopStep
<1>4. ASSUME NEW rescue \in BOOLEAN, Holds(s), Write(s, slots[s].copy),
             Become(s, [slots[s] EXCEPT !.step = "settle", !.rescue = rescue])
      PROVE  TaskInv'
  <2> DEFINE slot == [slots[s] EXCEPT !.step = "settle", !.rescue = rescue]
  <2>1. /\ slot \in Working /\ slot.task = slots[s].task /\ slot.copy = slots[s].copy
        /\ slot.step = "settle"
    BY <1>2, <1>4 DEF Working, SlotSteps
  <2>2. Become(s, slot)
    BY <1>4
  <2> HIDE DEF slot
  <2>3. SlotBounds(slot)
    BY <1>2, <2>1 DEF SlotBounds
  <2>4. slot \in {Idle} \cup Working /\ slot.step \notin {"submit", "answer"}
    BY <2>1
  <2>5. Sound(s, slots[s].copy) /\ slots[s].copy.status # "none"
    BY <1>2, <1>4
  <2> QED BY <1>1, <1>2, <1>4, <2>1, <2>2, <2>3, <2>4, <2>5, WriteStep
<1>5. Owns(s) \in BOOLEAN
  BY DEF Owns, Holds
<1> QED BY <1>3, <1>4, <1>5 DEF Save, Owns

LEMMA FinalKeeps ==
    ASSUME TaskInv, SlotsApart, NEW s \in Slots, Final(s)
    PROVE  TaskInv'
<1>1. slots[s].step = "final" /\ UNCHANGED <<requests, calls, lost, faults, billing>> /\ Become(s, Idle)
  BY DEF Final, Stop
<1> DEFINE copy == [slots[s].copy EXCEPT !.status = slots[s].end]
<1>2. slots[s].end \in {"succeeded", "failed"}
  BY <1>1, LoadedFacts DEF Working
<1>3. /\ copy \in Rows /\ copy.status # "none" /\ copy.started = slots[s].copy.started
      /\ Finite(copy)
  BY <1>1, <1>2, LoadedFacts DEF Rows, Finite, FinalStatuses
<1>4. CASE UNCHANGED rows
  BY <1>1, <1>4, StopStep DEF Stop
<1>5. CASE Holds(s) /\ Write(s, copy)
  <2> HIDE DEF copy
  <2>1. Sound(s, copy)
    BY <1>1, <1>3, <1>5, LoadedFacts DEF Sound
  <2>2. RowBounds(copy)
    BY <1>3 DEF RowBounds
  <2> QED BY <1>1, <1>3, <1>5, <2>1, <2>2, IdleBounds, WriteStep
<1> QED BY <1>4, <1>5 DEF Final, Owns

-----------------------------------------------------------------------------
(* The call of a provider *)

LEMMA MarkKeeps ==
    ASSUME TaskInv, SlotsApart, NEW s \in Slots, Mark(s)
    PROVE  TaskInv'
<1> DEFINE t == slots[s].task
           copy == [slots[s].copy EXCEPT !.started = TRUE]
           slot == [slots[s] EXCEPT !.step = "submit", !.copy = copy]
<1>1. slots[s].step = "mark" /\ UNCHANGED <<requests, calls, lost, faults, billing>>
  BY DEF Mark
<1>2. /\ slots[s] \in Working /\ slots[s].copy \in Rows /\ slots[s].copy.status = "running"
      /\ slots[s].copy.tries < Attempts /\ t \in Tasks
      /\ slots[s].tried < Candidates /\ ~slots[s].copy.started
      /\ Holds(s) => Sound(s, slots[s].copy)
  BY <1>1, LoadedFacts
<1>3. CASE UNCHANGED rows /\ Stop(s)
  BY <1>1, <1>3, StopStep
<1>4. CASE Owns(s) /\ Write(s, copy) /\ GotoWith(s, "submit", copy)
  <2>1. Unsent(t) /\ Holds(s)
    BY <1>2, <1>4 DEF Owns, Sound
  <2>2. /\ copy \in Rows /\ copy.status = "running" /\ copy.started = TRUE
        /\ copy.tries < Attempts
    BY <1>2 DEF Rows
  <2>3. Become(s, slot) /\ Write(s, copy)
    BY <1>4 DEF GotoWith
  <2> HIDE DEF copy
  <2>4. /\ slot \in Working /\ slot.task = t /\ slot.copy = copy
        /\ slot.step = "submit" /\ slot.tried = slots[s].tried
    BY <1>2, <2>2 DEF Working, SlotSteps
  <2> HIDE DEF slot
  <2>5. SlotBounds(slot)
    BY <1>2, <2>2, <2>4 DEF SlotBounds, Finite
  <2>6. /\ slots' \in [Slots -> {Idle} \cup Working]
        /\ slots'[s] = slot
        /\ \A q \in Slots : q # s => slots'[q] = slots[q]
    BY <2>3, <2>4, BecomeFacts DEF TaskInv
  <2>7. /\ rows' \in [Tasks -> Rows]
        /\ \A u \in Tasks : u # t => rows'[u] = rows[u]
        /\ rows'[t].status = "running" /\ rows'[t].started = TRUE
        /\ rows'[t].tries = copy.tries /\ rows'[t].owner = rows[t].owner
    BY <1>1, <2>2, <2>3, WriteFacts DEF TaskInv
  <2>8. TypeOK'
    BY <1>1, <2>6, <2>7 DEF TaskInv, TypeOK, billing
  <2>9. Bounds'
    <3>1. \A u \in Tasks : RowBounds(rows'[u])
      BY <2>2, <2>7 DEF TaskInv, Bounds, RowBounds, Finite
    <3>2. \A q \in Slots : SlotBounds(slots'[q])
      BY <2>5, <2>6 DEF TaskInv, Bounds
    <3> QED BY <3>1, <3>2 DEF Bounds
  <2>10. RequestedIsNew'
    <3>1. rows[t].status = "running"
      BY <2>1 DEF Holds
    <3> QED BY <1>1, <2>7, <3>1, ImageTaskAssumption DEF TaskInv, RequestedIsNew
  <2>11. \A q \in Slots, u \in Tasks : InFlight(q, u)' => InFlight(q, u) \/ (q = s /\ u = t)
    BY <2>4, <2>6 DEF InFlight
  <2>12. \A u \in Tasks : u # t /\ Unsent(u) => Unsent(u)'
    BY <1>1, <2>11 DEF Unsent
  <2>13. CallsFollowSteps'
    BY <1>1, <2>1, <2>4, <2>6, <2>11 DEF TaskInv, Flight, CallsFollowSteps, Unsent
  <2>14. \A u \in Tasks : ~rows'[u].started => Unsent(u)'
    BY <2>7, <2>12 DEF TaskInv, Flight, MarksAreKept
  <2>15. ASSUME NEW q \in Slots, Loaded(q)', Holds(q)', ~slots'[q].copy.started,
                NEW u \in Tasks, slots'[q].task = u
         PROVE  Unsent(u)'
    <3>1. q # s
      BY <2>2, <2>4, <2>6, <2>15
    <3>2. slots'[q] = slots[q] /\ Loaded(q) /\ slots[q].task = u
      BY <2>6, <2>15, <3>1 DEF Loaded
    <3>3. rows'[u].status = "running" /\ rows'[u].owner = OwnerOf[q]
      BY <2>15 DEF Holds
    <3>4. u # t
      BY <1>1, <2>1, <2>2, <2>7, <3>1, <3>2, <3>3 DEF Holds, Loaded, SlotsApart
    <3>5. Holds(q)
      BY <2>7, <3>2, <3>3, <3>4 DEF Holds
    <3>6. Unsent(u)
      BY <2>15, <3>2, <3>5 DEF TaskInv, Flight, MarksAreKept
    <3> QED BY <2>12, <3>4, <3>6
  <2>16. MarksAreKept'
    <3> SUFFICES ASSUME NEW q \in Slots, Loaded(q)', Holds(q)', ~slots'[q].copy.started
                 PROVE  Unsent(slots[q].task)'
      BY <2>14 DEF MarksAreKept
    <3>1. slots'[q].task \in Tasks
      BY <2>6 DEF Loaded, Idle, Working
    <3> QED BY <2>15, <3>1 DEF Unsent, InFlight
  <2> QED BY <2>8, <2>9, <2>10, <2>13, <2>16 DEF TaskInv, Flight
<1> QED BY <1>3, <1>4 DEF Mark

(* A slot in flight is the only one, and every other copy of its task is   *)
(* marked, or not its holder's.                                            *)
LEMMA InFlightFacts ==
    ASSUME TaskInv, NEW s \in Slots, slots[s].step \in {"submit", "answer"}
    PROVE  /\ slots[s] \in Working /\ slots[s].task \in Tasks
           /\ InFlight(s, slots[s].task) /\ ~Unsent(slots[s].task)
           /\ \A q \in Slots : InFlight(q, slots[s].task) => q = s
           /\ rows[slots[s].task].started \in BOOLEAN /\ rows[slots[s].task].started
           /\ \A q \in Slots :
                 Loaded(q) /\ Holds(q) /\ slots[q].task = slots[s].task => slots[q].copy.started
<1>1. slots[s] \in Working /\ slots[s].task \in Tasks
  BY AtWork DEF TaskInv
<1>2. InFlight(s, slots[s].task)
  BY DEF InFlight
<1>3. ~Unsent(slots[s].task)
  BY <1>2 DEF Unsent
<1>4. \A q \in Slots : InFlight(q, slots[s].task) => q = s
  BY <1>1, <1>2 DEF TaskInv, Flight, CallsFollowSteps
<1>5. rows[slots[s].task].started \in BOOLEAN
  BY <1>1 DEF TaskInv, TypeOK, Rows
<1>6. rows[slots[s].task].started
  BY <1>1, <1>3 DEF TaskInv, Flight, MarksAreKept
<1>7. \A q \in Slots :
          Loaded(q) /\ Holds(q) /\ slots[q].task = slots[s].task => slots[q].copy.started
  BY <1>3 DEF TaskInv, Flight, MarksAreKept
<1> QED BY <1>1, <1>2, <1>3, <1>4, <1>5, <1>6, <1>7

LEMMA SubmitKeeps ==
    ASSUME TaskInv, NEW s \in Slots, Submit(s)
    PROVE  TaskInv'
<1> DEFINE t == slots[s].task
           slot == [slots[s] EXCEPT !.step = "answer"]
<1>1. /\ slots[s].step = "submit" /\ UNCHANGED <<rows, requests, lost, faults, billing>>
      /\ calls' = [calls EXCEPT ![t] = @ + 1] /\ Become(s, slot)
  BY DEF Submit, Goto
<1>2. /\ slots[s] \in Working /\ t \in Tasks
      /\ \A q \in Slots : InFlight(q, t) => q = s
      /\ rows[t].started
      /\ \A q \in Slots : Loaded(q) /\ Holds(q) /\ slots[q].task = t => slots[q].copy.started
  BY <1>1, InFlightFacts
<1>3. /\ slot \in Working /\ slot.task = t /\ slot.copy = slots[s].copy
      /\ slot.step = "answer" /\ slot.tried = slots[s].tried
  BY <1>2 DEF Working, SlotSteps
<1>4. SlotBounds(slots[s])
  BY DEF TaskInv, Bounds
<1> HIDE DEF slot
<1>5. SlotBounds(slot)
  BY <1>1, <1>3, <1>4 DEF SlotBounds
<1>6. /\ slots' \in [Slots -> {Idle} \cup Working]
      /\ slots'[s] = slot
      /\ \A q \in Slots : q # s => slots'[q] = slots[q]
  BY <1>1, <1>3, BecomeFacts DEF TaskInv
<1>7. calls[t] = 0
  BY <1>1 DEF TaskInv, Flight, CallsFollowSteps
<1>8. /\ calls' \in [Tasks -> Nat] /\ calls'[t] = 1
      /\ \A u \in Tasks : u # t => calls'[u] = calls[u]
  BY <1>1, <1>2, <1>7 DEF TaskInv, TypeOK
<1>9. TypeOK'
  BY <1>1, <1>6, <1>8 DEF TaskInv, TypeOK, billing
<1>10. Bounds'
  BY <1>1, <1>5, <1>6 DEF TaskInv, Bounds
<1>11. RequestedIsNew'
  BY <1>1 DEF TaskInv, RequestedIsNew
<1>12. \A q \in Slots, u \in Tasks : InFlight(q, u)' => InFlight(q, u)
  BY <1>1, <1>3, <1>6 DEF InFlight
<1>13. CallsFollowSteps'
  <2>1. \A u \in Tasks : calls'[u] \in {0, 1}
    BY <1>8 DEF TaskInv, Flight, CallsFollowSteps
  <2>2. \A q \in Slots : q # s /\ slots[q].step \in {"submit", "answer"} =>
            slots[q].task \in Tasks /\ slots[q].task # t
    BY <1>2, InFlightFacts DEF InFlight
  <2>3. \A q \in Slots : slots'[q].step = "submit" => calls'[slots'[q].task] = 0
    BY <1>3, <1>6, <1>8, <2>2 DEF TaskInv, Flight, CallsFollowSteps
  <2>4. \A q \in Slots : slots'[q].step = "answer" => calls'[slots'[q].task] = 1
    BY <1>3, <1>6, <1>8, <2>2 DEF TaskInv, Flight, CallsFollowSteps
  <2>5. \A p, q \in Slots, u \in Tasks : InFlight(p, u)' /\ InFlight(q, u)' => p = q
    BY <1>12 DEF TaskInv, Flight, CallsFollowSteps
  <2> QED BY <2>1, <2>3, <2>4, <2>5 DEF CallsFollowSteps
<1>14. \A u \in Tasks : u # t /\ Unsent(u) => Unsent(u)'
  BY <1>8, <1>12 DEF Unsent
<1>15. \A u \in Tasks : ~rows'[u].started => Unsent(u)'
  BY <1>1, <1>2, <1>14 DEF TaskInv, Flight, MarksAreKept
<1>16. ASSUME NEW q \in Slots, Loaded(q)', Holds(q)', ~slots'[q].copy.started,
              NEW u \in Tasks, slots'[q].task = u
       PROVE  Unsent(u)'
  <2>1. /\ Loaded(q) /\ slots[q].task = u /\ slots'[q].copy = slots[q].copy
    BY <1>1, <1>3, <1>6, <1>16 DEF Loaded
  <2>2. Holds(q)
    BY <1>1, <1>16, <2>1 DEF Holds
  <2>3. u # t /\ Unsent(u)
    BY <1>2, <1>16, <2>1, <2>2 DEF TaskInv, Flight, MarksAreKept
  <2> QED BY <1>14, <2>3
<1>17. MarksAreKept'
  <2> SUFFICES ASSUME NEW q \in Slots, Loaded(q)', Holds(q)', ~slots'[q].copy.started
               PROVE  Unsent(slots[q].task)'
    BY <1>15 DEF MarksAreKept
  <2>1. slots'[q].task \in Tasks
    BY <1>6 DEF Loaded, Idle, Working
  <2> QED BY <1>16, <2>1 DEF Unsent, InFlight
<1> QED BY <1>9, <1>10, <1>11, <1>13, <1>17 DEF TaskInv, Flight

LEMMA AnswerKeeps ==
    ASSUME TaskInv, SlotsApart, NEW s \in Slots, Answer(s)
    PROVE  TaskInv'
<1> DEFINE t == slots[s].task
           copy == [slots[s].copy EXCEPT !.started = FALSE]
           slot == [slots[s] EXCEPT !.step = "clear", !.copy = copy, !.tried = slots[s].tried + 1]
<1>1. slots[s].step = "answer" /\ UNCHANGED <<rows, requests, faults, billing>>
  BY DEF Answer
<1>2. /\ slots[s] \in Working /\ slots[s].copy \in Rows /\ slots[s].copy.status = "running"
      /\ slots[s].copy.tries < Attempts /\ t \in Tasks
      /\ slots[s].tried < Candidates /\ Loaded(s)
  BY <1>1, LoadedFacts DEF Loaded
<1>3. ASSUME NEW step \in {"checkpoint", "reject"}, Goto(s, step), UNCHANGED <<calls, lost>>
      PROVE  TaskInv'
  <2>1. step \in SlotSteps \ {"load", "submit", "answer", "mark", "clear"}
    BY DEF SlotSteps
  <2> QED BY <1>1, <1>2, <1>3, <2>1, GotoStep
<1>4. CASE /\ calls' = [calls EXCEPT ![t] = @ - 1] /\ lost' \in {lost, lost \cup {t}}
           /\ Become(s, [slots[s] EXCEPT !.step = "clear", !.copy.started = FALSE, !.tried = @ + 1])
  <2>1. Become(s, slot)
    BY <1>4
  <2>2. /\ copy \in Rows /\ copy.status = "running" /\ ~copy.started
        /\ copy.tries < Attempts
    BY <1>2 DEF Rows
  <2>3. slots[s].tried + 1 \in 0 .. Candidates
    BY <1>2, Parameters DEF Working
  <2> HIDE DEF copy
  <2>4. /\ slot \in Working /\ slot.task = t /\ slot.copy = copy /\ slot.step = "clear"
    BY <1>2, <2>2, <2>3 DEF Working, SlotSteps
  <2> HIDE DEF slot
  <2>5. SlotBounds(slot)
    BY <2>2, <2>4 DEF SlotBounds, Finite
  <2>6. /\ slots' \in [Slots -> {Idle} \cup Working]
        /\ slots'[s] = slot
        /\ \A q \in Slots : q # s => slots'[q] = slots[q]
    BY <2>1, <2>4, BecomeFacts DEF TaskInv
  <2>7. calls[t] = 1
    BY <1>1 DEF TaskInv, Flight, CallsFollowSteps
  <2>8. /\ calls' \in [Tasks -> Nat] /\ calls'[t] = 0
        /\ \A u \in Tasks : u # t => calls'[u] = calls[u]
    BY <1>2, <1>4, <2>7 DEF TaskInv, TypeOK
  <2>9. TypeOK'
    BY <1>1, <1>2, <1>4, <2>6, <2>8 DEF TaskInv, TypeOK, billing
  <2>10. Bounds' /\ RequestedIsNew'
    BY <1>1, <2>5, <2>6 DEF TaskInv, Bounds, RequestedIsNew
  <2>11. \A q \in Slots, u \in Tasks : InFlight(q, u)' => InFlight(q, u) /\ u # t
    <3>1. \A q \in Slots : InFlight(q, t) => q = s
      BY <1>1, InFlightFacts
    <3>2. \A q \in Slots, u \in Tasks : InFlight(q, u)' => q # s /\ InFlight(q, u)
      BY <2>4, <2>6 DEF InFlight
    <3> QED BY <3>1, <3>2
  <2>12. CallsFollowSteps'
    <3>1. \A u \in Tasks : calls'[u] \in {0, 1}
      BY <2>8 DEF TaskInv, Flight, CallsFollowSteps
    <3>2. ASSUME NEW q \in Slots, slots'[q].step \in {"submit", "answer"}
          PROVE  q # s /\ slots'[q] = slots[q] /\ calls'[slots[q].task] = calls[slots[q].task]
      <4>1. q # s /\ slots'[q] = slots[q]
        BY <2>4, <2>6, <3>2
      <4>2. slots[q].task \in Tasks
        BY <3>2, <4>1, InFlightFacts
      <4>3. slots[q].task # t
        BY <2>11, <3>2, <4>1, <4>2 DEF InFlight
      <4> QED BY <2>8, <4>1, <4>2, <4>3
    <3>3. \A q \in Slots : slots'[q].step = "submit" => calls'[slots'[q].task] = 0
      BY <3>2 DEF TaskInv, Flight, CallsFollowSteps
    <3>4. \A q \in Slots : slots'[q].step = "answer" => calls'[slots'[q].task] = 1
      BY <3>2 DEF TaskInv, Flight, CallsFollowSteps
    <3>5. \A p, q \in Slots, u \in Tasks : InFlight(p, u)' /\ InFlight(q, u)' => p = q
      BY <2>11 DEF TaskInv, Flight, CallsFollowSteps
    <3> QED BY <3>1, <3>3, <3>4, <3>5 DEF CallsFollowSteps
  <2>13. \A u \in Tasks : Unsent(u) => Unsent(u)'
    BY <2>8, <2>11 DEF Unsent
  <2>14. Unsent(t)'
    <3>1. \A q \in Slots : slots'[q].step \in {"submit", "answer"} => slots'[q].task # t
      BY <1>2, <2>11 DEF InFlight
    <3>2. slots'[s].task = t
      BY <2>4, <2>6
    <3> QED BY <2>8, <3>1, <3>2 DEF Unsent, InFlight
  <2>15. \A u \in Tasks : ~rows'[u].started => Unsent(u)'
    BY <1>1, <2>13 DEF TaskInv, Flight, MarksAreKept
  <2>16. ASSUME NEW q \in Slots, q # s, Loaded(q)', Holds(q)', ~slots'[q].copy.started,
                NEW u \in Tasks, slots'[q].task = u
         PROVE  Unsent(u)'
    <3>1. slots'[q] = slots[q] /\ Loaded(q)
      BY <2>6, <2>16 DEF Loaded
    <3>2. Holds(q)
      BY <1>1, <2>16, <3>1 DEF Holds
    <3> QED BY <2>13, <2>16, <3>1, <3>2 DEF TaskInv, Flight, MarksAreKept
  <2>17. MarksAreKept'
    <3> SUFFICES ASSUME NEW q \in Slots, Loaded(q)', Holds(q)', ~slots'[q].copy.started
                 PROVE  Unsent(slots[q].task)'
      BY <2>15 DEF MarksAreKept
    <3>1. slots'[q].task \in Tasks
      BY <2>6 DEF Loaded, Idle, Working
    <3>2. CASE q = s
      BY <2>4, <2>6, <2>14, <3>2 DEF Unsent, InFlight
    <3>3. CASE q # s
      BY <2>16, <3>1, <3>3 DEF Unsent, InFlight
    <3> QED BY <3>2, <3>3
  <2> QED BY <2>9, <2>10, <2>12, <2>17 DEF TaskInv, Flight
<1> QED BY <1>3, <1>4 DEF Answer

-----------------------------------------------------------------------------
(* Settlement, leases and faults *)

LEMMA FinalizeType ==
    ASSUME TypeOK, NEW t \in Tasks, NEW points \in 0 .. Estimate, FinalizeTask(t, points)
    PROVE  /\ held' \in [Tasks -> {Wallet!Nothing, Estimate}]
           /\ charged' \in [Tasks -> Nat] /\ returned' \in [Tasks -> Nat]
<1>1. CASE Wallet!Settle(t, points)
  <2>1. held[t] = Estimate /\ points <= Estimate
    BY <1>1 DEF Wallet!Settle, TypeOK
  <2>2. charged[t] + points \in Nat /\ returned[t] + (held[t] - points) \in Nat
    BY <2>1, Parameters DEF TypeOK
  <2> QED BY <1>1, <2>2 DEF Wallet!Settle, TypeOK
<1>2. CASE UNCHANGED billing
  BY <1>2 DEF TypeOK, billing
<1> QED BY <1>1, <1>2 DEF FinalizeTask

LEMMA SettleKeeps ==
    ASSUME TaskInv, SlotsApart, NEW s \in Slots, Settle(s)
    PROVE  TaskInv'
<1> DEFINE slot == [slots[s] EXCEPT !.step = "final"]
<1>1. /\ slots[s].step = "settle" /\ UNCHANGED rows /\ UNCHANGED <<calls, lost, requests>>
      /\ UNCHANGED faults /\ Become(s, slot)
      /\ FinalizeTask(slots[s].task, slots[s].copy.actual)
  BY DEF Settle, Goto
<1>2. /\ slots[s] \in Working /\ slots[s].task \in Tasks /\ slots[s].copy \in Rows
      /\ slots[s].copy.status = "running" /\ Finite(slots[s].copy)
      /\ Holds(s) => Sound(s, slots[s].copy)
  BY <1>1, LoadedFacts
<1>3. /\ slot \in Working /\ slot.task = slots[s].task /\ slot.copy = slots[s].copy
      /\ slot.step = "final"
  BY <1>2 DEF Working, SlotSteps
<1> HIDE DEF slot
<1>4. SlotBounds(slot)
  BY <1>2, <1>3 DEF SlotBounds
<1>5. Holds(s) /\ ~slot.copy.started => Unsent(slots[s].task)
  BY <1>2, <1>3 DEF Sound
<1>6. /\ slots' \in [Slots -> {Idle} \cup Working] /\ rows' \in [Tasks -> Rows]
      /\ Bounds' /\ RequestedIsNew' /\ Flight'
  BY <1>1, <1>2, <1>3, <1>4, <1>5, SlotStep
<1>7. slots[s].copy.actual \in 0 .. Estimate
  BY <1>2 DEF Rows
<1>8. /\ held' \in [Tasks -> {Wallet!Nothing, Estimate}]
      /\ charged' \in [Tasks -> Nat] /\ returned' \in [Tasks -> Nat]
  BY <1>1, <1>2, <1>7, FinalizeType DEF TaskInv
<1> QED BY <1>1, <1>6, <1>8 DEF TaskInv, TypeOK

LEMMA DieKeeps ==
    ASSUME TaskInv, SlotsApart, NEW s \in Slots, Die(s)
    PROVE  TaskInv'
<1>1. /\ slots[s] # Idle /\ faults < MaxFaults /\ faults' = faults + 1
      /\ Become(s, Idle) /\ UNCHANGED rows /\ UNCHANGED <<calls, lost, requests>> /\ UNCHANGED billing
  BY DEF Die, Stop
<1>2. slots[s] \in Working /\ slots[s].step # "idle"
  BY <1>1 DEF TaskInv, TypeOK, Working, SlotSteps
<1>3. slots[s].copy \in Rows
  BY <1>2 DEF Working
<1>4. /\ slots' \in [Slots -> {Idle} \cup Working] /\ rows' \in [Tasks -> Rows]
      /\ Bounds' /\ RequestedIsNew' /\ Flight'
  BY <1>1, <1>2, <1>3, IdleBounds, SlotStep
<1>5. faults' \in 0 .. MaxFaults
  BY <1>1, Parameters DEF TaskInv, TypeOK
<1> QED BY <1>1, <1>4, <1>5 DEF TaskInv, TypeOK, billing

(* A lease is taken or lapses: the marks of the rows stay.                 *)
LEMMA LeaseStep ==
    ASSUME TaskInv, NEW t \in Tasks, rows[t].status # "none",
           UNCHANGED <<requests, calls, lost, billing>>, faults' \in 0 .. MaxFaults,
           slots' \in [Slots -> {Idle} \cup Working], rows' \in [Tasks -> Rows],
           \A u \in Tasks : u # t => rows'[u] = rows[u],
           rows'[t].status = "running", rows'[t].started = rows[t].started,
           rows'[t].tries = rows[t].tries, rows'[t].error = rows[t].error,
           rows'[t].payload = rows[t].payload,
           \A q \in Slots : slots'[q] = slots[q]
                            \/ (slots'[q].step = "load" /\ slots'[q].tried < Candidates),
           \A q \in Slots : Loaded(q)' /\ Holds(q)' => Holds(q)
    PROVE  TaskInv'
<1>1. TypeOK'
  BY DEF TaskInv, TypeOK, billing
<1>2. Bounds'
  <2>1. \A u \in Tasks : RowBounds(rows'[u])
    BY DEF TaskInv, Bounds, RowBounds, Finite
  <2>2. \A q \in Slots : SlotBounds(slots'[q])
    BY DEF TaskInv, Bounds, SlotBounds
  <2> QED BY <2>1, <2>2 DEF Bounds
<1>3. RequestedIsNew'
  BY ImageTaskAssumption DEF TaskInv, RequestedIsNew
<1>4. \A q \in Slots, u \in Tasks : InFlight(q, u)' => InFlight(q, u) /\ slots'[q] = slots[q]
  BY DEF InFlight
<1>5. \A u \in Tasks : Unsent(u) => Unsent(u)'
  BY <1>4 DEF Unsent
<1>6. CallsFollowSteps'
  BY <1>4 DEF TaskInv, Flight, CallsFollowSteps
<1>7. \A u \in Tasks : ~rows'[u].started => Unsent(u)'
  BY <1>5 DEF TaskInv, Flight, MarksAreKept
<1>8. MarksAreKept'
  <2> SUFFICES ASSUME NEW q \in Slots, Loaded(q)', Holds(q)', ~slots'[q].copy.started
               PROVE  Unsent(slots[q].task)'
    BY <1>7 DEF MarksAreKept
  <2>1. slots'[q] = slots[q] /\ Loaded(q) /\ slots[q].task \in Tasks
    BY LoadedFacts DEF Loaded
  <2>2. Unsent(slots[q].task)
    BY <2>1 DEF TaskInv, Flight, MarksAreKept
  <2> QED BY <1>5, <2>1, <2>2 DEF Unsent, InFlight
<1> QED BY <1>1, <1>2, <1>3, <1>6, <1>8 DEF TaskInv, Flight

LEMMA AcquireKeeps ==
    ASSUME TaskInv, SlotsApart', NEW s \in Slots, NEW t \in Tasks, Acquire(s, t)
    PROVE  TaskInv'
<1> DEFINE slot == [step |-> "load", task |-> t, copy |-> NoRow,
                    end |-> "failed", rescue |-> FALSE, tried |-> 0]
           row == [rows[t] EXCEPT !.status = "running", !.owner = OwnerOf[s], !.fresh = TRUE]
<1>1. /\ IsEligible(t) /\ Become(s, slot) /\ UNCHANGED <<requests, calls, lost, faults, billing>>
      /\ rows' = [rows EXCEPT ![t] = row]
  BY DEF Acquire
<1>2. rows[t] \in Rows /\ rows[t].status # "none"
  BY <1>1 DEF TaskInv, TypeOK, IsEligible
<1>3. OwnerOf[s] \in Owners
  BY DEF Owners
<1>4. /\ row \in Rows /\ row.status = "running" /\ row.started = rows[t].started
      /\ row.tries = rows[t].tries /\ row.error = rows[t].error
      /\ row.payload = rows[t].payload /\ row.owner = OwnerOf[s]
  BY <1>2, <1>3 DEF Rows
<1>5. slot \in Working /\ slot.step = "load" /\ slot.task = t /\ slot.tried < Candidates
  <2>1. NoRow \in Rows /\ 0 \in 0 .. Candidates
    BY NewRowType, Parameters DEF NoRow
  <2> QED BY <2>1, Parameters DEF Working, SlotSteps
<1> HIDE DEF slot, row
<1>6. /\ slots' \in [Slots -> {Idle} \cup Working]
      /\ slots'[s] = slot
      /\ \A q \in Slots : q # s => slots'[q] = slots[q]
  BY <1>1, <1>5, BecomeFacts DEF TaskInv
<1>7. /\ rows' \in [Tasks -> Rows] /\ rows'[t] = row
      /\ \A u \in Tasks : u # t => rows'[u] = rows[u]
  BY <1>1, <1>4 DEF TaskInv, TypeOK
<1>8. \A q \in Slots : Loaded(q)' /\ Holds(q)' => Holds(q)
  <2> SUFFICES ASSUME NEW q \in Slots, Loaded(q)', Holds(q)' PROVE Holds(q)
    OBVIOUS
  <2>1. q # s
    BY <1>5, <1>6 DEF Loaded
  <2>2. slots'[q] = slots[q] /\ slots[q].task \in Tasks
    BY <1>6, <2>1, LoadedFacts DEF Loaded
  <2>3. slots[q].task # t
    <3> SUFFICES ASSUME slots[q].task = t PROVE FALSE
      OBVIOUS
    <3>1. OwnerOf[s] # OwnerOf[q]
      BY <1>5, <1>6, <2>1, <2>2 DEF Loaded, SlotsApart
    <3> QED BY <1>4, <1>7, <2>2, <3>1 DEF Holds
  <2> QED BY <1>7, <2>2, <2>3 DEF Holds
<1>9. faults' \in 0 .. MaxFaults
  BY <1>1 DEF TaskInv, TypeOK
<1>10. \A q \in Slots : slots'[q] = slots[q]
                        \/ (slots'[q].step = "load" /\ slots'[q].tried < Candidates)
  BY <1>5, <1>6
<1>11. UNCHANGED <<requests, calls, lost, billing>>
  BY <1>1
<1> QED BY <1>2, <1>4, <1>6, <1>7, <1>8, <1>9, <1>10, <1>11, LeaseStep

LEMMA LapseKeeps ==
    ASSUME TaskInv, NEW t \in Tasks, Lapse(t)
    PROVE  TaskInv'
<1> DEFINE row == [rows[t] EXCEPT !.fresh = FALSE]
<1>1. /\ rows[t].status = "running" /\ UNCHANGED <<requests, slots, calls, lost, billing>>
      /\ rows' = [rows EXCEPT ![t] = row]
      /\ UNCHANGED faults \/ (faults < MaxFaults /\ faults' = faults + 1)
  BY DEF Lapse
<1>2. rows[t] \in Rows
  BY DEF TaskInv, TypeOK
<1>3. /\ row \in Rows /\ row.status = "running" /\ row.started = rows[t].started
      /\ row.tries = rows[t].tries /\ row.error = rows[t].error
      /\ row.payload = rows[t].payload /\ row.owner = rows[t].owner
  BY <1>1, <1>2 DEF Rows
<1> HIDE DEF row
<1>4. /\ rows' \in [Tasks -> Rows] /\ rows'[t] = row
      /\ \A u \in Tasks : u # t => rows'[u] = rows[u]
  BY <1>1, <1>3 DEF TaskInv, TypeOK
<1>5. \A q \in Slots : Loaded(q)' /\ Holds(q)' => Holds(q)
  <2> SUFFICES ASSUME NEW q \in Slots, Loaded(q)', Holds(q)' PROVE Holds(q)
    OBVIOUS
  <2>1. slots'[q] = slots[q] /\ slots[q].task \in Tasks
    BY <1>1, LoadedFacts DEF Loaded
  <2> QED BY <1>1, <1>3, <1>4, <2>1 DEF Holds
<1>6. faults' \in 0 .. MaxFaults
  BY <1>1, Parameters DEF TaskInv, TypeOK
<1>7. slots' \in [Slots -> {Idle} \cup Working] /\ \A q \in Slots : slots'[q] = slots[q]
  BY <1>1 DEF TaskInv, TypeOK
<1>8. rows[t].status # "none" /\ UNCHANGED <<requests, calls, lost, billing>>
  BY <1>1
<1> QED BY <1>3, <1>4, <1>5, <1>6, <1>7, <1>8, LeaseStep

-----------------------------------------------------------------------------
(* Requests *)

(* A request that goes on changes no slot; the row it may insert is new.   *)
LEMMA RequestStep ==
    ASSUME TaskInv, NEW r \in Requests,
           NEW new \in [step: RequestSteps, status: {"queued", "failed"}],
           requests' = [requests EXCEPT ![r] = new],
           new.step \in {"reserve", "save", "insert"} => rows[TaskOf[r]].status = "none",
           UNCHANGED <<rows, slots, calls, lost, faults>>,
           /\ held' \in [Tasks -> {Wallet!Nothing, Estimate}]
           /\ charged' \in [Tasks -> Nat] /\ returned' \in [Tasks -> Nat]
    PROVE  TaskInv'
<1>1. /\ requests' \in [Requests -> [step: RequestSteps, status: {"queued", "failed"}]]
      /\ requests'[r] = new
      /\ \A q \in Requests : q # r => requests'[q] = requests[q]
  BY DEF TaskInv, TypeOK
<1>2. TypeOK'
  BY <1>1 DEF TaskInv, TypeOK
<1>3. RequestedIsNew'
  BY <1>1 DEF TaskInv, RequestedIsNew
<1>4. Bounds'
  BY DEF TaskInv, Bounds
<1>5. Flight'
  BY DEF TaskInv, Flight, CallsFollowSteps, MarksAreKept, InFlight, Unsent, Loaded, Holds
<1> QED BY <1>2, <1>3, <1>4, <1>5 DEF TaskInv

LEMMA MoveFacts ==
    ASSUME TypeOK, NEW r \in Requests, NEW step \in RequestSteps, Move(r, step)
    PROVE  \E new \in [step: RequestSteps, status: {"queued", "failed"}] :
              new.step = step /\ requests' = [requests EXCEPT ![r] = new]
<1>1. [requests[r] EXCEPT !.step = step] \in [step: RequestSteps, status: {"queued", "failed"}]
  BY DEF TypeOK
<1>2. [requests[r] EXCEPT !.step = step].step = step
  BY DEF TypeOK
<1>3. requests' = [requests EXCEPT ![r] = [requests[r] EXCEPT !.step = step]]
  BY DEF Move
<1> QED BY <1>1, <1>2, <1>3

LEMMA MoveKeeps ==
    ASSUME TaskInv, NEW r \in Requests, NEW step \in RequestSteps, Move(r, step),
           step \in {"reserve", "save", "insert"} => rows[TaskOf[r]].status = "none",
           UNCHANGED <<rows, slots, calls, lost, faults>>,
           /\ held' \in [Tasks -> {Wallet!Nothing, Estimate}]
           /\ charged' \in [Tasks -> Nat] /\ returned' \in [Tasks -> Nat]
    PROVE  TaskInv'
<1>1. PICK new \in [step: RequestSteps, status: {"queued", "failed"}] :
          new.step = step /\ requests' = [requests EXCEPT ![r] = new]
  BY MoveFacts DEF TaskInv
<1> QED BY <1>1, RequestStep

LEMMA BillingKept ==
    ASSUME TypeOK, UNCHANGED billing
    PROVE  /\ held' \in [Tasks -> {Wallet!Nothing, Estimate}]
           /\ charged' \in [Tasks -> Nat] /\ returned' \in [Tasks -> Nat]
BY DEF TypeOK, billing

LEMMA InsertRowKeeps ==
    ASSUME TaskInv, RequestsApart, NEW r \in Requests, InsertRow(r)
    PROVE  TaskInv'
<1> DEFINE t == TaskOf[r]
           row == NewRow(requests[r].status)
<1>1. /\ requests[r].step = "insert" /\ rows[t].status = "none" /\ Move(r, "done")
      /\ rows' = [rows EXCEPT ![t] = row] /\ UNCHANGED <<slots, calls, lost, faults, billing>>
  BY DEF InsertRow, AfterSave
<1>2. t \in Tasks
  BY ImageTaskAssumption
<1>3. requests[r].status \in {"queued", "failed"}
  BY DEF TaskInv, TypeOK
<1>4. row \in Rows /\ RowBounds(row) /\ ~row.started /\ row.status # "running"
  BY <1>3, NewRowType
<1> HIDE DEF row
<1>5. /\ rows' \in [Tasks -> Rows] /\ rows'[t] = row
      /\ \A u \in Tasks : u # t => rows'[u] = rows[u]
  BY <1>1, <1>2, <1>4 DEF TaskInv, TypeOK
<1>6. "done" \in RequestSteps
  BY DEF RequestSteps
<1>7. PICK new \in [step: RequestSteps, status: {"queued", "failed"}] :
          new.step = "done" /\ requests' = [requests EXCEPT ![r] = new]
  BY <1>1, <1>6, MoveFacts DEF TaskInv
<1>8. /\ requests' \in [Requests -> [step: RequestSteps, status: {"queued", "failed"}]]
      /\ requests'[r].step = "done"
      /\ \A q \in Requests : q # r => requests'[q] = requests[q]
  BY <1>7 DEF TaskInv, TypeOK
<1>9. TypeOK'
  BY <1>1, <1>5, <1>8 DEF TaskInv, TypeOK, billing
<1>10. Bounds'
  BY <1>1, <1>4, <1>5 DEF TaskInv, Bounds
<1>11. RequestedIsNew'
  <2> SUFFICES ASSUME NEW q \in Requests, requests'[q].step \in {"reserve", "save", "insert"}
               PROVE  rows'[TaskOf[q]].status = "none"
    BY DEF RequestedIsNew
  <2>1. q # r /\ requests'[q] = requests[q] /\ TaskOf[q] \in Tasks
    BY <1>8, ImageTaskAssumption
  <2>2. TaskOf[q] # t
    BY <1>1, <2>1 DEF RequestsApart
  <2> QED BY <1>5, <2>1, <2>2 DEF TaskInv, RequestedIsNew
<1>12. Unsent(t)
  <2>1. ~rows[t].started
    BY <1>1, <1>2 DEF TaskInv, Bounds, RowBounds
  <2> QED BY <1>2, <2>1 DEF TaskInv, Flight, MarksAreKept
<1>13. \A u \in Tasks : Unsent(u) => Unsent(u)'
  BY <1>1 DEF Unsent, InFlight
<1>14. CallsFollowSteps'
  BY <1>1 DEF TaskInv, Flight, CallsFollowSteps, InFlight
<1>15. \A u \in Tasks : ~rows'[u].started => Unsent(u)'
  BY <1>5, <1>12, <1>13 DEF TaskInv, Flight, MarksAreKept
<1>16. MarksAreKept'
  <2> SUFFICES ASSUME NEW q \in Slots, Loaded(q)', Holds(q)', ~slots'[q].copy.started
               PROVE  Unsent(slots[q].task)'
    BY <1>15 DEF MarksAreKept
  <2>1. slots'[q] = slots[q] /\ Loaded(q) /\ slots[q].task \in Tasks
    BY <1>1, LoadedFacts DEF Loaded
  <2>2. slots[q].task # t
    BY <1>4, <1>5, <2>1 DEF Holds
  <2>3. Holds(q)
    BY <1>5, <2>1, <2>2 DEF Holds
  <2>4. Unsent(slots[q].task)
    BY <2>1, <2>3 DEF TaskInv, Flight, MarksAreKept
  <2> QED BY <1>13, <2>1, <2>4 DEF Unsent, InFlight
<1> QED BY <1>9, <1>10, <1>11, <1>14, <1>16 DEF TaskInv, Flight

LEMMA RequestKeeps ==
    ASSUME TaskInv, RequestsApart, NEW r \in Requests, CreateTask(r) \/ DropRequest(r)
    PROVE  TaskInv'
<1> DEFINE failed == [step |-> "save", status |-> "failed"]
<1>1. TypeOK
  BY DEF TaskInv
<1>2. failed \in [step: RequestSteps, status: {"queued", "failed"}] /\ failed.step = "save"
  BY DEF RequestSteps
<1>3. {"done", "reserve", "save", "insert", "rollback"} \subseteq RequestSteps
  BY DEF RequestSteps
<1>4. TaskOf[r] \in Tasks
  BY ImageTaskAssumption
<1> HIDE DEF failed
<1>5. CASE Check(r)
  <2>1. \/ \E step \in {"done", "reserve"} : Move(r, step)
        \/ requests' = [requests EXCEPT ![r] = failed]
    BY <1>5 DEF Check, failed
  <2>2. /\ UNCHANGED <<rows, slots, calls, lost, faults>> /\ UNCHANGED billing
        /\ rows[TaskOf[r]].status = "none" \/ Move(r, "done")
    BY <1>5 DEF Check
  <2> QED BY <1>1, <1>2, <1>3, <2>1, <2>2, BillingKept, MoveKeeps, RequestStep
<1>6. CASE Reserve(r)
  <2>1. rows[TaskOf[r]].status = "none" /\ UNCHANGED <<rows, slots, calls, lost, faults>>
    BY <1>6 DEF Reserve, TaskInv, RequestedIsNew
  <2>2. /\ held' \in [Tasks -> {Wallet!Nothing, Estimate}]
        /\ charged' \in [Tasks -> Nat] /\ returned' \in [Tasks -> Nat]
    BY <1>1, <1>4, <1>6 DEF Reserve, ReserveTask, Wallet!Hold, TypeOK, billing
  <2>3. Move(r, "save") \/ requests' = [requests EXCEPT ![r] = failed]
    BY <1>6 DEF Reserve, failed
  <2> QED BY <1>2, <1>3, <2>1, <2>2, <2>3, MoveKeeps, RequestStep
<1>7. CASE SaveRow(r)
  <2>1. requests[r].step = "save" /\ rows[TaskOf[r]].status = "none"
    BY <1>7 DEF SaveRow, TaskInv, RequestedIsNew
  <2>2. /\ Move(r, "insert") /\ UNCHANGED <<rows, slots, calls, lost, faults>> /\ UNCHANGED billing
    BY <1>7, <2>1 DEF SaveRow
  <2> QED BY <1>1, <1>3, <2>1, <2>2, BillingKept, MoveKeeps
<1>8. CASE InsertRow(r)
  BY <1>8, InsertRowKeeps
<1>9. CASE FailSave(r)
  <2>1. /\ \E step \in {"done", "rollback"} : Move(r, step)
        /\ UNCHANGED <<rows, slots, calls, lost, faults>> /\ UNCHANGED billing
    BY <1>9 DEF FailSave
  <2> QED BY <1>1, <1>3, <2>1, BillingKept, MoveKeeps
<1>10. CASE Rollback(r)
  <2>1. 0 \in 0 .. Estimate
    BY Parameters
  <2>2. /\ FinalizeTask(TaskOf[r], 0) /\ Move(r, "done")
        /\ UNCHANGED <<rows, slots, calls, lost, faults>>
    BY <1>10 DEF Rollback
  <2> QED BY <1>1, <1>3, <1>4, <2>1, <2>2, FinalizeType, MoveKeeps
<1>11. CASE DropRequest(r)
  <2>1. /\ Move(r, "done") /\ UNCHANGED <<rows, slots, calls, lost, faults>> /\ UNCHANGED billing
    BY <1>11 DEF DropRequest
  <2> QED BY <1>1, <1>3, <2>1, BillingKept, MoveKeeps
<1> QED BY <1>5, <1>6, <1>7, <1>8, <1>9, <1>10, <1>11 DEF CreateTask

-----------------------------------------------------------------------------
(* The theorems *)

LEMMA TaskInvInit == Init => TaskInv
<1> SUFFICES ASSUME Init PROVE TaskInv
  OBVIOUS
<1>1. NoRow \in Rows /\ RowBounds(NoRow) /\ NoRow.status = "none"
  BY NewRowType DEF NoRow
<1>2. TypeOK
  <2>1. 0 \in 0 .. MaxFaults
    BY Parameters
  <2>2. [step |-> "check", status |-> "queued"] \in [step: RequestSteps, status: {"queued", "failed"}]
    BY DEF RequestSteps
  <2>3. /\ held \in [Tasks -> {Wallet!Nothing, Estimate}]
        /\ charged \in [Tasks -> Nat] /\ returned \in [Tasks -> Nat]
    BY DEF Init, Wallet!Init
  <2> QED BY <1>1, <2>1, <2>2, <2>3 DEF Init, TypeOK
<1>3. \A s \in Slots : slots[s] = Idle
  BY DEF Init
<1>4. Bounds
  BY <1>1, <1>3, IdleBounds DEF Init, Bounds
<1>5. RequestedIsNew
  BY <1>1, ImageTaskAssumption DEF Init, RequestedIsNew
<1>6. \A t \in Tasks : Unsent(t)
  BY <1>3, IdleBounds DEF Init, Unsent, InFlight
<1>7. Flight
  BY <1>3, <1>6, IdleBounds
     DEF Init, Flight, CallsFollowSteps, MarksAreKept, Loaded, Unsent, InFlight
<1> QED BY <1>2, <1>4, <1>5, <1>7 DEF TaskInv

LEMMA TaskInvNext == Undisturbed /\ Undisturbed' /\ TaskInv /\ [Next]_vars => TaskInv'
<1> SUFFICES ASSUME SlotsApart, SlotsApart', RequestsApart, TaskInv, [Next]_vars PROVE TaskInv'
  BY DEF Undisturbed
<1>1. ASSUME NEW s \in Slots, Execute(s) PROVE TaskInv'
  BY <1>1, LoadKeeps, RejectKeeps, MarkKeeps, SubmitKeeps, AnswerKeeps, ClearKeeps,
     CheckpointKeeps, RecoverKeeps, PinKeeps, PersistKeeps, RequeueKeeps, SaveKeeps,
     SettleKeeps, FinalKeeps
     DEF Execute
<1>2. CASE UNCHANGED vars
  BY <1>2 DEF vars, billing, TaskInv, TypeOK, Bounds, RequestedIsNew, Flight, CallsFollowSteps,
              MarksAreKept, InFlight, Unsent, Loaded, Holds
<1> QED BY <1>1, <1>2, RequestKeeps, DieKeeps, AcquireKeeps, LapseKeeps DEF Next

(* No provider is asked for a task again while an earlier call may have    *)
(* produced its images, unless the worker saw that call end in an error:   *)
(* whatever slots die, lose their leases or take tasks over.               *)
THEOREM RepeatedAfterErrorHolds == Spec => ([]Undisturbed => []RepeatedAfterError)
<1>1. Init => TaskInv
  BY TaskInvInit
<1>2. Undisturbed /\ Undisturbed' /\ TaskInv /\ [Next]_vars => TaskInv'
  BY TaskInvNext
<1>3. TaskInv => RepeatedAfterError
  <2> SUFFICES ASSUME TaskInv, NEW t \in Tasks PROVE calls[t] <= 1
    BY DEF RepeatedAfterError
  <2>1. calls[t] = 0 \/ calls[t] = 1
    BY DEF TaskInv, Flight, CallsFollowSteps
  <2>2. CASE calls[t] = 0
    BY <2>2
  <2>3. CASE calls[t] = 1
    BY <2>3
  <2> QED BY <2>1, <2>2, <2>3
<1> QED BY <1>1, <1>2, <1>3, PTL DEF Spec

(* What the end of a row rests on: a request that may still save its row   *)
(* has none.                                                               *)
NewRowsInv ==
    /\ DOMAIN rows = Tasks
    /\ requests \in [Requests -> [step: RequestSteps, status: {"queued", "failed"}]]
    /\ RequestedIsNew
Lasts(t) == rows[t].status \in FinalStatuses \cup {"none"} => rows'[t] = rows[t]

(* A write by its task's holder leaves every row alone that ended or is    *)
(* not there yet.                                                          *)
LEMMA WritesLast ==
    ASSUME DOMAIN rows = Tasks, NEW s \in Slots,
           UNCHANGED rows \/ (Holds(s) /\ \E copy : Write(s, copy))
    PROVE  DOMAIN rows' = Tasks /\ \A t \in Tasks : Lasts(t)
<1>1. CASE UNCHANGED rows
  BY <1>1 DEF Lasts
<1>2. ASSUME Holds(s), NEW copy, Write(s, copy)
      PROVE  DOMAIN rows' = Tasks /\ \A t \in Tasks : Lasts(t)
  <2>1. rows[slots[s].task].status = "running"
    BY <1>2 DEF Holds
  <2>2. \A t \in Tasks : t # slots[s].task => rows'[t] = rows[t]
    BY <1>2 DEF Write
  <2>3. DOMAIN rows' = Tasks
    BY <1>2 DEF Write
  <2> QED BY <2>1, <2>2, <2>3 DEF Lasts, FinalStatuses
<1> QED BY <1>1, <1>2

LEMMA ExecuteLasts ==
    ASSUME DOMAIN rows = Tasks, NEW s \in Slots, Execute(s)
    PROVE  DOMAIN rows' = Tasks /\ requests' = requests /\ \A t \in Tasks : Lasts(t)
<1>1. CASE Load(s) \/ Submit(s) \/ Answer(s) \/ Recover(s) \/ Persist(s) \/ Settle(s)
  BY <1>1, WritesLast DEF Load, Submit, Answer, Recover, Persist, Settle
<1>2. CASE Reject(s)
  BY <1>2, WritesLast DEF Reject, Owns
<1>3. CASE Mark(s)
  BY <1>3, WritesLast DEF Mark, Owns
<1>4. CASE Clear(s)
  BY <1>4, WritesLast DEF Clear, Owns
<1>5. CASE Checkpoint(s)
  BY <1>5, WritesLast DEF Checkpoint
<1>6. CASE Pin(s)
  BY <1>6, WritesLast DEF Pin
<1>7. CASE Requeue(s)
  BY <1>7, WritesLast DEF Requeue, Owns
<1>8. CASE Save(s)
  BY <1>8, WritesLast DEF Save, Owns
<1>9. CASE Final(s)
  BY <1>9, WritesLast DEF Final, Owns
<1> QED BY <1>1, <1>2, <1>3, <1>4, <1>5, <1>6, <1>7, <1>8, <1>9 DEF Execute

(* A request's step: the row it inserts is no other request's.             *)
LEMMA RequestLasts ==
    ASSUME NewRowsInv, RequestsApart, NEW r \in Requests, CreateTask(r) \/ DropRequest(r)
    PROVE  /\ NewRowsInv'
           /\ \A t \in Tasks : rows[t].status \in FinalStatuses => rows'[t] = rows[t]
<1> DEFINE kinds == [step: RequestSteps, status: {"queued", "failed"}]
<1>1. TaskOf[r] \in Tasks /\ \A q \in Requests : TaskOf[q] \in Tasks
  BY ImageTaskAssumption
<1>2. ASSUME NEW new \in kinds, requests' = [requests EXCEPT ![r] = new], UNCHANGED rows,
             new.step \in {"reserve", "save", "insert"} => rows[TaskOf[r]].status = "none"
      PROVE  NewRowsInv' /\ \A t \in Tasks : rows'[t] = rows[t]
  BY <1>2 DEF NewRowsInv, RequestedIsNew
<1>3. ASSUME NEW step \in RequestSteps, Move(r, step)
      PROVE  \E new \in kinds : new.step = step /\ requests' = [requests EXCEPT ![r] = new]
  <2>1. /\ [requests[r] EXCEPT !.step = step] \in kinds
        /\ [requests[r] EXCEPT !.step = step].step = step
    BY DEF NewRowsInv
  <2> QED BY <1>3, <2>1 DEF Move
<1>4. ASSUME NEW step \in RequestSteps, Move(r, step), UNCHANGED rows,
             step \in {"reserve", "save", "insert"} => rows[TaskOf[r]].status = "none"
      PROVE  NewRowsInv' /\ \A t \in Tasks : rows'[t] = rows[t]
  BY <1>2, <1>3, <1>4
<1>5. {"done", "reserve", "save", "insert", "rollback"} \subseteq RequestSteps
  BY DEF RequestSteps
<1> DEFINE failed == [step |-> "save", status |-> "failed"]
<1>6. failed \in kinds
  BY <1>5
<1>7. CASE Check(r)
  <2>1. /\ UNCHANGED rows
        /\ \/ Move(r, "done")
           \/ /\ rows[TaskOf[r]].status = "none"
              /\ Move(r, "reserve") \/ requests' = [requests EXCEPT ![r] = failed]
    BY <1>7 DEF Check
  <2> HIDE DEF failed, kinds
  <2> QED BY <1>2, <1>4, <1>5, <1>6, <2>1
<1>8. CASE Reserve(r)
  <2>1. /\ UNCHANGED rows /\ rows[TaskOf[r]].status = "none"
        /\ Move(r, "save") \/ requests' = [requests EXCEPT ![r] = failed]
    BY <1>8 DEF Reserve, NewRowsInv, RequestedIsNew
  <2> HIDE DEF failed, kinds
  <2> QED BY <1>2, <1>4, <1>5, <1>6, <2>1
<1>9. CASE SaveRow(r)
  <2>1. UNCHANGED rows /\ rows[TaskOf[r]].status = "none" /\ Move(r, "insert")
    BY <1>9 DEF SaveRow, NewRowsInv, RequestedIsNew
  <2> QED BY <1>4, <1>5, <2>1
<1>10. CASE InsertRow(r)
  <2>1. /\ requests[r].step = "insert" /\ rows[TaskOf[r]].status = "none" /\ Move(r, "done")
        /\ rows' = [rows EXCEPT ![TaskOf[r]] = NewRow(requests[r].status)]
    BY <1>10 DEF InsertRow, AfterSave
  <2>2. PICK new \in kinds : new.step = "done" /\ requests' = [requests EXCEPT ![r] = new]
    BY <1>3, <1>5, <2>1
  <2>3. /\ requests' \in [Requests -> kinds] /\ requests'[r].step = "done"
        /\ \A q \in Requests : q # r => requests'[q] = requests[q]
    BY <2>2 DEF NewRowsInv
  <2>4. DOMAIN rows' = Tasks /\ \A t \in Tasks : t # TaskOf[r] => rows'[t] = rows[t]
    BY <2>1 DEF NewRowsInv
  <2>5. RequestedIsNew'
    <3> SUFFICES ASSUME NEW q \in Requests, requests'[q].step \in {"reserve", "save", "insert"}
                 PROVE  rows'[TaskOf[q]].status = "none"
      BY DEF RequestedIsNew
    <3>1. q # r /\ requests'[q] = requests[q]
      BY <2>3
    <3>2. TaskOf[q] # TaskOf[r]
      BY <2>1, <3>1 DEF RequestsApart
    <3> QED BY <1>1, <2>4, <3>1, <3>2 DEF NewRowsInv, RequestedIsNew
  <2> QED BY <2>1, <2>3, <2>4, <2>5 DEF NewRowsInv, FinalStatuses
<1>11. CASE FailSave(r) \/ Rollback(r) \/ DropRequest(r)
  <2>1. UNCHANGED rows /\ (Move(r, "done") \/ Move(r, "rollback"))
    BY <1>11 DEF FailSave, Rollback, DropRequest
  <2> QED BY <1>4, <1>5, <2>1
<1> QED BY <1>7, <1>8, <1>9, <1>10, <1>11 DEF CreateTask

(* A row that ended is never written again: not by a slot that lost its    *)
(* lease, not by one that reclaims, nor by a request's save; slots of one  *)
(* process may work on the task at once.                                   *)
THEOREM EndIsFinalHolds == Spec => ([]RequestsApart => EndIsFinal)
<1> DEFINE Ends == \A t \in Tasks : rows[t].status \in FinalStatuses => rows'[t] = rows[t]
<1>1. Init => NewRowsInv
  <2>1. [step |-> "check", status |-> "queued"] \in [step: RequestSteps, status: {"queued", "failed"}]
    BY DEF RequestSteps
  <2> QED BY <2>1 DEF Init, NewRowsInv, RequestedIsNew
<1>2. RequestsApart /\ NewRowsInv /\ [Next]_vars => NewRowsInv' /\ [Ends]_vars
  <2> SUFFICES ASSUME RequestsApart, NewRowsInv, [Next]_vars PROVE NewRowsInv' /\ Ends
    OBVIOUS
  <2>1. ASSUME requests' = requests, DOMAIN rows' = Tasks,
               \A t \in Tasks : Lasts(t)
        PROVE  NewRowsInv' /\ Ends
    <3>1. RequestedIsNew'
      BY <2>1, ImageTaskAssumption DEF NewRowsInv, RequestedIsNew, Lasts
    <3> QED BY <2>1, <3>1 DEF NewRowsInv, Lasts
  <2>2. DOMAIN rows = Tasks
    BY DEF NewRowsInv
  <2>3. ASSUME NEW s \in Slots, Execute(s) PROVE NewRowsInv' /\ Ends
    BY <2>1, <2>2, <2>3, ExecuteLasts
  <2>4. ASSUME NEW s \in Slots, NEW t \in Tasks, Acquire(s, t) PROVE NewRowsInv' /\ Ends
    BY <2>1, <2>2, <2>4 DEF Acquire, IsEligible, Lasts, FinalStatuses
  <2>5. ASSUME NEW t \in Tasks, Lapse(t) PROVE NewRowsInv' /\ Ends
    BY <2>1, <2>2, <2>5 DEF Lapse, Lasts, FinalStatuses
  <2>6. ASSUME NEW r \in Requests, CreateTask(r) \/ DropRequest(r) PROVE NewRowsInv' /\ Ends
    BY <2>6, RequestLasts
  <2>7. ASSUME NEW s \in Slots, Die(s) PROVE NewRowsInv' /\ Ends
    BY <2>1, <2>2, <2>7 DEF Die, Lasts
  <2>8. CASE UNCHANGED vars
    BY <2>1, <2>2, <2>8 DEF vars, Lasts
  <2> QED BY <2>3, <2>4, <2>5, <2>6, <2>7, <2>8 DEF Next
<1> QED BY <1>1, <1>2, PTL DEF Spec, EndIsFinal

-----------------------------------------------------------------------------
(* Points.  A row is sealed once it shows results or an error: nothing but *)
(* its settlement and its last save is left to do.  Whoever settles does   *)
(* it for what the sealed row shows, and nobody settles an unsealed row.   *)

Sealed(row) == row.results \/ row.error
IsSettled(t) == charged[t] + returned[t] > 0
Ending == {"save", "settle", "final"}

(* What a slot has in hand agrees with the step it has come to.            *)
CopyInv(slot) ==
    slot.step \notin {"idle", "load"} =>
        /\ ~slot.copy.results => slot.copy.actual = 0
        /\ slot.step \in Ending =>
               /\ slot.copy.payload = "none" /\ Sealed(slot.copy)
               /\ slot.end = "succeeded" <=> slot.copy.results
        /\ slot.step \notin Ending => ~slot.copy.results
        /\ slot.step \notin Ending \cup {"reject"} => ~slot.copy.error
        /\ slot.step \in {"recover", "pin", "persist", "requeue"} <=>
               slot.copy.payload # "none"

(* A slot that settles has saved what it settles for, and the row still    *)
(* shows it, whoever has the lease.                                        *)
Shown(slot, row) ==
    slot.step \in {"settle", "final"} =>
        /\ row.status # "none" /\ Sealed(row)
        /\ row.results = slot.copy.results /\ row.actual = slot.copy.actual
SavedInv(slot) ==
    slot.step # "idle" =>
        /\ Shown(slot, rows[slot.task])
        /\ slot.step = "final" => IsSettled(slot.task)

(* The holder of the lease has not sealed the row before it saves the end, *)
(* and before the checkpoint no payload is kept.                           *)
Unended(step, row) ==
    /\ step \notin {"settle", "final"} => ~row.results
    /\ step \notin {"settle", "final", "reject"} => ~row.error
    /\ step \in {"mark", "submit", "answer", "clear", "checkpoint"} => row.payload = "none"
HolderInv(s) == Loaded(s) /\ Holds(s) => Unended(slots[s].step, rows[slots[s].task])

Plain(row) ==
    /\ Sealed(row) => row.payload = "none"
    /\ ~row.results => row.actual = 0
    /\ row.status \in {"none", "queued"} => ~Sealed(row)
    /\ row.status = "none" => row.payload = "none"
RowInv(t) ==
    /\ Plain(rows[t])
    /\ IsSettled(t) =>
           /\ held[t] = Wallet!Nothing /\ charged[t] = rows[t].actual
           /\ rows[t].status = "none" \/ Sealed(rows[t])

(* A task all of whose requests are still to check for its row is new; a   *)
(* request that has not inserted its row has settled nothing, and one that *)
(* is to insert a failed row has reserved nothing.                         *)
IsNew(t) == rows[t].status = "none" /\ held[t] = Wallet!Nothing /\ ~IsSettled(t)
FreshInv(t) ==
    (\A r \in Requests : TaskOf[r] = t => requests[r].step = "check") => IsNew(t)
RequestInv(r) ==
    /\ requests[r].step \in {"reserve", "save", "insert"} =>
           /\ ~IsSettled(TaskOf[r])
           /\ requests[r].step = "reserve" \/ requests[r].status = "failed" =>
                  held[TaskOf[r]] = Wallet!Nothing
    /\ requests[r].step \in {"check", "reserve"} => requests[r].status = "queued"
    /\ requests[r].step = "rollback" => rows[TaskOf[r]].status = "none"

PointsInv ==
    /\ \A s \in Slots : CopyInv(slots[s]) /\ SavedInv(slots[s]) /\ HolderInv(s)
    /\ \A t \in Tasks : RowInv(t) /\ FreshInv(t)
    /\ \A r \in Requests : RequestInv(r)
    /\ EndIsSettled

-----------------------------------------------------------------------------
(* Points: steps of a slot that leave the wallet alone *)

LEMMA IdlePoints == CopyInv(Idle)
BY DEF Idle, CopyInv

(* A row that the holder of the lease may write: it ends no task that is   *)
(* not settled, and leaves a sealed row showing what it shows.             *)
Fits(t, row) ==
    /\ Plain(row)
    /\ row.status # "none"
    /\ Sealed(rows[t]) =>
           Sealed(row) /\ row.results = rows[t].results /\ row.actual = rows[t].actual
    /\ row.status \in {"succeeded", "failed"} =>
           /\ IsSettled(t)
           /\ row.status = "succeeded" <=> row.results

LEMMA PointsStep ==
    ASSUME TaskInv, PointsInv, SlotsApart, NEW s \in Slots, slots[s].step # "idle",
           NEW slot \in {Idle} \cup Working, Become(s, slot), CopyInv(slot),
           slot.step # "idle" => slot.task = slots[s].task,
           NEW row \in Rows, rows' = [rows EXCEPT ![slots[s].task] = row],
           \/ row = rows[slots[s].task]
           \/ /\ Holds(s) /\ Fits(slots[s].task, row)
              /\ row.status = "running" => row.owner = rows[slots[s].task].owner,
           slot.step # "idle" => Shown(slot, row),
           slot.step = "final" => IsSettled(slots[s].task),
           Holds(s) /\ slot.step \notin {"idle", "load"} => Unended(slot.step, row),
           UNCHANGED <<requests, billing>>
    PROVE  PointsInv'
<1> DEFINE t == slots[s].task
<1>1. /\ slots'[s] = slot
      /\ \A q \in Slots : q # s => slots'[q] = slots[q]
  BY BecomeFacts DEF TaskInv
<1>2. t \in Tasks
  BY AtWork DEF TaskInv
<1>3. rows'[t] = row /\ \A u \in Tasks : u # t => rows'[u] = rows[u]
  BY <1>2 DEF TaskInv, TypeOK
<1>4. /\ rows[t] \in Rows /\ RowInv(t)
      /\ \/ row = rows[t]
         \/ /\ Holds(s) /\ Fits(t, row) /\ rows[t].status = "running"
            /\ row.status = "running" => row.owner = rows[t].owner
  BY <1>2 DEF TaskInv, TypeOK, PointsInv, Holds
<1>5. /\ \A u \in Tasks : IsSettled(u)' <=> IsSettled(u)
      /\ held' = held /\ charged' = charged /\ requests' = requests
  BY DEF billing, IsSettled
<1>6. /\ Sealed(rows[t]) =>
             Sealed(row) /\ row.results = rows[t].results /\ row.actual = rows[t].actual
      /\ row.status # "none" \/ row = rows[t]
      /\ Plain(row)
  BY <1>4 DEF Fits, RowInv
<1>7. \A q \in Slots : CopyInv(slots'[q])
  BY <1>1 DEF PointsInv
<1>8. \A q \in Slots : SavedInv(slots[q])'
  <2> SUFFICES ASSUME NEW q \in Slots, slots'[q].step # "idle"
               PROVE  /\ Shown(slots'[q], rows'[slots'[q].task])
                      /\ slots'[q].step = "final" => IsSettled(slots[q].task)'
    BY DEF SavedInv, Shown, Sealed
  <2>1. CASE q = s
    <3>1. slots'[q] = slot /\ slot.step # "idle" /\ slot.task = t
      BY <1>1, <2>1
    <3>2. Shown(slot, rows'[t])
      BY <1>3, <3>1
    <3>3. slots'[q].step = "final" => IsSettled(slots[q].task)'
      BY <1>5, <3>1 DEF IsSettled, billing
    <3> QED BY <3>1, <3>2, <3>3
  <2>2. CASE q # s
    <3>1. slots'[q] = slots[q] /\ slots[q].task \in Tasks /\ SavedInv(slots[q])
      BY <1>1, <2>2, AtWork DEF TaskInv, PointsInv
    <3>2. Shown(slots[q], rows[slots[q].task])
      BY <3>1 DEF SavedInv
    <3>3. Shown(slots[q], rows'[slots[q].task])
      BY <1>3, <1>6, <3>1, <3>2 DEF Shown
    <3>4. slots'[q].step = "final" => IsSettled(slots[q].task)'
      BY <1>5, <3>1 DEF SavedInv, IsSettled
    <3> QED BY <3>1, <3>3, <3>4
  <2> QED BY <2>1, <2>2
<1>9. \A q \in Slots : HolderInv(q)'
  <2> SUFFICES ASSUME NEW q \in Slots, Loaded(q)', Holds(q)'
               PROVE  Unended(slots'[q].step, rows'[slots'[q].task])
    BY DEF HolderInv, Unended
  <2>1. CASE q = s
    <3>1. slot.step \notin {"idle", "load"} /\ slot.task = t
      BY <1>1, <2>1 DEF Loaded
    <3>2. row.status = "running" /\ row.owner = OwnerOf[s]
      BY <1>1, <1>3, <2>1, <3>1 DEF Holds
    <3>3. Holds(s)
      BY <1>4, <3>2 DEF Holds
    <3> QED BY <1>1, <1>3, <2>1, <3>1, <3>3
  <2>2. CASE q # s
    <3>1. slots'[q] = slots[q] /\ Loaded(q) /\ slots[q].task \in Tasks
      BY <1>1, <2>2, AtWork DEF Loaded, TaskInv
    <3>2. rows'[slots[q].task] = rows[slots[q].task]
      <4>1. CASE slots[q].task = t /\ row # rows[t]
        <5>1. row.status = "running" /\ row.owner = OwnerOf[q]
          BY <1>3, <3>1, <4>1 DEF Holds
        <5>2. rows[t].owner = OwnerOf[s] /\ rows[t].owner = OwnerOf[q]
          BY <1>4, <4>1, <5>1 DEF Holds
        <5> QED BY <2>2, <3>1, <4>1, <5>2 DEF Loaded, SlotsApart
      <4> QED BY <1>3, <3>1, <4>1
    <3>3. Holds(q)
      BY <3>1, <3>2 DEF Holds
    <3> QED BY <3>1, <3>2, <3>3 DEF PointsInv, HolderInv
  <2> QED BY <2>1, <2>2
<1>10. \A u \in Tasks : RowInv(u)'
  <2> SUFFICES ASSUME NEW u \in Tasks
               PROVE  /\ Plain(rows'[u])
                      /\ IsSettled(u) =>
                             /\ held[u] = Wallet!Nothing /\ charged[u] = rows'[u].actual
                             /\ rows'[u].status = "none" \/ Sealed(rows'[u])
    BY <1>5 DEF RowInv, Plain, Sealed
  <2>1. CASE u # t
    BY <1>3, <2>1 DEF PointsInv, RowInv
  <2>2. CASE u = t
    <3>1. IsSettled(t) => row = rows[t] \/ Sealed(rows[t])
      BY <1>4 DEF RowInv
    <3> QED BY <1>3, <1>4, <1>6, <2>2, <3>1 DEF RowInv
  <2> QED BY <2>1, <2>2
<1>11. \A r \in Requests : RequestInv(r)'
  <2> SUFFICES ASSUME NEW r \in Requests PROVE RequestInv(r)'
    OBVIOUS
  <2>1. TaskOf[r] \in Tasks /\ RequestInv(r)
    BY ImageTaskAssumption DEF PointsInv
  <2>2. rows[TaskOf[r]].status = "none" => rows'[TaskOf[r]].status = "none"
    BY <1>3, <1>4, <2>1
  <2> QED BY <1>5, <2>1, <2>2 DEF RequestInv
<1>14. \A u \in Tasks : FreshInv(u)'
  <2> SUFFICES ASSUME NEW u \in Tasks PROVE FreshInv(u)'
    OBVIOUS
  <2>1. FreshInv(u) /\ (rows[u].status = "none" => rows'[u].status = "none")
    BY <1>3, <1>4 DEF PointsInv
  <2> QED BY <1>5, <2>1 DEF FreshInv, IsNew
<1>12. EndIsSettled'
  <2> SUFFICES ASSUME NEW u \in Tasks, rows'[u].status \in {"succeeded", "failed"}
               PROVE  /\ held[u] = Wallet!Nothing
                      /\ charged[u] = IF rows'[u].status = "succeeded" THEN rows'[u].actual ELSE 0
    BY <1>5 DEF EndIsSettled
  <2>1. CASE rows'[u] = rows[u]
    BY <2>1 DEF PointsInv, EndIsSettled
  <2>2. CASE u = t /\ row # rows[t]
    <3>1. Fits(t, row) /\ row.status \in {"succeeded", "failed"}
      BY <1>3, <1>4, <2>2
    <3>2. IsSettled(t) /\ (row.status = "succeeded" <=> row.results)
      BY <3>1 DEF Fits
    <3>3. held[t] = Wallet!Nothing /\ charged[t] = row.actual
      BY <1>4, <1>6, <3>2 DEF RowInv
    <3>4. row.status # "succeeded" => row.actual = 0
      BY <1>6, <3>2 DEF Plain
    <3> QED BY <1>3, <2>2, <3>3, <3>4
  <2> QED BY <1>3, <2>1, <2>2
<1>13. \A q \in Slots : CopyInv(slots[q])'
  BY <1>7 DEF CopyInv, Sealed
<1> QED BY <1>8, <1>9, <1>10, <1>11, <1>12, <1>13, <1>14 DEF PointsInv

(* What a write leaves in the row.                                         *)
LEMMA WrittenRow ==
    ASSUME TypeOK, NEW s \in Slots, slots[s].step # "idle", NEW copy \in Rows, Write(s, copy)
    PROVE  \E row \in Rows :
              /\ rows' = [rows EXCEPT ![slots[s].task] = row]
              /\ row.status = copy.status /\ row.results = copy.results
              /\ row.error = copy.error /\ row.actual = copy.actual
              /\ row.payload = copy.payload
              /\ row.status = "running" => row.owner = rows[slots[s].task].owner
<1> DEFINE t == slots[s].task
           row == IF copy.status = "running"
                  THEN [copy EXCEPT !.owner = rows[t].owner, !.fresh = rows[t].fresh]
                  ELSE [copy EXCEPT !.owner = Nobody, !.fresh = FALSE]
<1>1. rows[t] \in Rows
  BY AtWork DEF TypeOK
<1>2. rows[t].owner \in Owners \cup {Nobody} /\ rows[t].fresh \in BOOLEAN
  BY <1>1 DEF Rows
<1>3. /\ row \in Rows
      /\ row.status = copy.status /\ row.results = copy.results
      /\ row.error = copy.error /\ row.actual = copy.actual
      /\ row.payload = copy.payload
      /\ row.status = "running" => row.owner = rows[t].owner
  BY <1>2 DEF Rows
<1>4. rows' = [rows EXCEPT ![t] = row]
  BY DEF Write
<1> HIDE DEF row
<1> QED BY <1>3, <1>4

LEMMA PointsStop ==
    ASSUME TaskInv, PointsInv, SlotsApart, NEW s \in Slots, slots[s].step # "idle", Stop(s),
           UNCHANGED <<rows, requests, billing>>
    PROVE  PointsInv'
<1> DEFINE row == rows[slots[s].task]
<1>1. row \in Rows /\ rows' = [rows EXCEPT ![slots[s].task] = row]
  BY AtWork DEF TaskInv, TypeOK
<1>2. Become(s, Idle) /\ Idle.step = "idle" /\ CopyInv(Idle)
  BY IdlePoints, IdleBounds DEF Stop
<1>3. UNCHANGED <<requests, billing>>
  OBVIOUS
<1> QED BY <1>1, <1>2, <1>3, PointsStep

LEMMA PointsMove ==
    ASSUME TaskInv, PointsInv, SlotsApart, NEW s \in Slots, slots[s].step # "idle",
           NEW slot \in Working, Become(s, slot), slot.task = slots[s].task, CopyInv(slot),
           Shown(slot, rows[slots[s].task]), slot.step # "final",
           Holds(s) => Unended(slot.step, rows[slots[s].task]),
           UNCHANGED <<rows, requests, billing>>
    PROVE  PointsInv'
<1> DEFINE row == rows[slots[s].task]
<1>1. row \in Rows /\ rows' = [rows EXCEPT ![slots[s].task] = row]
  BY AtWork DEF TaskInv, TypeOK
<1>2. UNCHANGED <<requests, billing>>
  OBVIOUS
<1>3. slot.step # "idle" => Shown(slot, row)
  OBVIOUS
<1>4. slot.step = "final" => IsSettled(slots[s].task)
  OBVIOUS
<1>5. Holds(s) /\ slot.step \notin {"idle", "load"} => Unended(slot.step, row)
  OBVIOUS
<1>6. slot \in {Idle} \cup Working /\ (slot.step # "idle" => slot.task = slots[s].task)
  OBVIOUS
<1> HIDE DEF row
<1>7. row = rows[slots[s].task]
  BY DEF row
<1> QED BY <1>1, <1>2, <1>3, <1>4, <1>5, <1>6, <1>7, PointsStep

LEMMA PointsWrite ==
    ASSUME TaskInv, PointsInv, SlotsApart, NEW s \in Slots, slots[s].step # "idle",
           NEW copy \in Rows, Holds(s), Write(s, copy), Fits(slots[s].task, copy),
           NEW slot \in {Idle} \cup Working, Become(s, slot), CopyInv(slot),
           slot.step # "idle" => slot.task = slots[s].task,
           slot.step # "idle" => Shown(slot, copy),
           slot.step # "final",
           slot.step \notin {"idle", "load"} => Unended(slot.step, copy),
           UNCHANGED <<requests, billing>>
    PROVE  PointsInv'
<1>1. PICK row \in Rows :
          /\ rows' = [rows EXCEPT ![slots[s].task] = row]
          /\ row.status = copy.status /\ row.results = copy.results
          /\ row.error = copy.error /\ row.actual = copy.actual
          /\ row.payload = copy.payload
          /\ row.status = "running" => row.owner = rows[slots[s].task].owner
  BY WrittenRow DEF TaskInv
<1>2. Fits(slots[s].task, row)
  BY <1>1 DEF Fits, Plain, Sealed
<1>3. slot.step # "idle" => Shown(slot, row)
  BY <1>1 DEF Shown, Sealed
<1>4. Holds(s) /\ slot.step \notin {"idle", "load"} => Unended(slot.step, row)
  BY <1>1 DEF Unended
<1>5. slot.step = "final" => IsSettled(slots[s].task)
  OBVIOUS
<1>6. /\ rows' = [rows EXCEPT ![slots[s].task] = row]
      /\ Holds(s) /\ Fits(slots[s].task, row)
      /\ row.status = "running" => row.owner = rows[slots[s].task].owner
  BY <1>1, <1>2
<1> QED BY <1>3, <1>4, <1>5, <1>6, PointsStep

(* What the invariant says of a slot with a copy, and of its row when the  *)
(* slot holds the lease.                                                   *)
LEMMA PointsFacts ==
    ASSUME TaskInv, PointsInv, NEW s \in Slots, slots[s].step \notin {"idle", "load"}
    PROVE  /\ slots[s] \in Working /\ slots[s].task \in Tasks /\ slots[s].copy \in Rows
           /\ slots[s].copy.status = "running"
           /\ CopyInv(slots[s])
           /\ Shown(slots[s], rows[slots[s].task])
           /\ slots[s].step = "final" => IsSettled(slots[s].task)
           /\ Plain(rows[slots[s].task])
           /\ Holds(s) => Unended(slots[s].step, rows[slots[s].task])
<1>1. slots[s] \in Working /\ slots[s].task \in Tasks /\ slots[s].copy \in Rows
      /\ slots[s].copy.status = "running"
  BY LoadedFacts
<1>2. CopyInv(slots[s]) /\ SavedInv(slots[s]) /\ HolderInv(s) /\ RowInv(slots[s].task)
  BY <1>1 DEF PointsInv
<1> QED BY <1>1, <1>2 DEF SavedInv, HolderInv, RowInv, Loaded

(* failOwnedTask has an error in hand and nothing to charge.               *)
LEMMA FailingPoints ==
    ASSUME NEW slot \in Working, slot.copy.payload = "none", ~slot.copy.results
    PROVE  /\ Failing(slot).step = "save"
           /\ CopyInv(Failing(slot))
<1>1. slot.copy \in Rows
  BY DEF Working
<1> DEFINE copy == [slot.copy EXCEPT !.error = TRUE, !.actual = 0]
<1>2. copy.error = TRUE /\ copy.actual = 0 /\ copy.payload = "none" /\ copy.results = FALSE
  BY <1>1 DEF Rows
<1>3. Failing(slot) = [slot EXCEPT !.step = "save", !.end = "failed", !.rescue = TRUE,
                                   !.copy = copy]
  BY DEF Failing, Working
<1> HIDE DEF copy
<1>4. Failing(slot).step = "save" /\ Failing(slot).copy = copy /\ Failing(slot).end = "failed"
  BY <1>3 DEF Working
<1> QED BY <1>2, <1>4 DEF CopyInv, Sealed, Ending

LEMMA PointsLoad ==
    ASSUME TaskInv, PointsInv, SlotsApart, NEW s \in Slots, Load(s)
    PROVE  PointsInv'
<1> DEFINE row == rows[slots[s].task]
           slot == [slots[s] EXCEPT !.copy = row]
<1>1. slots[s].step = "load" /\ UNCHANGED <<rows, requests, billing>>
  BY DEF Load, billing
<1>2. slots[s] \in Working /\ slots[s].task \in Tasks
  BY <1>1, AtWork DEF TaskInv
<1>3. row \in Rows /\ Plain(row)
  BY <1>2 DEF TaskInv, TypeOK, PointsInv, RowInv
<1>4. slot \in Working /\ slot.task = slots[s].task /\ slot.copy = row
  BY <1>2, <1>3 DEF Working
<1>5. \/ Stop(s)
      \/ /\ row.status = "running"
         /\ \/ row.payload # "none" /\ Become(s, [slot EXCEPT !.step = "recover"])
            \/ row.payload = "none" /\ ~row.results /\ Become(s, [slot EXCEPT !.step = "reject"])
            \/ /\ row.payload = "none" /\ Sealed(row)
               /\ \E end \in {"succeeded", "failed"} :
                     /\ end = "succeeded" <=> row.results
                     /\ Become(s, [slot EXCEPT !.step = "settle", !.end = end])
            \/ /\ row.payload = "none" /\ ~row.error /\ ~row.results
               /\ Become(s, [slot EXCEPT !.step = "mark"]) \/ Become(s, Failing(slot))
  <2>1. CASE ~Owns(s)
    BY <2>1 DEF Load
  <2>2. CASE Owns(s)
    <3>1. row.status = "running"
      BY <2>2 DEF Owns, Holds
    <3>2. row.started \in BOOLEAN /\ row.results \in BOOLEAN /\ row.error \in BOOLEAN
      BY <1>3 DEF Rows
    <3> QED BY <2>2, <3>1, <3>2 DEF Load, IsUncertain, ResumeStep, Sealed
  <2> QED BY <2>1, <2>2
<1>6. row.status = "running" /\ row.payload # "none" => ~row.results /\ ~row.error
  BY <1>3 DEF Plain, Sealed
<1> HIDE DEF row
<1>7. ASSUME NEW next \in Working, Become(s, next), next.task = slots[s].task, CopyInv(next),
             Shown(next, row), next.step # "final", Unended(next.step, row)
      PROVE  PointsInv'
  BY <1>1, <1>7, PointsMove DEF row
<1>8. CASE Stop(s)
  BY <1>1, <1>8, PointsStop
<1> HIDE DEF slot
<1>9. ASSUME row.status = "running", row.payload # "none",
             Become(s, [slot EXCEPT !.step = "recover"])
      PROVE  PointsInv'
  <2> DEFINE next == [slot EXCEPT !.step = "recover"]
  <2>1. /\ next \in Working /\ next.task = slots[s].task /\ next.copy = row
        /\ next.step = "recover"
    BY <1>4 DEF Working, SlotSteps
  <2>2. Become(s, next)
    BY <1>9
  <2> HIDE DEF next
  <2>3. CopyInv(next) /\ Shown(next, row) /\ Unended(next.step, row)
    BY <1>3, <1>6, <1>9, <2>1 DEF CopyInv, Shown, Unended, Plain, Ending
  <2> QED BY <1>7, <2>1, <2>2, <2>3
<1>10. ASSUME row.payload = "none", ~row.results, Become(s, [slot EXCEPT !.step = "reject"])
       PROVE  PointsInv'
  <2> DEFINE next == [slot EXCEPT !.step = "reject"]
  <2>1. /\ next \in Working /\ next.task = slots[s].task /\ next.copy = row
        /\ next.step = "reject"
    BY <1>4 DEF Working, SlotSteps
  <2>2. Become(s, next)
    BY <1>10
  <2> HIDE DEF next
  <2>3. CopyInv(next) /\ Shown(next, row) /\ Unended(next.step, row)
    BY <1>3, <1>10, <2>1 DEF CopyInv, Shown, Unended, Plain, Ending
  <2> QED BY <1>7, <2>1, <2>2, <2>3
<1>11. ASSUME row.status = "running", row.payload = "none", Sealed(row),
              NEW end \in {"succeeded", "failed"}, end = "succeeded" <=> row.results,
              Become(s, [slot EXCEPT !.step = "settle", !.end = end])
       PROVE  PointsInv'
  <2> DEFINE next == [slot EXCEPT !.step = "settle", !.end = end]
  <2>1. /\ next \in Working /\ next.task = slots[s].task /\ next.copy = row
        /\ next.step = "settle" /\ next.end = end
    BY <1>4 DEF Working, SlotSteps
  <2>2. Become(s, next)
    BY <1>11
  <2> HIDE DEF next
  <2>3. CopyInv(next) /\ Shown(next, row) /\ Unended(next.step, row)
    BY <1>3, <1>11, <2>1 DEF CopyInv, Shown, Unended, Plain, Ending
  <2> QED BY <1>7, <2>1, <2>2, <2>3
<1>12. ASSUME row.payload = "none", ~row.error, ~row.results,
              Become(s, [slot EXCEPT !.step = "mark"])
       PROVE  PointsInv'
  <2> DEFINE next == [slot EXCEPT !.step = "mark"]
  <2>1. /\ next \in Working /\ next.task = slots[s].task /\ next.copy = row
        /\ next.step = "mark"
    BY <1>4 DEF Working, SlotSteps
  <2>2. Become(s, next)
    BY <1>12
  <2> HIDE DEF next
  <2>3. CopyInv(next) /\ Shown(next, row) /\ Unended(next.step, row)
    BY <1>3, <1>12, <2>1 DEF CopyInv, Shown, Unended, Plain, Ending
  <2> QED BY <1>7, <2>1, <2>2, <2>3
<1>13. ASSUME row.status = "running", row.payload = "none", ~row.error, ~row.results,
              Become(s, Failing(slot))
       PROVE  PointsInv'
  <2>1. Failing(slot) \in Working /\ Failing(slot).task = slots[s].task
    BY <1>4, <1>13, FailingFacts
  <2>2. Failing(slot).step = "save" /\ CopyInv(Failing(slot))
    BY <1>4, <1>13, FailingPoints
  <2>3. Shown(Failing(slot), row) /\ Unended(Failing(slot).step, row)
    BY <1>13, <2>2 DEF Shown, Unended
  <2> QED BY <1>7, <1>13, <2>1, <2>2, <2>3
<1> QED BY <1>5, <1>8, <1>9, <1>10, <1>11, <1>12, <1>13

LEMMA PointsReject ==
    ASSUME TaskInv, PointsInv, SlotsApart, NEW s \in Slots, Reject(s)
    PROVE  PointsInv'
<1>1. slots[s].step = "reject" /\ UNCHANGED <<requests, billing>> /\ Stop(s)
  BY DEF Reject, billing
<1> DEFINE copy == [slots[s].copy EXCEPT !.status = "rejected", !.error = TRUE]
<1>2. /\ slots[s].copy \in Rows /\ CopyInv(slots[s]) /\ Plain(rows[slots[s].task])
      /\ Holds(s) => Unended("reject", rows[slots[s].task])
  BY <1>1, PointsFacts
<1>3. /\ copy \in Rows /\ copy.status = "rejected" /\ copy.error = TRUE
      /\ copy.results = slots[s].copy.results /\ copy.actual = slots[s].copy.actual
      /\ copy.payload = slots[s].copy.payload
  BY <1>2 DEF Rows, FinalStatuses
<1>4. CASE UNCHANGED rows
  <2>1. UNCHANGED <<rows, requests, billing>>
    BY <1>1, <1>4
  <2> QED BY <1>1, <2>1, PointsStop
<1>5. CASE Owns(s) /\ Write(s, copy)
  <2> HIDE DEF copy
  <2>1. Holds(s)
    BY <1>5 DEF Owns
  <2>2. ~copy.results /\ copy.actual = 0 /\ copy.payload = "none"
    BY <1>1, <1>2, <1>3 DEF CopyInv, Ending
  <2>3. ~rows[slots[s].task].results /\ rows[slots[s].task].actual = 0
    BY <1>2, <2>1 DEF Unended, Plain
  <2>4. rows[slots[s].task].results = copy.results
    BY <1>1, <1>3, <2>2, <2>3, PointsFacts DEF Rows, TaskInv, TypeOK
  <2>5. Fits(slots[s].task, copy)
    BY <1>3, <2>2, <2>3, <2>4 DEF Fits, Plain, Sealed
  <2>6. Become(s, Idle) /\ Idle.step = "idle" /\ CopyInv(Idle)
    BY <1>1, IdlePoints, IdleBounds DEF Stop
  <2> QED BY <1>1, <1>3, <1>5, <2>1, <2>5, <2>6, PointsWrite
<1> QED BY <1>4, <1>5 DEF Reject

LEMMA PointsMark ==
    ASSUME TaskInv, PointsInv, SlotsApart, NEW s \in Slots, Mark(s)
    PROVE  PointsInv'
<1>1. slots[s].step = "mark" /\ UNCHANGED <<requests, billing>>
  BY DEF Mark, billing
<1> DEFINE copy == [slots[s].copy EXCEPT !.started = TRUE]
           slot == [slots[s] EXCEPT !.step = "submit", !.copy = copy]
<1>2. /\ slots[s] \in Working /\ slots[s].copy \in Rows /\ slots[s].copy.status = "running"
      /\ CopyInv(slots[s])
      /\ Holds(s) => Unended("mark", rows[slots[s].task])
  BY <1>1, PointsFacts
<1>3. CASE UNCHANGED rows /\ Stop(s)
  <2>1. UNCHANGED <<rows, requests, billing>> /\ slots[s].step # "idle"
    BY <1>1, <1>3
  <2> QED BY <1>3, <2>1, PointsStop
<1>4. /\ copy \in Rows /\ copy.status = "running" /\ copy.error = slots[s].copy.error
      /\ copy.results = slots[s].copy.results /\ copy.actual = slots[s].copy.actual
      /\ copy.payload = slots[s].copy.payload
  BY <1>2 DEF Rows
<1>5. CASE Owns(s) /\ Write(s, copy) /\ GotoWith(s, "submit", copy)
  <2>1. Holds(s)
    BY <1>5 DEF Owns
  <2>2. Become(s, slot)
    BY <1>5 DEF GotoWith
  <2> HIDE DEF copy
  <2>3. /\ slot \in Working /\ slot.task = slots[s].task /\ slot.copy = copy
        /\ slot.step = "submit"
    BY <1>2, <1>4 DEF Working, SlotSteps
  <2> HIDE DEF slot
  <2>4. ~copy.results /\ ~copy.error /\ copy.actual = 0 /\ copy.payload = "none"
    BY <1>1, <1>2, <1>4 DEF CopyInv, Ending
  <2>5. ~Sealed(rows[slots[s].task])
    BY <1>2, <2>1 DEF Unended, Sealed
  <2>6. Fits(slots[s].task, copy)
    BY <1>4, <2>4, <2>5 DEF Fits, Plain, Sealed
  <2>7. CopyInv(slot) /\ Shown(slot, copy) /\ Unended(slot.step, copy)
    BY <2>3, <2>4 DEF CopyInv, Shown, Unended, Ending
  <2>8. slot \in {Idle} \cup Working /\ slot.step # "final" /\ slots[s].step # "idle"
    BY <1>1, <2>3
  <2> QED BY <1>1, <1>4, <1>5, <2>1, <2>2, <2>3, <2>6, <2>7, <2>8, PointsWrite
<1> QED BY <1>3, <1>5 DEF Mark

LEMMA PointsSubmit ==
    ASSUME TaskInv, PointsInv, SlotsApart, NEW s \in Slots, Submit(s)
    PROVE  PointsInv'
<1>1. slots[s].step = "submit" /\ UNCHANGED <<rows, requests, billing>> /\ Goto(s, "answer")
  BY DEF Submit, billing
<1> DEFINE slot == [slots[s] EXCEPT !.step = "answer"]
<1>2. /\ slots[s] \in Working /\ CopyInv(slots[s])
      /\ Holds(s) => Unended("submit", rows[slots[s].task])
  BY <1>1, PointsFacts
<1>3. /\ slot \in Working /\ slot.task = slots[s].task /\ slot.copy = slots[s].copy
      /\ slot.step = "answer"
  BY <1>2 DEF Working, SlotSteps
<1>4. Become(s, slot)
  BY <1>1 DEF Goto
<1> HIDE DEF slot
<1>5. CopyInv(slot) /\ Shown(slot, rows[slots[s].task])
  BY <1>1, <1>2, <1>3 DEF CopyInv, Shown, Ending
<1>6. Holds(s) => Unended(slot.step, rows[slots[s].task])
  BY <1>2, <1>3 DEF Unended
<1> QED BY <1>1, <1>3, <1>4, <1>5, <1>6, PointsMove

LEMMA PointsAnswer ==
    ASSUME TaskInv, PointsInv, SlotsApart, NEW s \in Slots, Answer(s)
    PROVE  PointsInv'
<1>1. slots[s].step = "answer" /\ UNCHANGED <<rows, requests, billing>>
  BY DEF Answer, billing
<1>2. /\ slots[s] \in Working /\ slots[s].copy \in Rows /\ CopyInv(slots[s])
      /\ Holds(s) => Unended("answer", rows[slots[s].task])
  BY <1>1, PointsFacts
<1>3. /\ ~slots[s].copy.results /\ ~slots[s].copy.error /\ slots[s].copy.actual = 0
      /\ slots[s].copy.payload = "none"
  BY <1>1, <1>2 DEF CopyInv, Ending
<1>4. ASSUME NEW step \in {"checkpoint", "reject"}, Goto(s, step)
      PROVE  PointsInv'
  <2> DEFINE slot == [slots[s] EXCEPT !.step = step]
  <2>1. /\ slot \in Working /\ slot.task = slots[s].task /\ slot.copy = slots[s].copy
        /\ slot.step = step
    BY <1>2 DEF Working, SlotSteps
  <2>2. Become(s, slot)
    BY <1>4 DEF Goto
  <2> HIDE DEF slot
  <2>3. CopyInv(slot) /\ Shown(slot, rows[slots[s].task])
    BY <1>3, <2>1 DEF CopyInv, Shown, Ending
  <2>4. Holds(s) => Unended(slot.step, rows[slots[s].task])
    BY <1>2, <2>1 DEF Unended
  <2> QED BY <1>1, <2>1, <2>2, <2>3, <2>4, PointsMove
<1>5. CASE Become(s, [slots[s] EXCEPT !.step = "clear", !.copy.started = FALSE, !.tried = @ + 1])
  <2> DEFINE slot == [slots[s] EXCEPT !.step = "clear", !.copy.started = FALSE, !.tried = @ + 1]
             copy == [slots[s].copy EXCEPT !.started = FALSE]
  <2>1. /\ copy \in Rows /\ ~copy.results /\ ~copy.error /\ copy.actual = 0
        /\ copy.payload = "none"
    BY <1>2, <1>3 DEF Rows
  <2>2. slots[s].tried + 1 \in 0 .. Candidates
    <3>1. slots[s].tried < Candidates /\ slots[s].tried \in 0 .. Candidates
      BY <1>1, <1>2, LoadedFacts DEF Working
    <3> QED BY <3>1, Parameters
  <2>3. slot = [slots[s] EXCEPT !.step = "clear", !.copy = copy, !.tried = slots[s].tried + 1]
    BY <1>2 DEF Working
  <2> HIDE DEF copy
  <2>4. /\ slot \in Working /\ slot.task = slots[s].task /\ slot.copy = copy
        /\ slot.step = "clear"
    BY <1>2, <2>1, <2>2, <2>3 DEF Working, SlotSteps
  <2>5. Become(s, slot)
    BY <1>5
  <2> HIDE DEF slot
  <2>6. CopyInv(slot) /\ Shown(slot, rows[slots[s].task])
    BY <2>1, <2>4 DEF CopyInv, Shown, Ending
  <2>7. Holds(s) => Unended(slot.step, rows[slots[s].task])
    BY <1>2, <2>4 DEF Unended
  <2> QED BY <1>1, <2>4, <2>5, <2>6, <2>7, PointsMove
<1> QED BY <1>4, <1>5 DEF Answer

LEMMA PointsClear ==
    ASSUME TaskInv, PointsInv, SlotsApart, NEW s \in Slots, Clear(s)
    PROVE  PointsInv'
<1> DEFINE copy == slots[s].copy
           mark == [slots[s] EXCEPT !.step = "mark"]
           failing == Failing(slots[s])
<1>1. slots[s].step = "clear" /\ UNCHANGED <<requests, billing>>
  BY DEF Clear, billing
<1>2. /\ slots[s] \in Working /\ copy \in Rows /\ copy.status = "running"
      /\ CopyInv(slots[s]) /\ copy.tries < Attempts
      /\ Holds(s) => Unended("clear", rows[slots[s].task])
  BY <1>1, PointsFacts, LoadedFacts
<1>3. ~copy.results /\ ~copy.error /\ copy.actual = 0 /\ copy.payload = "none"
  BY <1>1, <1>2 DEF CopyInv, Ending
<1>4. /\ mark \in Working /\ mark.task = slots[s].task /\ mark.copy = copy
      /\ mark.step = "mark"
  BY <1>2 DEF Working, SlotSteps
<1>5. /\ failing \in Working /\ failing.task = slots[s].task /\ failing.step = "save"
      /\ CopyInv(failing)
  BY <1>2, <1>3, FailingFacts, FailingPoints
<1>6. Holds(s) => Fits(slots[s].task, copy)
  BY <1>2, <1>3 DEF Fits, Plain, Sealed, Unended
<1>7. CASE Stop(s) /\ UNCHANGED rows
  <2>1. UNCHANGED <<rows, requests, billing>> /\ slots[s].step # "idle"
    BY <1>1, <1>7
  <2> QED BY <1>7, <2>1, PointsStop
<1> HIDE DEF failing
<1>8. CASE Become(s, failing) /\ UNCHANGED rows
  <2>1. UNCHANGED <<rows, requests, billing>> /\ slots[s].step # "idle"
    BY <1>1, <1>8
  <2>2. Shown(failing, rows[slots[s].task]) /\ failing.step # "final"
    BY <1>5 DEF Shown
  <2>3. Holds(s) => Unended(failing.step, rows[slots[s].task])
    BY <1>2, <1>5 DEF Unended
  <2> QED BY <1>5, <1>8, <2>1, <2>2, <2>3, PointsMove
<1> HIDE DEF mark, copy
<1>9. ASSUME Holds(s), Write(s, copy), NEW slot \in {mark, failing}, Become(s, slot)
      PROVE  PointsInv'
  <2>1. CopyInv(slot) /\ Shown(slot, copy) /\ Unended(slot.step, copy)
    BY <1>3, <1>4, <1>5 DEF CopyInv, Shown, Unended, Ending
  <2>2. /\ slot \in {Idle} \cup Working /\ slot.task = slots[s].task /\ slot.step # "final"
        /\ slots[s].step # "idle"
    BY <1>1, <1>4, <1>5
  <2> QED BY <1>1, <1>2, <1>6, <1>9, <2>1, <2>2, PointsWrite
<1> QED BY <1>7, <1>8, <1>9 DEF Clear, Owns, Goto, mark, failing, copy

LEMMA PointsCheckpoint ==
    ASSUME TaskInv, PointsInv, SlotsApart, NEW s \in Slots, Checkpoint(s)
    PROVE  PointsInv'
<1> DEFINE copy == [slots[s].copy EXCEPT !.payload = "kept"]
           slot == [slots[s] EXCEPT !.step = "pin", !.copy = copy, !.rescue = TRUE]
<1>1. slots[s].step = "checkpoint" /\ UNCHANGED <<requests, billing>>
  BY DEF Checkpoint, billing
<1>2. /\ slots[s] \in Working /\ slots[s].copy \in Rows /\ slots[s].copy.status = "running"
      /\ CopyInv(slots[s])
      /\ Holds(s) => Unended("checkpoint", rows[slots[s].task])
  BY <1>1, PointsFacts
<1>3. ~slots[s].copy.results /\ ~slots[s].copy.error /\ slots[s].copy.actual = 0
  BY <1>1, <1>2 DEF CopyInv, Ending
<1>4. /\ copy \in Rows /\ copy.status = "running" /\ ~copy.results /\ ~copy.error
      /\ copy.actual = 0 /\ copy.payload = "kept"
  BY <1>2, <1>3 DEF Rows
<1>5. CASE UNCHANGED rows /\ Stop(s)
  <2>1. UNCHANGED <<rows, requests, billing>> /\ slots[s].step # "idle"
    BY <1>1, <1>5
  <2> QED BY <1>5, <2>1, PointsStop
<1>6. CASE Holds(s) /\ Write(s, copy) /\ Become(s, slot)
  <2> HIDE DEF copy
  <2>1. /\ slot \in Working /\ slot.task = slots[s].task /\ slot.copy = copy
        /\ slot.step = "pin"
    BY <1>2, <1>4 DEF Working, SlotSteps
  <2> HIDE DEF slot
  <2>2. Fits(slots[s].task, copy)
    BY <1>2, <1>4, <1>6 DEF Fits, Plain, Sealed, Unended
  <2>3. CopyInv(slot) /\ Shown(slot, copy) /\ Unended(slot.step, copy)
    BY <1>4, <2>1 DEF CopyInv, Shown, Unended, Ending
  <2>4. slot \in {Idle} \cup Working /\ slot.step # "final" /\ slots[s].step # "idle"
    BY <1>1, <2>1
  <2> QED BY <1>1, <1>4, <1>6, <2>1, <2>2, <2>3, <2>4, PointsWrite
<1> QED BY <1>5, <1>6 DEF Checkpoint

LEMMA PointsRecover ==
    ASSUME TaskInv, PointsInv, SlotsApart, NEW s \in Slots, Recover(s)
    PROVE  PointsInv'
<1> DEFINE slot == [slots[s] EXCEPT !.step = "pin"]
<1>1. slots[s].step = "recover" /\ UNCHANGED <<rows, requests, billing>>
  BY DEF Recover, billing
<1>2. /\ slots[s] \in Working /\ CopyInv(slots[s])
      /\ Holds(s) => Unended("recover", rows[slots[s].task])
  BY <1>1, PointsFacts
<1>3. CASE Stop(s)
  BY <1>1, <1>3, PointsStop
<1>4. CASE Goto(s, "pin")
  <2>1. /\ slot \in Working /\ slot.task = slots[s].task /\ slot.copy = slots[s].copy
        /\ slot.step = "pin"
    BY <1>2 DEF Working, SlotSteps
  <2>2. Become(s, slot)
    BY <1>4 DEF Goto
  <2> HIDE DEF slot
  <2>3. CopyInv(slot) /\ Shown(slot, rows[slots[s].task])
    BY <1>1, <1>2, <2>1 DEF CopyInv, Shown, Ending
  <2>4. Holds(s) => Unended(slot.step, rows[slots[s].task])
    BY <1>2, <2>1 DEF Unended
  <2> QED BY <1>1, <2>1, <2>2, <2>3, <2>4, PointsMove
<1> QED BY <1>3, <1>4 DEF Recover

LEMMA PointsArtifactFailure ==
    ASSUME TaskInv, PointsInv, SlotsApart, NEW s \in Slots, slots[s].step \in {"pin", "persist"},
           ArtifactFailure(s), UNCHANGED <<rows, requests, billing>>
    PROVE  PointsInv'
<1> DEFINE copy == [slots[s].copy EXCEPT !.tries = @ + 1]
<1>1. /\ slots[s] \in Working /\ slots[s].copy \in Rows /\ slots[s].copy.status = "running"
      /\ slots[s].copy.tries < Attempts /\ CopyInv(slots[s])
      /\ Holds(s) => Unended(slots[s].step, rows[slots[s].task])
  BY PointsFacts, LoadedFacts
<1>2. /\ ~slots[s].copy.results /\ ~slots[s].copy.error /\ slots[s].copy.actual = 0
      /\ slots[s].copy.payload # "none"
  BY <1>1 DEF CopyInv, Ending
<1>3. slots[s].copy.tries + 1 \in 0 .. Attempts
  BY <1>1, Parameters DEF Rows
<1>4. /\ copy \in Rows /\ copy.status = "running" /\ ~copy.results /\ ~copy.error
      /\ copy.actual = 0 /\ copy.payload # "none"
  BY <1>1, <1>2, <1>3 DEF Rows
<1> HIDE DEF copy
<1>5. CASE GotoWith(s, "requeue", copy)
  <2> DEFINE slot == [slots[s] EXCEPT !.step = "requeue", !.copy = copy]
  <2>1. /\ slot \in Working /\ slot.task = slots[s].task /\ slot.copy = copy
        /\ slot.step = "requeue"
    BY <1>1, <1>4 DEF Working, SlotSteps
  <2>2. Become(s, slot)
    BY <1>5 DEF GotoWith
  <2> HIDE DEF slot
  <2>3. CopyInv(slot) /\ Shown(slot, rows[slots[s].task])
    BY <1>4, <2>1 DEF CopyInv, Shown, Ending
  <2>4. Holds(s) => Unended(slot.step, rows[slots[s].task])
    BY <1>1, <2>1 DEF Unended
  <2> QED BY <2>1, <2>2, <2>3, <2>4, PointsMove
<1>6. CASE Become(s, Failing([slots[s] EXCEPT !.copy = [copy EXCEPT !.payload = "none"]]))
  <2> DEFINE slot == [slots[s] EXCEPT !.copy = [copy EXCEPT !.payload = "none"]]
  <2>1. /\ slot \in Working /\ slot.task = slots[s].task /\ slot.copy.status = "running"
        /\ slot.copy.payload = "none" /\ ~slot.copy.results
    BY <1>1, <1>4 DEF Working, Rows
  <2>2. Become(s, Failing(slot))
    BY <1>6
  <2> HIDE DEF slot
  <2>3. /\ Failing(slot) \in Working /\ Failing(slot).task = slots[s].task
        /\ Failing(slot).step = "save" /\ CopyInv(Failing(slot))
    BY <2>1, FailingFacts, FailingPoints
  <2>4. Shown(Failing(slot), rows[slots[s].task])
    BY <2>3 DEF Shown
  <2>5. Holds(s) => Unended(Failing(slot).step, rows[slots[s].task])
    BY <1>1, <2>3 DEF Unended
  <2> QED BY <2>2, <2>3, <2>4, <2>5, PointsMove
<1> QED BY <1>5, <1>6 DEF ArtifactFailure, copy

LEMMA PointsPin ==
    ASSUME TaskInv, PointsInv, SlotsApart, NEW s \in Slots, Pin(s)
    PROVE  PointsInv'
<1> DEFINE copy == [slots[s].copy EXCEPT !.payload = "pinned"]
           slot == [slots[s] EXCEPT !.step = "persist", !.copy = copy]
           next == [slots[s] EXCEPT !.step = "persist"]
<1>1. slots[s].step = "pin" /\ UNCHANGED <<requests, billing>>
  BY DEF Pin, billing
<1>2. /\ slots[s] \in Working /\ slots[s].copy \in Rows /\ slots[s].copy.status = "running"
      /\ CopyInv(slots[s])
      /\ Holds(s) => Unended("pin", rows[slots[s].task])
  BY <1>1, PointsFacts
<1>3. /\ ~slots[s].copy.results /\ ~slots[s].copy.error /\ slots[s].copy.actual = 0
      /\ slots[s].copy.payload # "none"
  BY <1>1, <1>2 DEF CopyInv, Ending
<1>4. ASSUME UNCHANGED rows PROVE UNCHANGED <<rows, requests, billing>> /\ slots[s].step # "idle"
  BY <1>1, <1>4
<1>5. CASE Goto(s, "persist") /\ UNCHANGED rows
  <2>1. /\ next \in Working /\ next.task = slots[s].task /\ next.copy = slots[s].copy
        /\ next.step = "persist"
    BY <1>2 DEF Working, SlotSteps
  <2>2. Become(s, next)
    BY <1>5 DEF Goto
  <2> HIDE DEF next
  <2>3. CopyInv(next) /\ Shown(next, rows[slots[s].task])
    BY <1>3, <2>1 DEF CopyInv, Shown, Ending
  <2>4. Holds(s) => Unended(next.step, rows[slots[s].task])
    BY <1>2, <2>1 DEF Unended
  <2> QED BY <1>4, <1>5, <2>1, <2>2, <2>3, <2>4, PointsMove
<1>6. CASE UNCHANGED rows /\ Stop(s)
  BY <1>4, <1>6, PointsStop
<1>7. CASE ArtifactFailure(s) /\ UNCHANGED rows
  BY <1>1, <1>4, <1>7, PointsArtifactFailure
<1>8. CASE Holds(s) /\ Write(s, copy) /\ GotoWith(s, "persist", copy)
  <2>1. /\ copy \in Rows /\ copy.status = "running" /\ ~copy.results /\ ~copy.error
        /\ copy.actual = 0 /\ copy.payload = "pinned"
    BY <1>2, <1>3 DEF Rows
  <2>2. Become(s, slot)
    BY <1>8 DEF GotoWith
  <2> HIDE DEF copy
  <2>3. /\ slot \in Working /\ slot.task = slots[s].task /\ slot.copy = copy
        /\ slot.step = "persist"
    BY <1>2, <2>1 DEF Working, SlotSteps
  <2> HIDE DEF slot
  <2>4. Fits(slots[s].task, copy)
    BY <1>2, <1>8, <2>1 DEF Fits, Plain, Sealed, Unended
  <2>5. CopyInv(slot) /\ Shown(slot, copy) /\ Unended(slot.step, copy)
    BY <2>1, <2>3 DEF CopyInv, Shown, Unended, Ending
  <2>6. slot \in {Idle} \cup Working /\ slot.step # "final" /\ slots[s].step # "idle"
    BY <1>1, <2>3
  <2> QED BY <1>1, <1>8, <2>1, <2>2, <2>3, <2>4, <2>5, <2>6, PointsWrite
<1> QED BY <1>5, <1>6, <1>7, <1>8 DEF Pin

LEMMA PointsPersist ==
    ASSUME TaskInv, PointsInv, SlotsApart, NEW s \in Slots, Persist(s)
    PROVE  PointsInv'
<1> DEFINE copy == [slots[s].copy EXCEPT !.results = TRUE, !.payload = "none"]
<1>1. slots[s].step = "persist" /\ UNCHANGED <<rows, requests, billing>>
  BY DEF Persist, billing
<1>2. /\ slots[s] \in Working /\ slots[s].copy \in Rows
      /\ Holds(s) => Unended("persist", rows[slots[s].task])
  BY <1>1, PointsFacts
<1>3. copy \in Rows /\ copy.results = TRUE /\ copy.payload = "none"
  BY <1>2 DEF Rows
<1> HIDE DEF copy
<1>4. ASSUME NEW saved \in Rows, saved.results = TRUE, saved.payload = "none",
             NEW rescue \in BOOLEAN,
             Become(s, [slots[s] EXCEPT !.step = "save", !.copy = saved,
                                        !.end = "succeeded", !.rescue = rescue])
      PROVE  PointsInv'
  <2> DEFINE slot == [slots[s] EXCEPT !.step = "save", !.copy = saved,
                                      !.end = "succeeded", !.rescue = rescue]
  <2>1. /\ slot \in Working /\ slot.task = slots[s].task /\ slot.copy = saved
        /\ slot.step = "save" /\ slot.end = "succeeded"
    BY <1>2, <1>4 DEF Working, SlotSteps
  <2>2. Become(s, slot)
    BY <1>4
  <2> HIDE DEF slot
  <2>3. CopyInv(slot) /\ Shown(slot, rows[slots[s].task])
    BY <1>4, <2>1 DEF CopyInv, Shown, Sealed, Ending
  <2>4. Holds(s) => Unended(slot.step, rows[slots[s].task])
    BY <1>2, <2>1 DEF Unended
  <2> QED BY <1>1, <2>1, <2>2, <2>3, <2>4, PointsMove
<1>5. ASSUME NEW points \in Charges,
             Become(s, [slots[s] EXCEPT !.step = "save", !.copy = [copy EXCEPT !.actual = points],
                                        !.end = "succeeded", !.rescue = slots[s].rescue])
      PROVE  PointsInv'
  <2>1. points \in 0 .. Estimate /\ slots[s].rescue \in BOOLEAN
    BY <1>2, Parameters DEF Working
  <2> DEFINE saved == [copy EXCEPT !.actual = points]
  <2>2. saved \in Rows /\ saved.results = TRUE /\ saved.payload = "none"
    BY <1>3, <2>1 DEF Rows
  <2>3. Become(s, [slots[s] EXCEPT !.step = "save", !.copy = saved,
                                   !.end = "succeeded", !.rescue = slots[s].rescue])
    BY <1>5
  <2> HIDE DEF saved
  <2> QED BY <1>4, <2>1, <2>2, <2>3
<1>6. CASE Become(s, [slots[s] EXCEPT !.step = "save",
                          !.copy = [copy EXCEPT !.actual = Estimate, !.error = TRUE],
                          !.end = "succeeded", !.rescue = FALSE])
  <2>1. Estimate \in 0 .. Estimate
    BY Parameters
  <2> DEFINE saved == [copy EXCEPT !.actual = Estimate, !.error = TRUE]
  <2>2. saved \in Rows /\ saved.results = TRUE /\ saved.payload = "none"
    BY <1>3, <2>1 DEF Rows
  <2>3. Become(s, [slots[s] EXCEPT !.step = "save", !.copy = saved,
                                   !.end = "succeeded", !.rescue = FALSE])
    BY <1>6
  <2> HIDE DEF saved
  <2> QED BY <1>4, <2>2, <2>3
<1>7. CASE ArtifactFailure(s)
  BY <1>1, <1>7, PointsArtifactFailure
<1> QED BY <1>5, <1>6, <1>7 DEF Persist, PersistedStep, copy

LEMMA PointsRequeue ==
    ASSUME TaskInv, PointsInv, SlotsApart, NEW s \in Slots, Requeue(s)
    PROVE  PointsInv'
<1> DEFINE copy == [slots[s].copy EXCEPT !.status = "queued", !.error = FALSE]
<1>1. slots[s].step = "requeue" /\ UNCHANGED <<requests, billing>> /\ Stop(s)
  BY DEF Requeue, billing
<1>2. /\ slots[s].copy \in Rows /\ CopyInv(slots[s])
      /\ Holds(s) => Unended("requeue", rows[slots[s].task])
  BY <1>1, PointsFacts
<1>3. /\ copy \in Rows /\ copy.status = "queued" /\ copy.error = FALSE
      /\ ~copy.results /\ copy.actual = 0
  BY <1>1, <1>2 DEF Rows, CopyInv, Ending
<1>4. CASE UNCHANGED rows
  <2>1. UNCHANGED <<rows, requests, billing>> /\ slots[s].step # "idle"
    BY <1>1, <1>4
  <2> QED BY <1>1, <2>1, PointsStop
<1>5. CASE Owns(s) /\ Write(s, copy)
  <2> HIDE DEF copy
  <2>1. Holds(s) /\ slots[s].step # "idle"
    BY <1>1, <1>5 DEF Owns
  <2>2. Fits(slots[s].task, copy)
    BY <1>2, <1>3, <2>1 DEF Fits, Plain, Sealed, Unended
  <2>3. Become(s, Idle) /\ Idle.step = "idle" /\ CopyInv(Idle)
    BY <1>1, IdlePoints, IdleBounds DEF Stop
  <2> QED BY <1>1, <1>3, <1>5, <2>1, <2>2, <2>3, PointsWrite
<1> QED BY <1>4, <1>5 DEF Requeue, Requeued

LEMMA PointsSave ==
    ASSUME TaskInv, PointsInv, SlotsApart, NEW s \in Slots, Save(s)
    PROVE  PointsInv'
<1> DEFINE copy == slots[s].copy
           slot == [slots[s] EXCEPT !.step = "settle", !.rescue = ~Owns(s)]
<1>1. slots[s].step = "save" /\ UNCHANGED <<requests, billing>>
  BY DEF Save, billing
<1>2. /\ slots[s] \in Working /\ copy \in Rows /\ copy.status = "running" /\ CopyInv(slots[s])
      /\ Holds(s) => Unended("save", rows[slots[s].task])
  BY <1>1, PointsFacts
<1>3. CASE UNCHANGED rows /\ Stop(s)
  <2>1. UNCHANGED <<rows, requests, billing>> /\ slots[s].step # "idle"
    BY <1>1, <1>3
  <2> QED BY <1>3, <2>1, PointsStop
<1>4. CASE Holds(s) /\ Write(s, copy) /\ Become(s, slot)
  <2>1. /\ slot \in Working /\ slot.task = slots[s].task /\ slot.copy = copy
        /\ slot.step = "settle" /\ slot.end = slots[s].end
    BY <1>2 DEF Working, SlotSteps
  <2> HIDE DEF slot, copy
  <2>2. /\ ~copy.results => copy.actual = 0
        /\ copy.payload = "none" /\ Sealed(copy) /\ (slots[s].end = "succeeded" <=> copy.results)
    BY <1>1, <1>2 DEF CopyInv, Ending, copy
  <2>3. Fits(slots[s].task, copy)
    BY <1>2, <1>4, <2>2 DEF Fits, Plain, Sealed, Unended
  <2>4. CopyInv(slot) /\ Shown(slot, copy) /\ Unended(slot.step, copy)
    BY <1>2, <2>1, <2>2 DEF CopyInv, Shown, Unended, Ending
  <2>5. slot \in {Idle} \cup Working /\ slot.step # "final" /\ slots[s].step # "idle"
    BY <1>1, <2>1
  <2> QED BY <1>1, <1>2, <1>4, <2>1, <2>3, <2>4, <2>5, PointsWrite
<1> QED BY <1>3, <1>4 DEF Save, Owns

LEMMA PointsFinal ==
    ASSUME TaskInv, PointsInv, SlotsApart, NEW s \in Slots, Final(s)
    PROVE  PointsInv'
<1> DEFINE copy == [slots[s].copy EXCEPT !.status = slots[s].end]
<1>1. slots[s].step = "final" /\ UNCHANGED <<requests, billing>> /\ Stop(s)
  BY DEF Final, billing
<1>2. /\ slots[s] \in Working /\ slots[s].copy \in Rows /\ CopyInv(slots[s])
      /\ Shown(slots[s], rows[slots[s].task]) /\ IsSettled(slots[s].task)
  BY <1>1, PointsFacts
<1>3. slots[s].end \in {"succeeded", "failed"}
  BY <1>2 DEF Working
<1>4. /\ copy \in Rows /\ copy.status = slots[s].end /\ copy.results = slots[s].copy.results
      /\ copy.actual = slots[s].copy.actual /\ copy.error = slots[s].copy.error
      /\ copy.payload = slots[s].copy.payload
  BY <1>2, <1>3 DEF Rows, FinalStatuses
<1>5. CASE UNCHANGED rows
  <2>1. UNCHANGED <<rows, requests, billing>> /\ slots[s].step # "idle"
    BY <1>1, <1>5
  <2> QED BY <1>1, <2>1, PointsStop
<1>6. CASE Holds(s) /\ Write(s, copy)
  <2> HIDE DEF copy
  <2>1. /\ ~copy.results => copy.actual = 0
        /\ copy.payload = "none" /\ Sealed(copy) /\ (copy.status = "succeeded" <=> copy.results)
    BY <1>1, <1>2, <1>4 DEF CopyInv, Ending, Sealed
  <2>2. /\ rows[slots[s].task].results = copy.results
        /\ rows[slots[s].task].actual = copy.actual
    BY <1>1, <1>2, <1>4 DEF Shown
  <2>3. Fits(slots[s].task, copy)
    BY <1>2, <1>3, <1>4, <2>1, <2>2 DEF Fits, Plain
  <2>4. Become(s, Idle) /\ Idle.step = "idle" /\ CopyInv(Idle) /\ slots[s].step # "idle"
    BY <1>1, IdlePoints, IdleBounds DEF Stop
  <2> QED BY <1>1, <1>4, <1>6, <2>3, <2>4, PointsWrite
<1> QED BY <1>5, <1>6 DEF Final, Owns

LEMMA PointsDie ==
    ASSUME TaskInv, PointsInv, SlotsApart, NEW s \in Slots, Die(s)
    PROVE  PointsInv'
<1>1. slots[s].step # "idle"
  BY DEF Die, TaskInv, TypeOK, Idle, Working, SlotSteps
<1>2. Stop(s) /\ UNCHANGED <<rows, requests, billing>>
  BY DEF Die, billing
<1> QED BY <1>1, <1>2, PointsStop

-----------------------------------------------------------------------------
(* Points: the settlement *)

(* FinalizeTask ends a reservation, or finds that it was ended: what it    *)
(* charges then is the points, or what was charged before.                 *)
LEMMA FinalizeFacts ==
    ASSUME TypeOK, NEW t \in Tasks, NEW points \in 0 .. Estimate, FinalizeTask(t, points),
           IsSettled(t) => held[t] = Wallet!Nothing
    PROVE  /\ held' \in [Tasks -> {Wallet!Nothing, Estimate}]
           /\ charged' \in [Tasks -> Nat] /\ returned' \in [Tasks -> Nat]
           /\ held'[t] = Wallet!Nothing
           /\ charged'[t] + returned'[t] > 0
           /\ charged'[t] = IF IsSettled(t) THEN charged[t] ELSE points
           /\ IsSettled(t) \/ held[t] # Wallet!Nothing
           /\ \A u \in Tasks : u # t => /\ held'[u] = held[u] /\ charged'[u] = charged[u]
                                        /\ returned'[u] = returned[u]
<1>1. /\ held' \in [Tasks -> {Wallet!Nothing, Estimate}]
      /\ charged' \in [Tasks -> Nat] /\ returned' \in [Tasks -> Nat]
  BY FinalizeType
<1>2. charged[t] \in Nat /\ returned[t] \in Nat /\ held[t] \in {Wallet!Nothing, Estimate}
  BY DEF TypeOK
<1>3. CASE held[t] = Wallet!Nothing /\ charged[t] + returned[t] > 0 /\ UNCHANGED billing
  BY <1>1, <1>3 DEF billing, IsSettled
<1>4. CASE Wallet!Settle(t, points)
  <2>1. /\ held[t] = Estimate /\ held[t] # Wallet!Nothing
        /\ held' = [held EXCEPT ![t] = Wallet!Nothing]
        /\ charged' = [charged EXCEPT ![t] = @ + points]
        /\ returned' = [returned EXCEPT ![t] = @ + (held[t] - points)]
    BY <1>2, <1>4 DEF Wallet!Settle
  <2>2. ~IsSettled(t)
    BY <2>1
  <2>3. charged[t] = 0 /\ returned[t] = 0
    BY <1>2, <2>2 DEF IsSettled
  <2>4. /\ held'[t] = Wallet!Nothing
        /\ charged'[t] = charged[t] + points /\ returned'[t] = returned[t] + (Estimate - points)
    BY <2>1 DEF TypeOK
  <2>5. charged'[t] = points /\ charged'[t] + returned'[t] > 0
    BY <2>3, <2>4, Parameters
  <2>6. \A u \in Tasks : u # t => /\ held'[u] = held[u] /\ charged'[u] = charged[u]
                                  /\ returned'[u] = returned[u]
    BY <2>1 DEF TypeOK
  <2> QED BY <1>1, <2>1, <2>2, <2>4, <2>5, <2>6
<1> QED BY <1>3, <1>4 DEF FinalizeTask

LEMMA PointsSettle ==
    ASSUME TaskInv, PointsInv, SlotsApart, NEW s \in Slots, Settle(s)
    PROVE  PointsInv'
<1> DEFINE t == slots[s].task
           slot == [slots[s] EXCEPT !.step = "final"]
<1>1. /\ slots[s].step = "settle" /\ rows' = rows /\ requests' = requests /\ Become(s, slot)
      /\ FinalizeTask(t, slots[s].copy.actual)
  BY DEF Settle, Goto
<1>2. /\ slots[s] \in Working /\ t \in Tasks /\ slots[s].copy \in Rows
      /\ CopyInv(slots[s]) /\ Shown(slots[s], rows[t])
  BY <1>1, PointsFacts
<1>3. /\ slot \in Working /\ slot.task = t /\ slot.copy = slots[s].copy
      /\ slot.step = "final" /\ slot.end = slots[s].end
  BY <1>2 DEF Working, SlotSteps
<1> HIDE DEF slot
<1>4. slots'[s] = slot /\ \A q \in Slots : q # s => slots'[q] = slots[q]
  BY <1>1, <1>3, BecomeFacts DEF TaskInv
<1>5. slots[s].copy.actual \in 0 .. Estimate
  BY <1>2 DEF Rows
<1>6. rows[t].status # "none" /\ Sealed(rows[t]) /\ rows[t].actual = slots[s].copy.actual
  BY <1>1, <1>2 DEF Shown
<1>7. RowInv(t) /\ (IsSettled(t) => held[t] = Wallet!Nothing /\ charged[t] = rows[t].actual)
  BY <1>2 DEF PointsInv, RowInv
<1>8. /\ held'[t] = Wallet!Nothing /\ charged'[t] + returned'[t] > 0
      /\ charged'[t] = IF IsSettled(t) THEN charged[t] ELSE slots[s].copy.actual
      /\ IsSettled(t) \/ held[t] # Wallet!Nothing
      /\ \A u \in Tasks : u # t => /\ held'[u] = held[u] /\ charged'[u] = charged[u]
                                   /\ returned'[u] = returned[u]
  BY <1>1, <1>2, <1>5, <1>7, FinalizeFacts DEF TaskInv
<1>9. \A u \in Tasks : u # t => (IsSettled(u)' <=> IsSettled(u))
  BY <1>8 DEF IsSettled
<1>10. \A q \in Slots : CopyInv(slots[q])'
  <2>1. CopyInv(slot)
    BY <1>1, <1>2, <1>3 DEF CopyInv, Ending
  <2>2. \A q \in Slots : CopyInv(slots'[q])
    BY <1>4, <2>1 DEF PointsInv
  <2> QED BY <2>2 DEF CopyInv, Sealed
<1>11. \A q \in Slots : SavedInv(slots[q])'
  <2> SUFFICES ASSUME NEW q \in Slots, slots'[q].step # "idle"
               PROVE  /\ Shown(slots'[q], rows'[slots'[q].task])
                      /\ slots'[q].step = "final" => IsSettled(slots[q].task)'
    BY DEF SavedInv, Shown, Sealed
  <2>1. CASE q = s
    <3>1. Shown(slot, rows[t])
      BY <1>1, <1>2, <1>3 DEF Shown
    <3>2. IsSettled(slots[q].task)'
      BY <1>3, <1>4, <1>8, <2>1 DEF IsSettled
    <3> QED BY <1>1, <1>3, <1>4, <2>1, <3>1, <3>2
  <2>2. CASE q # s
    <3>1. slots'[q] = slots[q] /\ slots[q].task \in Tasks /\ SavedInv(slots[q])
      BY <1>4, <2>2, AtWork DEF TaskInv, PointsInv
    <3>2. Shown(slots[q], rows[slots[q].task])
      BY <3>1 DEF SavedInv
    <3>3. slots'[q].step = "final" => IsSettled(slots[q].task)'
      BY <1>8, <3>1 DEF SavedInv, IsSettled
    <3> QED BY <1>1, <3>1, <3>2, <3>3
  <2> QED BY <2>1, <2>2
<1>12. \A q \in Slots : HolderInv(q)'
  <2> SUFFICES ASSUME NEW q \in Slots, Loaded(q)', Holds(q)'
               PROVE  Unended(slots'[q].step, rows'[slots'[q].task])
    BY DEF HolderInv, Unended
  <2>1. CASE q = s
    BY <1>3, <1>4, <2>1 DEF Unended
  <2>2. CASE q # s
    <3>1. slots'[q] = slots[q] /\ Loaded(q) /\ Holds(q)
      BY <1>1, <1>4, <2>2 DEF Loaded, Holds
    <3> QED BY <1>1, <3>1 DEF PointsInv, HolderInv
  <2> QED BY <2>1, <2>2
<1>13. \A u \in Tasks : RowInv(u)'
  <2> SUFFICES ASSUME NEW u \in Tasks
               PROVE  /\ Plain(rows[u])
                      /\ IsSettled(u)' =>
                             /\ held'[u] = Wallet!Nothing /\ charged'[u] = rows[u].actual
                             /\ rows[u].status = "none" \/ Sealed(rows[u])
    BY <1>1 DEF RowInv, Plain, Sealed
  <2>1. CASE u = t
    BY <1>6, <1>7, <1>8, <2>1 DEF RowInv
  <2>2. CASE u # t
    BY <1>8, <1>9, <2>2 DEF PointsInv, RowInv
  <2> QED BY <2>1, <2>2
<1>14. \A r \in Requests : RequestInv(r)'
  <2> SUFFICES ASSUME NEW r \in Requests PROVE RequestInv(r)'
    OBVIOUS
  <2>1. TaskOf[r] \in Tasks /\ RequestInv(r)
    BY ImageTaskAssumption DEF PointsInv
  <2>2. TaskOf[r] = t => requests[r].step \notin {"reserve", "save", "insert"}
    BY <1>6 DEF TaskInv, RequestedIsNew
  <2>3. TaskOf[r] # t => held'[TaskOf[r]] = held[TaskOf[r]] /\ (IsSettled(TaskOf[r])' <=> IsSettled(TaskOf[r]))
    BY <1>8, <2>1 DEF IsSettled
  <2> QED BY <1>1, <2>1, <2>2, <2>3 DEF RequestInv
<1>16. \A u \in Tasks : FreshInv(u)'
  <2> SUFFICES ASSUME NEW u \in Tasks PROVE FreshInv(u)'
    OBVIOUS
  <2>1. FreshInv(u) /\ (u = t => ~IsNew(u))
    BY <1>6 DEF PointsInv, IsNew
  <2>2. u # t => held'[u] = held[u] /\ (IsSettled(u)' <=> IsSettled(u))
    BY <1>8, <1>9
  <2> QED BY <1>1, <2>1, <2>2 DEF FreshInv, IsNew
<1>15. EndIsSettled'
  <2> SUFFICES ASSUME NEW u \in Tasks, rows[u].status \in {"succeeded", "failed"}
               PROVE  /\ held'[u] = Wallet!Nothing
                      /\ charged'[u] = IF rows[u].status = "succeeded" THEN rows[u].actual ELSE 0
    BY <1>1 DEF EndIsSettled
  <2>1. /\ held[u] = Wallet!Nothing
        /\ charged[u] = IF rows[u].status = "succeeded" THEN rows[u].actual ELSE 0
    BY DEF PointsInv, EndIsSettled
  <2>2. held'[u] = held[u] /\ charged'[u] = charged[u]
    BY <1>8, <2>1
  <2> QED BY <2>1, <2>2
<1> QED BY <1>10, <1>11, <1>12, <1>13, <1>14, <1>15, <1>16 DEF PointsInv

-----------------------------------------------------------------------------
(* Points: leases *)

LEMMA PointsLease ==
    ASSUME TaskInv, PointsInv, NEW t \in Tasks, rows[t].status # "none",
           UNCHANGED <<requests, billing>>,
           \A u \in Tasks : u # t => rows'[u] = rows[u],
           rows'[t].status = "running", rows'[t].results = rows[t].results,
           rows'[t].error = rows[t].error, rows'[t].actual = rows[t].actual,
           rows'[t].payload = rows[t].payload,
           \A q \in Slots : slots'[q] = slots[q] \/ slots'[q].step = "load",
           \A q \in Slots : Loaded(q)' /\ Holds(q)' => Holds(q)
    PROVE  PointsInv'
<1>1. /\ \A u \in Tasks : IsSettled(u)' <=> IsSettled(u)
      /\ held' = held /\ charged' = charged /\ requests' = requests
  BY DEF billing, IsSettled
<1>2. \A u \in Tasks :
          /\ rows'[u].results = rows[u].results /\ rows'[u].error = rows[u].error
          /\ rows'[u].actual = rows[u].actual /\ rows'[u].payload = rows[u].payload
          /\ rows'[u].status = rows[u].status
             \/ (rows'[u].status = "running" /\ rows[u].status # "none")
  <2> TAKE u \in Tasks
  <2>1. CASE u = t
    BY <2>1
  <2>2. CASE u # t
    <3>1. rows'[u] = rows[u]
      BY <2>2
    <3> QED BY <3>1
  <2> QED BY <2>1, <2>2
<1>3. \A q \in Slots : CopyInv(slots[q])'
  <2>1. \A q \in Slots : CopyInv(slots'[q])
    BY DEF PointsInv, CopyInv
  <2> QED BY <2>1 DEF CopyInv, Sealed
<1>4. \A q \in Slots : SavedInv(slots[q])'
  <2> SUFFICES ASSUME NEW q \in Slots, slots'[q].step # "idle"
               PROVE  /\ Shown(slots'[q], rows'[slots'[q].task])
                      /\ slots'[q].step = "final" => IsSettled(slots[q].task)'
    BY DEF SavedInv, Shown, Sealed
  <2>1. CASE slots'[q].step = "load"
    BY <2>1 DEF Shown
  <2>2. CASE slots'[q] = slots[q]
    <3>1. slots[q].task \in Tasks /\ SavedInv(slots[q])
      BY <2>2, AtWork DEF TaskInv, PointsInv
    <3>2. Shown(slots[q], rows[slots[q].task])
      BY <2>2, <3>1 DEF SavedInv
    <3>3. Shown(slots[q], rows'[slots[q].task])
      BY <1>2, <3>1, <3>2 DEF Shown, Sealed
    <3>4. slots'[q].step = "final" => IsSettled(slots[q].task)'
      BY <1>1, <2>2, <3>1 DEF SavedInv, IsSettled
    <3> QED BY <2>2, <3>3, <3>4
  <2> QED BY <2>1, <2>2
<1>5. \A q \in Slots : HolderInv(q)'
  <2> SUFFICES ASSUME NEW q \in Slots, Loaded(q)', Holds(q)'
               PROVE  Unended(slots'[q].step, rows'[slots'[q].task])
    BY DEF HolderInv, Unended
  <2>1. slots'[q] = slots[q] /\ Loaded(q) /\ slots[q].task \in Tasks /\ Holds(q)
    BY LoadedFacts DEF Loaded
  <2>2. Unended(slots[q].step, rows[slots[q].task])
    BY <2>1 DEF PointsInv, HolderInv
  <2> QED BY <1>2, <2>1, <2>2 DEF Unended
<1>6. \A u \in Tasks : RowInv(u)'
  <2> SUFFICES ASSUME NEW u \in Tasks
               PROVE  /\ Plain(rows'[u])
                      /\ IsSettled(u) =>
                             /\ held[u] = Wallet!Nothing /\ charged[u] = rows'[u].actual
                             /\ rows'[u].status = "none" \/ Sealed(rows'[u])
    BY <1>1 DEF RowInv, Plain, Sealed
  <2>1. RowInv(u)
    BY DEF PointsInv
  <2>2. Plain(rows'[u])
    BY <1>2, <2>1 DEF RowInv, Plain, Sealed
  <2>3. IsSettled(u) => rows'[u].status = "none" \/ Sealed(rows'[u])
    BY <1>2, <2>1 DEF RowInv, Sealed
  <2> QED BY <1>2, <2>1, <2>2, <2>3 DEF RowInv
<1>7. \A r \in Requests : RequestInv(r)'
  <2> SUFFICES ASSUME NEW r \in Requests PROVE RequestInv(r)'
    OBVIOUS
  <2>1. TaskOf[r] \in Tasks /\ RequestInv(r)
    BY ImageTaskAssumption DEF PointsInv
  <2> QED BY <1>1, <1>2, <2>1 DEF RequestInv
<1>8. EndIsSettled'
  BY <1>1, <1>2 DEF PointsInv, EndIsSettled
<1>9. \A u \in Tasks : FreshInv(u)'
  BY <1>1, <1>2 DEF PointsInv, FreshInv, IsNew
<1> QED BY <1>3, <1>4, <1>5, <1>6, <1>7, <1>8, <1>9 DEF PointsInv

LEMMA PointsAcquire ==
    ASSUME TaskInv, PointsInv, SlotsApart', NEW s \in Slots, NEW t \in Tasks, Acquire(s, t)
    PROVE  PointsInv'
<1> DEFINE slot == [step |-> "load", task |-> t, copy |-> NoRow,
                    end |-> "failed", rescue |-> FALSE, tried |-> 0]
           row == [rows[t] EXCEPT !.status = "running", !.owner = OwnerOf[s], !.fresh = TRUE]
<1>1. /\ IsEligible(t) /\ Become(s, slot) /\ UNCHANGED <<requests, billing>>
      /\ rows' = [rows EXCEPT ![t] = row]
  BY DEF Acquire, billing
<1>2. rows[t] \in Rows /\ rows[t].status # "none"
  BY <1>1 DEF TaskInv, TypeOK, IsEligible
<1>3. /\ row.status = "running" /\ row.results = rows[t].results /\ row.error = rows[t].error
      /\ row.actual = rows[t].actual /\ row.payload = rows[t].payload
      /\ row.owner = OwnerOf[s]
  BY <1>2 DEF Rows
<1>4. slot.step = "load" /\ slot.task = t
  OBVIOUS
<1> HIDE DEF slot, row
<1>5. slots'[s] = slot /\ \A q \in Slots : q # s => slots'[q] = slots[q]
  BY <1>1 DEF Become, TaskInv, TypeOK
<1>6. rows'[t] = row /\ \A u \in Tasks : u # t => rows'[u] = rows[u]
  BY <1>1 DEF TaskInv, TypeOK
<1>7. \A q \in Slots : Loaded(q)' /\ Holds(q)' => Holds(q)
  <2> SUFFICES ASSUME NEW q \in Slots, Loaded(q)', Holds(q)' PROVE Holds(q)
    OBVIOUS
  <2>1. q # s
    BY <1>4, <1>5 DEF Loaded
  <2>2. slots'[q] = slots[q] /\ slots[q].task \in Tasks
    BY <1>5, <2>1, LoadedFacts DEF Loaded
  <2>3. slots[q].task # t
    <3> SUFFICES ASSUME slots[q].task = t PROVE FALSE
      OBVIOUS
    <3>1. OwnerOf[s] # OwnerOf[q]
      BY <1>4, <1>5, <2>1, <2>2 DEF Loaded, SlotsApart
    <3> QED BY <1>3, <1>6, <2>2, <3>1 DEF Holds
  <2> QED BY <1>6, <2>2, <2>3 DEF Holds
<1>8. \A q \in Slots : slots'[q] = slots[q] \/ slots'[q].step = "load"
  BY <1>4, <1>5
<1> QED BY <1>1, <1>2, <1>3, <1>6, <1>7, <1>8, PointsLease

LEMMA PointsLapse ==
    ASSUME TaskInv, PointsInv, NEW t \in Tasks, Lapse(t)
    PROVE  PointsInv'
<1> DEFINE row == [rows[t] EXCEPT !.fresh = FALSE]
<1>1. /\ rows[t].status = "running" /\ slots' = slots /\ UNCHANGED <<requests, billing>>
      /\ rows' = [rows EXCEPT ![t] = row]
  BY DEF Lapse, billing
<1>2. rows[t] \in Rows
  BY DEF TaskInv, TypeOK
<1>3. /\ row.status = "running" /\ row.results = rows[t].results /\ row.error = rows[t].error
      /\ row.actual = rows[t].actual /\ row.payload = rows[t].payload
      /\ row.owner = rows[t].owner
  BY <1>1, <1>2 DEF Rows
<1> HIDE DEF row
<1>4. rows'[t] = row /\ \A u \in Tasks : u # t => rows'[u] = rows[u]
  BY <1>1 DEF TaskInv, TypeOK
<1>5. \A q \in Slots : Loaded(q)' /\ Holds(q)' => Holds(q)
  <2> SUFFICES ASSUME NEW q \in Slots, Loaded(q)', Holds(q)' PROVE Holds(q)
    OBVIOUS
  <2>1. slots'[q] = slots[q] /\ slots[q].task \in Tasks
    BY <1>1, LoadedFacts DEF Loaded
  <2> QED BY <1>1, <1>3, <1>4, <2>1 DEF Holds
<1>6. \A q \in Slots : slots'[q] = slots[q] \/ slots'[q].step = "load"
  BY <1>1
<1> QED BY <1>1, <1>3, <1>4, <1>5, <1>6, PointsLease

-----------------------------------------------------------------------------
(* Points: requests *)

(* A request's step, whatever it does to the reservation of a task that    *)
(* has no row yet.                                                         *)
LEMMA PointsRequest ==
    ASSUME TaskInv, PointsInv, RequestsApart, NEW r \in Requests,
           \A q \in Requests : q # r => requests'[q] = requests[q],
           requests'[r].step # "check", RequestInv(r)', RowInv(TaskOf[r])',
           UNCHANGED <<rows, slots>>,
           \/ UNCHANGED billing
           \/ /\ requests[r].step \notin {"check", "done"}
              /\ rows[TaskOf[r]].status = "none"
              /\ \A u \in Tasks : u # TaskOf[r] =>
                     /\ held'[u] = held[u] /\ charged'[u] = charged[u]
                     /\ returned'[u] = returned[u]
    PROVE  PointsInv'
<1> DEFINE t == TaskOf[r]
<1>1. t \in Tasks
  BY ImageTaskAssumption
<1>2. \A u \in Tasks : \/ /\ held'[u] = held[u] /\ charged'[u] = charged[u]
                          /\ returned'[u] = returned[u]
                       \/ u = t /\ rows[t].status = "none"
  BY DEF billing
<1>3. \A u \in Tasks : rows[u].status # "none" => (IsSettled(u)' <=> IsSettled(u))
  BY <1>2 DEF IsSettled
<1>4. \A s \in Slots : CopyInv(slots[s])' /\ HolderInv(s)'
  BY DEF PointsInv, CopyInv, HolderInv, Sealed, Unended, Loaded, Holds
<1>5. \A s \in Slots : SavedInv(slots[s])'
  <2> SUFFICES ASSUME NEW s \in Slots, slots[s].step # "idle"
               PROVE  /\ Shown(slots[s], rows[slots[s].task])
                      /\ slots[s].step = "final" => IsSettled(slots[s].task)'
    BY DEF SavedInv, Shown, Sealed
  <2>1. slots[s].task \in Tasks /\ SavedInv(slots[s])
    BY AtWork DEF TaskInv, PointsInv
  <2>2. Shown(slots[s], rows[slots[s].task])
    BY <2>1 DEF SavedInv
  <2>3. slots[s].step = "final" => IsSettled(slots[s].task) /\ rows[slots[s].task].status # "none"
    BY <2>1, <2>2 DEF SavedInv, Shown
  <2>4. slots'[s] = slots[s]
    OBVIOUS
  <2>5. slots[s].step = "final" =>
            /\ charged'[slots[s].task] = charged[slots[s].task]
            /\ returned'[slots[s].task] = returned[slots[s].task]
    BY <1>2, <2>1, <2>3
  <2> QED BY <2>2, <2>3, <2>4, <2>5 DEF IsSettled
<1>6. \A u \in Tasks : RowInv(u)'
  <2> SUFFICES ASSUME NEW u \in Tasks, u # t PROVE RowInv(u)'
    OBVIOUS
  <2>1. RowInv(u) /\ held'[u] = held[u] /\ charged'[u] = charged[u] /\ returned'[u] = returned[u]
    BY <1>2 DEF PointsInv
  <2> QED BY <2>1 DEF RowInv, Plain, Sealed, IsSettled
<1>7. \A q \in Requests : RequestInv(q)'
  <2> SUFFICES ASSUME NEW q \in Requests, q # r PROVE RequestInv(q)'
    OBVIOUS
  <2>1. RequestInv(q) /\ requests'[q] = requests[q] /\ TaskOf[q] \in Tasks
    BY ImageTaskAssumption DEF PointsInv
  <2>2. CASE requests[q].step = "check"
    BY <2>1, <2>2 DEF RequestInv
  <2>3. CASE requests[q].step # "check"
    <3>1. UNCHANGED billing \/ TaskOf[q] # t
      BY <2>3 DEF RequestsApart
    <3>2. /\ held'[TaskOf[q]] = held[TaskOf[q]] /\ charged'[TaskOf[q]] = charged[TaskOf[q]]
          /\ returned'[TaskOf[q]] = returned[TaskOf[q]]
      BY <1>2, <2>1, <3>1 DEF billing
    <3> QED BY <2>1, <3>2 DEF RequestInv, IsSettled
  <2> QED BY <2>2, <2>3
<1>9. \A u \in Tasks : FreshInv(u)'
  <2> SUFFICES ASSUME NEW u \in Tasks,
                      \A q \in Requests : TaskOf[q] = u => requests'[q].step = "check"
               PROVE  IsNew(u)'
    BY DEF FreshInv
  <2>1. u # t
    OBVIOUS
  <2>2. \A q \in Requests : TaskOf[q] = u => requests[q].step = "check"
    BY <2>1
  <2>3. held'[u] = held[u] /\ charged'[u] = charged[u] /\ returned'[u] = returned[u]
    BY <1>2, <2>1
  <2> QED BY <2>2, <2>3 DEF PointsInv, FreshInv, IsNew, IsSettled
<1>8. EndIsSettled'
  <2> SUFFICES ASSUME NEW u \in Tasks, rows[u].status \in {"succeeded", "failed"}
               PROVE  /\ held'[u] = Wallet!Nothing
                      /\ charged'[u] = IF rows[u].status = "succeeded" THEN rows[u].actual ELSE 0
    BY DEF EndIsSettled
  <2>1. held'[u] = held[u] /\ charged'[u] = charged[u]
    BY <1>2
  <2> QED BY <2>1 DEF PointsInv, EndIsSettled
<1> QED BY <1>4, <1>5, <1>6, <1>7, <1>8, <1>9 DEF PointsInv

LEMMA MoveShape ==
    ASSUME TypeOK, NEW r \in Requests, NEW step, Move(r, step)
    PROVE  /\ requests'[r].step = step /\ requests'[r].status = requests[r].status
           /\ \A q \in Requests : q # r => requests'[q] = requests[q]
<1>1. requests[r] \in [step: RequestSteps, status: {"queued", "failed"}]
  BY DEF TypeOK
<1>2. requests'[r] = [requests[r] EXCEPT !.step = step]
  BY DEF Move, TypeOK
<1> QED BY <1>1, <1>2 DEF Move, TypeOK

LEMMA PointsInsertRow ==
    ASSUME TaskInv, PointsInv, RequestsApart, NEW r \in Requests, InsertRow(r)
    PROVE  PointsInv'
<1> DEFINE t == TaskOf[r]
           row == NewRow(requests[r].status)
<1>1. /\ requests[r].step = "insert" /\ rows[t].status = "none" /\ Move(r, "done")
      /\ rows' = [rows EXCEPT ![t] = row] /\ slots' = slots /\ UNCHANGED billing
  BY DEF InsertRow, AfterSave
<1>2. t \in Tasks
  BY ImageTaskAssumption
<1>3. requests[r].status \in {"queued", "failed"}
  BY DEF TaskInv, TypeOK
<1>4. /\ row.status = requests[r].status /\ row.payload = "none" /\ row.results = FALSE
      /\ row.actual = 0 /\ (row.error <=> row.status = "failed")
  BY DEF NewRow
<1> HIDE DEF row
<1>5. rows'[t] = row /\ \A u \in Tasks : u # t => rows'[u] = rows[u]
  BY <1>1, <1>2 DEF TaskInv, TypeOK
<1>6. /\ requests'[r].step = "done"
      /\ \A q \in Requests : q # r => requests'[q] = requests[q]
  BY <1>1, MoveShape DEF TaskInv
<1>7. /\ held' = held /\ charged' = charged
      /\ \A u \in Tasks : IsSettled(u)' <=> IsSettled(u)
  BY <1>1 DEF billing, IsSettled
<1>8. /\ RequestInv(r) /\ ~IsSettled(t)
      /\ requests[r].status = "failed" => held[t] = Wallet!Nothing
  BY <1>1 DEF PointsInv, RequestInv
<1>9. \A s \in Slots : CopyInv(slots[s])'
  BY <1>1 DEF PointsInv, CopyInv, Sealed
<1>10. \A s \in Slots : SavedInv(slots[s])'
  <2> SUFFICES ASSUME NEW s \in Slots, slots[s].step # "idle"
               PROVE  /\ Shown(slots[s], rows'[slots[s].task])
                      /\ slots[s].step = "final" => IsSettled(slots[s].task)'
    BY <1>1 DEF SavedInv, Shown, Sealed
  <2>1. slots[s].task \in Tasks /\ SavedInv(slots[s])
    BY AtWork DEF TaskInv, PointsInv
  <2>2. Shown(slots[s], rows[slots[s].task])
    BY <2>1 DEF SavedInv
  <2>3. slots[s].step \in {"settle", "final"} => slots[s].task # t
    BY <1>1, <2>2 DEF Shown
  <2>4. Shown(slots[s], rows'[slots[s].task])
    BY <1>5, <2>1, <2>2, <2>3 DEF Shown
  <2>5. slots[s].step = "final" => IsSettled(slots[s].task)'
    BY <1>1, <2>1 DEF SavedInv, IsSettled, billing
  <2> QED BY <2>4, <2>5
<1>11. \A s \in Slots : HolderInv(s)'
  <2> SUFFICES ASSUME NEW s \in Slots, Loaded(s)', Holds(s)'
               PROVE  Unended(slots[s].step, rows'[slots[s].task])
    BY <1>1 DEF HolderInv, Unended
  <2>1. Loaded(s) /\ slots[s].task \in Tasks /\ slots'[s] = slots[s]
    BY <1>1, LoadedFacts DEF Loaded
  <2>2. slots[s].task # t
    BY <1>3, <1>4, <1>5, <2>1 DEF Holds
  <2>3. rows'[slots[s].task] = rows[slots[s].task]
    BY <1>5, <2>1, <2>2
  <2>4. Holds(s)
    BY <2>1, <2>3 DEF Holds
  <2> QED BY <2>1, <2>3, <2>4 DEF PointsInv, HolderInv
<1>12. \A u \in Tasks : RowInv(u)'
  <2> SUFFICES ASSUME NEW u \in Tasks
               PROVE  /\ Plain(rows'[u])
                      /\ IsSettled(u) =>
                             /\ held[u] = Wallet!Nothing /\ charged[u] = rows'[u].actual
                             /\ rows'[u].status = "none" \/ Sealed(rows'[u])
    BY <1>7 DEF RowInv, Plain, Sealed
  <2>1. CASE u = t
    <3>1. Plain(row)
      BY <1>3, <1>4 DEF Plain, Sealed
    <3> QED BY <1>5, <1>8, <2>1, <3>1
  <2>2. CASE u # t
    BY <1>5, <2>2 DEF PointsInv, RowInv
  <2> QED BY <2>1, <2>2
<1>13. \A q \in Requests : RequestInv(q)'
  <2> SUFFICES ASSUME NEW q \in Requests PROVE RequestInv(q)'
    OBVIOUS
  <2>1. CASE q = r
    BY <1>6, <2>1 DEF RequestInv
  <2>2. CASE q # r
    <3>1. RequestInv(q) /\ requests'[q] = requests[q] /\ TaskOf[q] \in Tasks
      BY <1>6, <2>2, ImageTaskAssumption DEF PointsInv
    <3>2. TaskOf[q] = t => requests[q].step = "check"
      BY <1>1, <2>2 DEF RequestsApart
    <3> QED BY <1>5, <1>7, <3>1, <3>2 DEF RequestInv
  <2> QED BY <2>1, <2>2
<1>15. \A u \in Tasks : FreshInv(u)'
  <2> SUFFICES ASSUME NEW u \in Tasks,
                      \A q \in Requests : TaskOf[q] = u => requests'[q].step = "check"
               PROVE  IsNew(u)'
    BY DEF FreshInv
  <2>1. u # t
    BY <1>6
  <2>2. \A q \in Requests : TaskOf[q] = u => requests[q].step = "check"
    BY <1>6, <2>1
  <2> QED BY <1>5, <1>7, <2>1, <2>2 DEF PointsInv, FreshInv, IsNew
<1>14. EndIsSettled'
  <2> SUFFICES ASSUME NEW u \in Tasks, rows'[u].status \in {"succeeded", "failed"}
               PROVE  /\ held[u] = Wallet!Nothing
                      /\ charged[u] = IF rows'[u].status = "succeeded" THEN rows'[u].actual ELSE 0
    BY <1>7 DEF EndIsSettled
  <2>1. CASE u = t
    <3>1. requests[r].status = "failed" /\ rows'[u].status = "failed"
      BY <1>3, <1>4, <1>5, <2>1
    <3>2. charged[t] = 0
      <4>1. charged[t] \in Nat /\ returned[t] \in Nat /\ ~(charged[t] + returned[t] > 0)
        BY <1>2, <1>8 DEF IsSettled, TaskInv, TypeOK
      <4> QED BY <4>1
    <3> QED BY <1>8, <2>1, <3>1, <3>2
  <2>2. CASE u # t
    BY <1>5, <2>2 DEF PointsInv, EndIsSettled
  <2> QED BY <2>1, <2>2
<1> QED BY <1>9, <1>10, <1>11, <1>12, <1>13, <1>14, <1>15 DEF PointsInv

LEMMA PointsRequests ==
    ASSUME TaskInv, PointsInv, RequestsApart, RequestsApart', NEW r \in Requests, CreateTask(r) \/ DropRequest(r)
    PROVE  PointsInv'
<1> DEFINE t == TaskOf[r]
           failed == [step |-> "save", status |-> "failed"]
<1>1. TypeOK /\ t \in Tasks /\ RowInv(t) /\ RequestInv(r)
  BY ImageTaskAssumption DEF TaskInv, PointsInv
<1>2. requests[r].step \in {"reserve", "save", "insert"} =>
          /\ rows[t].status = "none" /\ ~IsSettled(t)
          /\ requests[r].step = "reserve" => held[t] = Wallet!Nothing
  BY <1>1 DEF RequestInv, TaskInv, RequestedIsNew
<1>3. ASSUME UNCHANGED <<rows, slots>>, UNCHANGED billing, NEW step, Move(r, step),
             step \in {"reserve", "save", "insert"} =>
                 /\ ~IsSettled(t)
                 /\ step = "reserve" \/ requests[r].status = "failed" => held[t] = Wallet!Nothing,
             step # "check",
             step = "reserve" => requests[r].status = "queued",
             step = "rollback" => rows[t].status = "none"
      PROVE  PointsInv'
  <2>1. /\ requests'[r].step = step /\ requests'[r].status = requests[r].status
        /\ \A q \in Requests : q # r => requests'[q] = requests[q]
    BY <1>1, <1>3, MoveShape
  <2>2. RequestInv(r)'
    BY <1>2, <1>3, <2>1 DEF RequestInv, IsSettled, billing
  <2>3. RowInv(t)'
    BY <1>1, <1>3 DEF RowInv, Plain, Sealed, IsSettled, billing
  <2> QED BY <1>3, <2>1, <2>2, <2>3, PointsRequest
<1>4. ASSUME UNCHANGED <<rows, slots>>, UNCHANGED billing,
             requests' = [requests EXCEPT ![r] = failed], ~IsSettled(t), held[t] = Wallet!Nothing
      PROVE  PointsInv'
  <2>1. requests'[r] = failed /\ \A q \in Requests : q # r => requests'[q] = requests[q]
    BY <1>1, <1>4 DEF TypeOK
  <2>2. RequestInv(r)'
    BY <1>2, <1>4, <2>1 DEF RequestInv, IsSettled, billing
  <2>3. RowInv(t)'
    BY <1>1, <1>4 DEF RowInv, Plain, Sealed, IsSettled, billing
  <2> QED BY <1>4, <2>1, <2>2, <2>3, PointsRequest
<1> HIDE DEF failed
<1>5. CASE Check(r)
  <2>1. /\ requests[r].step = "check" /\ UNCHANGED <<rows, slots>> /\ UNCHANGED billing
        /\ requests[r].status = "queued"
    BY <1>1, <1>5 DEF Check, RequestInv
  <2>2. CASE Move(r, "done")
    BY <1>3, <2>1, <2>2
  <2>3. CASE Move(r, "reserve") \/ requests' = [requests EXCEPT ![r] = failed]
    <3>1. /\ requests'[r].step \in {"reserve", "save"}
          /\ \A q \in Requests : q # r => requests'[q] = requests[q]
      BY <1>1, <2>3, MoveShape DEF failed, TypeOK
    <3>2. \A q \in Requests : q # r /\ TaskOf[q] = t => requests[q].step = "check"
      BY <3>1 DEF RequestsApart
    <3>3. ~IsSettled(t) /\ held[t] = Wallet!Nothing
      BY <1>1, <2>1, <3>2 DEF PointsInv, FreshInv, IsNew
    <3> QED BY <1>3, <1>4, <2>1, <2>3, <3>3
  <2> QED BY <1>5, <2>2, <2>3 DEF Check, failed
<1>6. CASE Reserve(r)
  <2>1. /\ requests[r].step = "reserve" /\ requests[r].status = "queued"
        /\ UNCHANGED <<rows, slots>>
    BY <1>1, <1>6 DEF Reserve, RequestInv
  <2>2. rows[t].status = "none" /\ held[t] = Wallet!Nothing /\ ~IsSettled(t)
    BY <1>2, <2>1
  <2>3. CASE requests' = [requests EXCEPT ![r] = failed] /\ UNCHANGED billing
    BY <1>4, <2>1, <2>2, <2>3
  <2>4. CASE ReserveTask(t) /\ Move(r, "save")
    <3>1. /\ held' = [held EXCEPT ![t] = Estimate]
          /\ charged' = charged /\ returned' = returned
      BY <2>2, <2>4 DEF ReserveTask, Wallet!Hold
    <3>2. \A u \in Tasks : u # t => /\ held'[u] = held[u] /\ charged'[u] = charged[u]
                                    /\ returned'[u] = returned[u]
      BY <1>1, <3>1 DEF TypeOK
    <3>3. /\ requests'[r].step = "save" /\ requests'[r].status = "queued"
          /\ \A q \in Requests : q # r => requests'[q] = requests[q]
      BY <1>1, <2>1, <2>4, MoveShape
    <3>4. ~IsSettled(t)'
      BY <2>2, <3>1 DEF IsSettled
    <3>5. RequestInv(r)'
      BY <3>3, <3>4 DEF RequestInv
    <3>6. RowInv(t)'
      BY <1>1, <2>1, <3>4 DEF RowInv, Plain, Sealed
    <3> QED BY <2>1, <2>2, <3>2, <3>3, <3>5, <3>6, PointsRequest
  <2> QED BY <1>6, <2>3, <2>4 DEF Reserve, failed
<1>7. CASE SaveRow(r)
  <2>1. requests[r].step = "save"
    BY <1>7 DEF SaveRow
  <2>2. rows[t].status = "none"
    BY <1>2, <2>1
  <2>3. Move(r, "insert") /\ UNCHANGED <<rows, slots>> /\ UNCHANGED billing
    BY <1>7, <2>2 DEF SaveRow
  <2>4. requests[r].status = "failed" => held[t] = Wallet!Nothing
    BY <1>1, <2>1 DEF RequestInv
  <2> QED BY <1>2, <1>3, <2>1, <2>3, <2>4
<1>8. CASE InsertRow(r)
  BY <1>8, PointsInsertRow
<1>9. CASE FailSave(r)
  <2>1. /\ requests[r].step \in {"save", "insert"}
        /\ UNCHANGED <<rows, slots>> /\ UNCHANGED billing
        /\ Move(r, "rollback") \/ Move(r, "done")
    BY <1>9 DEF FailSave
  <2>2. rows[t].status = "none"
    BY <1>2, <2>1
  <2> QED BY <1>3, <2>1, <2>2
<1>10. CASE Rollback(r)
  <2>1. /\ requests[r].step = "rollback" /\ FinalizeTask(t, 0) /\ Move(r, "done")
        /\ UNCHANGED <<rows, slots>> /\ 0 \in 0 .. Estimate
    BY <1>10, Parameters DEF Rollback
  <2>2. /\ rows[t].status = "none" /\ rows[t].actual = 0
        /\ IsSettled(t) => held[t] = Wallet!Nothing /\ charged[t] = rows[t].actual
    BY <1>1, <2>1 DEF RequestInv, RowInv, Plain, Sealed
  <2>3. /\ held'[t] = Wallet!Nothing /\ charged'[t] = 0
        /\ \A u \in Tasks : u # t => /\ held'[u] = held[u] /\ charged'[u] = charged[u]
                                     /\ returned'[u] = returned[u]
    BY <1>1, <2>1, <2>2, FinalizeFacts
  <2>4. requests'[r].step = "done" /\ \A q \in Requests : q # r => requests'[q] = requests[q]
    BY <1>1, <2>1, MoveShape
  <2>5. RequestInv(r)'
    BY <2>4 DEF RequestInv
  <2>6. RowInv(t)'
    BY <1>1, <2>1, <2>2, <2>3 DEF RowInv, Plain, Sealed
  <2> QED BY <2>1, <2>2, <2>3, <2>4, <2>5, <2>6, PointsRequest
<1>11. CASE DropRequest(r)
  <2>1. Move(r, "done") /\ UNCHANGED <<rows, slots>> /\ UNCHANGED billing
    BY <1>11 DEF DropRequest
  <2> QED BY <1>3, <2>1
<1> QED BY <1>5, <1>6, <1>7, <1>8, <1>9, <1>10, <1>11 DEF CreateTask

-----------------------------------------------------------------------------
(* Points: the theorems *)

LEMMA PointsInit == Init => PointsInv
<1> SUFFICES ASSUME Init PROVE PointsInv
  OBVIOUS
<1>1. \A s \in Slots : slots[s] = Idle /\ slots[s].step = "idle"
  BY IdleBounds DEF Init
<1>2. \A s \in Slots : CopyInv(slots[s]) /\ SavedInv(slots[s]) /\ HolderInv(s)
  BY <1>1 DEF CopyInv, SavedInv, HolderInv, Loaded
<1>3. \A t \in Tasks : held[t] = Wallet!Nothing /\ charged[t] = 0 /\ returned[t] = 0
  BY DEF Init, Wallet!Init
<1>4. \A t \in Tasks : ~IsSettled(t)
  <2> TAKE t \in Tasks
  <2>1. charged[t] = 0 /\ returned[t] = 0
    BY <1>3
  <2> QED BY <2>1 DEF IsSettled
<1>5. \A t \in Tasks : rows[t] = NoRow
  BY DEF Init
<1>6. /\ NoRow.status = "none" /\ NoRow.payload = "none" /\ NoRow.actual = 0
      /\ NoRow.results = FALSE /\ NoRow.error = FALSE
  BY DEF NoRow, NewRow
<1>7. \A t \in Tasks : RowInv(t)
  BY <1>4, <1>5, <1>6 DEF RowInv, Plain, Sealed
<1>8. \A r \in Requests : TaskOf[r] \in Tasks /\ requests[r].step = "check" /\ requests[r].status = "queued"
  BY ImageTaskAssumption DEF Init
<1>9. \A r \in Requests : RequestInv(r)
  BY <1>3, <1>4, <1>8 DEF RequestInv
<1>11. \A t \in Tasks : FreshInv(t)
  BY <1>3, <1>4, <1>5, <1>6 DEF FreshInv, IsNew
<1>10. EndIsSettled
  BY <1>5, <1>6 DEF EndIsSettled
<1> QED BY <1>2, <1>7, <1>9, <1>10, <1>11 DEF PointsInv

LEMMA PointsNext ==
    Undisturbed /\ Undisturbed' /\ TaskInv /\ PointsInv /\ [Next]_vars => PointsInv'
<1> SUFFICES ASSUME SlotsApart, SlotsApart', RequestsApart, RequestsApart',
                    TaskInv, PointsInv, [Next]_vars
             PROVE  PointsInv'
  BY DEF Undisturbed
<1>1. ASSUME NEW s \in Slots, Execute(s) PROVE PointsInv'
  BY <1>1, PointsLoad, PointsReject, PointsMark, PointsSubmit, PointsAnswer, PointsClear,
     PointsCheckpoint, PointsRecover, PointsPin, PointsPersist, PointsRequeue, PointsSave,
     PointsSettle, PointsFinal
     DEF Execute
<1>2. CASE UNCHANGED vars
  <2>1. /\ rows' = rows /\ requests' = requests /\ slots' = slots
        /\ held' = held /\ charged' = charged /\ returned' = returned
    BY <1>2 DEF vars, billing
  <2> QED BY <2>1 DEF PointsInv, CopyInv, SavedInv, Shown, HolderInv, Unended, Loaded, Holds,
                      Sealed, RowInv, Plain, IsSettled, RequestInv, FreshInv, IsNew,
                      EndIsSettled
<1> QED BY <1>1, <1>2, PointsRequests, PointsDie, PointsAcquire, PointsLapse DEF Next

(* A task that ended has nothing reserved any more, and has paid what its  *)
(* row shows or, when it failed, nothing: whatever workers died between    *)
(* the save of the end, the settlement and the final save, and whoever     *)
(* took the task over.                                                     *)
THEOREM EndIsSettledHolds == Spec => ([]Undisturbed => []EndIsSettled)
<1>1. Init => TaskInv /\ PointsInv
  BY TaskInvInit, PointsInit
<1>2. /\ Undisturbed /\ Undisturbed' /\ TaskInv /\ PointsInv /\ [Next]_vars
      => TaskInv' /\ PointsInv'
  BY TaskInvNext, PointsNext
<1>3. PointsInv => EndIsSettled
  BY DEF PointsInv
<1> QED BY <1>1, <1>2, <1>3, PTL DEF Spec

(* No point is charged before the row shows the results, and then the row  *)
(* shows the price that was charged.                                       *)
THEOREM ChargedIsDeliveredHolds == Spec => ([]Undisturbed => []ChargedIsDelivered)
<1>1. Init => TaskInv /\ PointsInv
  BY TaskInvInit, PointsInit
<1>2. /\ Undisturbed /\ Undisturbed' /\ TaskInv /\ PointsInv /\ [Next]_vars
      => TaskInv' /\ PointsInv'
  BY TaskInvNext, PointsNext
<1>3. TaskInv /\ PointsInv => ChargedIsDelivered
  <2> SUFFICES ASSUME TaskInv, PointsInv, NEW t \in Tasks, charged[t] > 0
               PROVE  rows[t].results /\ rows[t].actual = charged[t]
    BY DEF ChargedIsDelivered
  <2>1. charged[t] \in Nat /\ returned[t] \in Nat
    BY DEF TaskInv, TypeOK
  <2>2. IsSettled(t)
    BY <2>1 DEF IsSettled
  <2>3. charged[t] = rows[t].actual /\ Plain(rows[t])
    BY <2>2 DEF PointsInv, RowInv
  <2>4. rows[t].actual # 0
    BY <2>1, <2>3
  <2> QED BY <2>3, <2>4 DEF Plain
<1> QED BY <1>1, <1>2, <1>3, PTL DEF Spec

(* A write that drops the images' payload shows their results or an error. *)
LEMMA WriteKeepsPaid ==
    ASSUME TaskInv, PointsInv, NEW s \in Slots, slots[s].step # "idle", NEW copy \in Rows,
           Write(s, copy),
           \/ copy.payload # "none" \/ Sealed(copy)
           \/ rows[slots[s].task].payload = "none",
           NEW t \in Tasks, rows[t].payload # "none", rows'[t].payload = "none"
    PROVE  rows'[t].results \/ rows'[t].error
<1>1. PICK row \in Rows :
          /\ rows' = [rows EXCEPT ![slots[s].task] = row]
          /\ row.results = copy.results /\ row.error = copy.error
          /\ row.payload = copy.payload
  BY WrittenRow DEF TaskInv
<1>2. t = slots[s].task /\ rows'[t] = row
  BY <1>1 DEF TaskInv, TypeOK
<1> QED BY <1>1, <1>2 DEF Sealed

(* The payload kept at the checkpoint survives deaths, lapses, retries and *)
(* takeovers until the images are stored or the row says that they failed. *)
THEOREM PaidOutputIsKeptHolds == Spec => ([]Undisturbed => PaidOutputIsKept)
<1> DEFINE Kept == \A t \in Tasks : rows[t].payload # "none" /\ rows'[t].payload = "none" =>
                                        rows'[t].results \/ rows'[t].error
<1>1. Init => TaskInv /\ PointsInv
  BY TaskInvInit, PointsInit
<1>2. /\ Undisturbed /\ Undisturbed' /\ TaskInv /\ PointsInv /\ [Next]_vars
      => TaskInv' /\ PointsInv'
  BY TaskInvNext, PointsNext
<1>3. TaskInv /\ PointsInv /\ [Next]_vars => [Kept]_vars
  <2> SUFFICES ASSUME TaskInv, PointsInv, [Next]_vars, NEW t \in Tasks,
                      rows[t].payload # "none", rows'[t].payload = "none"
               PROVE  rows'[t].results \/ rows'[t].error
    OBVIOUS
  <2>1. ~UNCHANGED rows
    OBVIOUS
  <2>2. ASSUME NEW s \in Slots, NEW step, slots[s].step = step, step \notin {"idle", "load"},
               NEW copy \in Rows, Holds(s), Write(s, copy),
               \/ copy.payload # "none" \/ Sealed(copy)
               \/ step \in {"mark", "submit", "answer", "clear", "checkpoint"}
        PROVE  rows'[t].results \/ rows'[t].error
    <3>1. Unended(step, rows[slots[s].task])
      BY <2>2, PointsFacts
    <3>2. copy.payload # "none" \/ Sealed(copy) \/ rows[slots[s].task].payload = "none"
      BY <2>2, <3>1 DEF Unended
    <3> QED BY <2>2, <3>2, WriteKeepsPaid
  <2>3. ASSUME NEW s \in Slots, slots[s].step \notin {"idle", "load"}
        PROVE  slots[s].copy \in Rows /\ CopyInv(slots[s]) /\ slots[s] \in Working
    BY <2>3, PointsFacts
  <2>4. ASSUME NEW s \in Slots, Execute(s) PROVE rows'[t].results \/ rows'[t].error
    <3>1. ~(Load(s) \/ Submit(s) \/ Answer(s) \/ Recover(s) \/ Persist(s) \/ Settle(s))
      BY <2>1 DEF Load, Submit, Answer, Recover, Persist, Settle
    <3>2. CASE Reject(s)
      <4> DEFINE copy == [slots[s].copy EXCEPT !.status = "rejected", !.error = TRUE]
      <4>1. slots[s].step = "reject" /\ Holds(s) /\ Write(s, copy)
        BY <2>1, <3>2 DEF Reject, Owns
      <4>2. copy \in Rows /\ Sealed(copy)
        BY <2>3, <4>1 DEF Rows, FinalStatuses, Sealed
      <4> HIDE DEF copy
      <4> QED BY <2>2, <4>1, <4>2
    <3>3. CASE Mark(s)
      <4> DEFINE copy == [slots[s].copy EXCEPT !.started = TRUE]
      <4>1. slots[s].step = "mark" /\ Holds(s) /\ Write(s, copy)
        BY <2>1, <3>3 DEF Mark, Owns
      <4>2. copy \in Rows
        BY <2>3, <4>1 DEF Rows
      <4> HIDE DEF copy
      <4> QED BY <2>2, <4>1, <4>2
    <3>4. CASE Clear(s)
      <4>1. slots[s].step = "clear" /\ Holds(s) /\ Write(s, slots[s].copy)
        BY <2>1, <3>4 DEF Clear, Owns
      <4> QED BY <2>2, <2>3, <4>1
    <3>5. CASE Checkpoint(s)
      <4> DEFINE copy == [slots[s].copy EXCEPT !.payload = "kept"]
      <4>1. slots[s].step = "checkpoint" /\ Holds(s) /\ Write(s, copy)
        BY <2>1, <3>5 DEF Checkpoint
      <4>2. copy \in Rows
        BY <2>3, <4>1 DEF Rows
      <4> HIDE DEF copy
      <4> QED BY <2>2, <4>1, <4>2
    <3>6. CASE Pin(s)
      <4> DEFINE copy == [slots[s].copy EXCEPT !.payload = "pinned"]
      <4>1. slots[s].step = "pin" /\ Holds(s) /\ Write(s, copy)
        BY <2>1, <3>6 DEF Pin
      <4>2. copy \in Rows /\ copy.payload # "none"
        BY <2>3, <4>1 DEF Rows
      <4> HIDE DEF copy
      <4> QED BY <2>2, <4>1, <4>2
    <3>7. CASE Requeue(s)
      <4> DEFINE copy == [slots[s].copy EXCEPT !.status = "queued", !.error = FALSE]
      <4>1. slots[s].step = "requeue" /\ Holds(s) /\ Write(s, copy)
        BY <2>1, <3>7 DEF Requeue, Requeued, Owns
      <4>2. copy \in Rows /\ copy.payload # "none"
        BY <2>3, <4>1 DEF Rows, CopyInv
      <4> HIDE DEF copy
      <4> QED BY <2>2, <4>1, <4>2
    <3>8. CASE Save(s)
      <4>1. slots[s].step = "save" /\ Holds(s) /\ Write(s, slots[s].copy)
        BY <2>1, <3>8 DEF Save, Owns
      <4>2. Sealed(slots[s].copy)
        BY <2>3, <4>1 DEF CopyInv, Ending
      <4> QED BY <2>2, <2>3, <4>1, <4>2
    <3>9. CASE Final(s)
      <4> DEFINE copy == [slots[s].copy EXCEPT !.status = slots[s].end]
      <4>1. slots[s].step = "final" /\ Holds(s) /\ Write(s, copy)
        BY <2>1, <3>9 DEF Final, Owns
      <4>2. slots[s].end \in {"succeeded", "failed"} /\ Sealed(slots[s].copy)
        BY <2>3, <4>1 DEF CopyInv, Ending, Working
      <4>3. copy \in Rows /\ Sealed(copy)
        BY <2>3, <4>1, <4>2 DEF Rows, FinalStatuses, Sealed
      <4> HIDE DEF copy
      <4> QED BY <2>2, <4>1, <4>3
    <3> QED BY <2>4, <3>1, <3>2, <3>3, <3>4, <3>5, <3>6, <3>7, <3>8, <3>9 DEF Execute
  <2>5. ASSUME NEW s \in Slots, NEW u \in Tasks, Acquire(s, u) PROVE FALSE
    <3>1. rows[t] \in Rows /\ rows'[t].payload = rows[t].payload
      BY <2>5 DEF Acquire, TaskInv, TypeOK, Rows
    <3> QED BY <3>1
  <2>6. ASSUME NEW u \in Tasks, Lapse(u) PROVE FALSE
    <3>1. rows[t] \in Rows /\ rows'[t].payload = rows[t].payload
      BY <2>6 DEF Lapse, TaskInv, TypeOK, Rows
    <3> QED BY <3>1
  <2>7. ASSUME NEW r \in Requests, CreateTask(r) \/ DropRequest(r) PROVE FALSE
    <3>1. CASE SaveRow(r)
      <4>1. rows[TaskOf[r]].status = "none"
        BY <3>1 DEF SaveRow, TaskInv, RequestedIsNew
      <4> QED BY <2>1, <3>1, <4>1 DEF SaveRow
    <3>2. CASE InsertRow(r)
      <4>1. rows[TaskOf[r]].status = "none" /\ TaskOf[r] \in Tasks
        BY <3>2, ImageTaskAssumption DEF InsertRow
      <4>2. t # TaskOf[r]
        BY <4>1 DEF PointsInv, RowInv, Plain
      <4> QED BY <3>2, <4>2 DEF InsertRow, TaskInv, TypeOK
    <3> QED BY <2>1, <2>7, <3>1, <3>2
            DEF CreateTask, Check, Reserve, FailSave, Rollback, DropRequest
  <2>8. ASSUME NEW s \in Slots, Die(s) PROVE FALSE
    BY <2>1, <2>8 DEF Die
  <2>9. CASE UNCHANGED vars
    BY <2>1, <2>9 DEF vars
  <2> QED BY <2>4, <2>5, <2>6, <2>7, <2>8, <2>9 DEF Next
<1> QED BY <1>1, <1>2, <1>3, PTL DEF Spec, PaidOutputIsKept
=============================================================================
