---------------------------- MODULE HandlerProofs ----------------------------
(***************************************************************************)
(* Theorems about the two models whose steps are those of requests to the  *)
(* API process: Canvas, for any number of nodes, runs, editors, requests   *)
(* and faults; and Payment, for every number of orders, trades and askers, *)
(* every limit and every timeout.                                          *)
(***************************************************************************)
EXTENDS Handlers, TLAPS


-----------------------------------------------------------------------------
(* Canvas: typing *)

(* A new canvas, its copies and its requests are well formed.              *)
LEMMA InitType == Init => TypeOK
<1> SUFFICES ASSUME Init PROVE TypeOK
  OBVIOUS
<1>1. PICK p \in Projects :
          canvas = [deleted |-> FALSE, rev |-> 1, meta |-> 1, project |-> p, running |-> 0,
                    failed |-> 0, doc |-> [nodes |-> [n \in Nodes |-> Template],
                                           beside |-> {}, room |-> TRUE]]
  BY DEF Init
<1>2. [nodes |-> [n \in Nodes |-> Template], beside |-> {}, room |-> TRUE] \in Documents
  BY CanvasAssumption DEF Documents
<1>3. canvas \in Canvases
  BY <1>1, <1>2 DEF Canvases
<1>4. CopyOf(canvas) \in Copies
  BY <1>3 DEF CopyOf, Copies, Canvases
<1>5. /\ NoRow \in Rows
      /\ \A k \in Kinds : NoTask(k) \in Tasks
  BY DEF NoRow, Rows, NoTask, Tasks, TaskStates
<1>6. /\ runs = [r \in Runs |-> NoRow]
      /\ \E kind \in [Runs -> Kinds] : tasks = [r \in Runs |-> NoTask(kind[r])]
      /\ made = [r \in Runs |-> 0] /\ lost = {} /\ dropped = {} /\ faults = 0
      /\ requests = [q \in Requests |-> Idle]
      /\ editors = [e \in Editors |-> CopyOf(canvas)]
  BY DEF Init
<1>7. runs \in [Runs -> Rows]
  BY <1>5, <1>6
<1>8. tasks \in [Runs -> Tasks]
  BY <1>5, <1>6
<1>9. requests \in [Requests -> {Idle} \cup Pending] /\ editors \in [Editors -> Copies]
  BY <1>4, <1>6
<1> QED BY <1>3, <1>6, <1>7, <1>8, <1>9 DEF TypeOK

(* What may be written into the document is a document.                    *)
LEMMA DocumentUpdates ==
    ASSUME NEW doc \in Documents
    PROVE  /\ \A n \in Nodes, v \in {None} \cup Drafts \cup Runs :
                  [doc EXCEPT !.nodes[n] = v] \in Documents
           /\ \A b \in SUBSET Runs : [doc EXCEPT !.beside = b] \in Documents
           /\ \A b \in BOOLEAN : [doc EXCEPT !.room = b] \in Documents
<1>1. ASSUME NEW n \in Nodes, NEW v \in {None} \cup Drafts \cup Runs
      PROVE  [doc EXCEPT !.nodes[n] = v] \in Documents
  <2>1. [doc.nodes EXCEPT ![n] = v] \in [Nodes -> {None} \cup Drafts \cup Runs]
    BY DEF Documents
  <2> QED BY <2>1 DEF Documents
<1>2. ASSUME NEW b \in SUBSET Runs
      PROVE  [doc EXCEPT !.beside = b] \in Documents
  BY DEF Documents
<1>3. ASSUME NEW b \in BOOLEAN
      PROVE  [doc EXCEPT !.room = b] \in Documents
  BY DEF Documents
<1> QED BY <1>1, <1>2, <1>3

(* Whatever a user makes of a document is a document.                      *)
LEMMA EditsType ==
    ASSUME NEW doc \in Documents
    PROVE  Edits(doc) \subseteq Documents
<1> SUFFICES ASSUME NEW new \in Edits(doc) PROVE new \in Documents
  OBVIOUS
<1>1. CASE new = doc
  BY <1>1
<1>2. CASE \E n \in Nodes : new = [doc EXCEPT !.nodes[n] = None]
  BY <1>2, DocumentUpdates
<1>3. CASE \E r \in Runs : new = [doc EXCEPT !.beside = @ \ {r}]
  <2>1. doc.beside \in SUBSET Runs
    BY DEF Documents
  <2>2. PICK r \in Runs : new = [doc EXCEPT !.beside = doc.beside \ {r}]
    BY <1>3
  <2> QED BY <2>1, <2>2, DocumentUpdates
<1>4. CASE \E p \in Nodes \X Drafts : new = [doc EXCEPT !.nodes[p[1]] = p[2]]
  BY <1>4, DocumentUpdates
<1>5. CASE \E b \in BOOLEAN : new = [doc EXCEPT !.room = b]
  BY <1>5, DocumentUpdates
<1> QED BY <1>1, <1>2, <1>3, <1>4, <1>5 DEF Edits

(* The parts of the canvas, and what replaces them.                        *)
LEMMA CanvasFields ==
    ASSUME TypeOK
    PROVE  /\ canvas.rev \in Nat /\ canvas.meta \in Nat /\ canvas.running \in Nat
           /\ canvas.failed \in Nat /\ canvas.doc \in Documents /\ canvas.project \in Projects
           /\ CopyOf(canvas) \in Copies
           /\ CopyOf(canvas).rev = canvas.rev /\ CopyOf(canvas).doc = canvas.doc
BY DEF TypeOK, Canvases, CopyOf, Copies

(* A canvas that is deleted or moved is a canvas.                          *)
LEMMA CanvasUpdates ==
    ASSUME TypeOK, NEW m \in Nat
    PROVE  /\ [canvas EXCEPT !.deleted = TRUE, !.meta = m] \in Canvases
           /\ \A p \in Projects :
                  /\ [canvas EXCEPT !.project = p, !.meta = m] \in Canvases
                  /\ [canvas EXCEPT !.project = p, !.meta = m].meta = m
<1>1. canvas \in Canvases
  BY DEF TypeOK
<1> QED BY <1>1 DEF Canvases

(* Writing a document takes the canvas to the next revision of it.         *)
LEMMA DocumentWritten ==
    ASSUME TypeOK, NEW doc \in Documents,
           canvas' = [canvas EXCEPT !.doc = doc, !.rev = @ + 1]
    PROVE  /\ canvas' \in Canvases /\ canvas'.doc = doc /\ canvas'.rev = canvas.rev + 1
           /\ CopyOf(canvas') \in Copies /\ CopyOf(canvas').doc = doc
           /\ CopyOf(canvas').rev = canvas'.rev
<1>1. canvas.rev + 1 \in Nat
  BY CanvasFields
<1>2. canvas' = [canvas EXCEPT !.doc = doc, !.rev = canvas.rev + 1]
  OBVIOUS
<1>3. canvas' \in Canvases /\ canvas'.doc = doc /\ canvas'.rev = canvas.rev + 1
  BY <1>1, <1>2 DEF TypeOK, Canvases
<1> QED BY <1>3 DEF CopyOf, Copies, Canvases

(* A request goes on, and the others stay where they are.                  *)
LEMMA TurnType ==
    ASSUME TypeOK, NEW q \in Requests, NEW next \in {Idle} \cup Pending, Turn(q, next)
    PROVE  /\ requests' \in [Requests -> {Idle} \cup Pending]
           /\ requests'[q] = next
           /\ \A p \in Requests : p # q => requests'[p] = requests[p]
BY DEF Turn, TypeOK

(* The same for a request that ends.                                       *)
LEMMA DoneType ==
    ASSUME TypeOK, NEW q \in Requests, Done(q)
    PROVE  /\ requests' \in [Requests -> {Idle} \cup Pending]
           /\ requests'[q] = Idle
           /\ \A p \in Requests : p # q => requests'[p] = requests[p]
BY TurnType DEF Done

(* A request that is about to do something has a run, and its fields.      *)
LEMMA RequestFields ==
    ASSUME TypeOK, NEW q \in Requests, requests[q].step # "idle"
    PROVE  /\ requests[q] \in Pending /\ requests[q].run \in Runs
           /\ requests[q].rev \in Nat /\ requests[q].draft \in Drafts \cup {None}
           /\ requests[q].project \in Projects \cup {None}
           /\ requests[q].to \in Statuses \cup {None}
           /\ requests[q].recover \in BOOLEAN
<1>1. requests[q] \in Pending
  BY DEF TypeOK, Idle
<1> QED BY <1>1 DEF Pending

(* A request that begins is well formed.                                   *)
LEMMA DoingType ==
    ASSUME NEW step \in {"create", "generate", "record", "attach", "place"}, NEW r \in Runs
    PROVE  /\ Doing(step, r) \in Pending
           /\ Doing(step, r).step = step /\ Doing(step, r).run = r
BY DEF Doing, Pending

(* Results are placed in their node or beside it.                          *)
LEMMA ResultsType ==
    ASSUME TypeOK, NEW r \in Runs, NEW w, NEW room \in BOOLEAN
    PROVE  WithResults(r, w, room) \in Documents
<1>1. canvas.doc \in Documents /\ NodeOf[r] \in Nodes
  BY CanvasFields, CanvasAssumption
<1>2. canvas.doc.beside \cup {r} \in SUBSET Runs
  BY <1>1 DEF Documents
<1>3. /\ [canvas.doc EXCEPT !.beside = canvas.doc.beside \cup {r}] \in Documents
      /\ [canvas.doc EXCEPT !.nodes[NodeOf[r]] = r] \in Documents
  BY <1>1, <1>2, DocumentUpdates
<1>4. /\ [canvas.doc EXCEPT !.beside = canvas.doc.beside \cup {r}, !.room = room] \in Documents
      /\ [canvas.doc EXCEPT !.nodes[NodeOf[r]] = r, !.room = room] \in Documents
  BY <1>3, DocumentUpdates
<1> QED BY <1>1, <1>4 DEF WithResults

(* The steps of an editor keep the types.                                  *)
LEMMA EditingType ==
    ASSUME TypeOK, NEW e \in Editors,
           \/ Load(e) \/ Save(e) \/ Rename(e) \/ Delete(e)
           \/ \E p \in Projects : TransferProject(e, p)
    PROVE  TypeOK'
<1>1. CASE Load(e)
  <2>1. editors' \in [Editors -> Copies]
    BY <1>1, CanvasFields DEF Load, TypeOK
  <2> QED BY <1>1, <2>1 DEF Load, TypeOK
<1>2. CASE Save(e)
  <2>1. editors[e].doc \in Documents
    BY DEF TypeOK, Copies
  <2>2. PICK doc \in Edits(editors[e].doc) :
            /\ canvas' = [canvas EXCEPT !.doc = doc, !.rev = @ + 1]
            /\ dropped' = dropped \cup (Shown(editors[e].doc) \ Shown(doc))
    BY <1>2 DEF Save
  <2>3. canvas' \in Canvases /\ CopyOf(canvas') \in Copies
    BY <2>1, <2>2, EditsType, DocumentWritten
  <2>4. Shown(editors[e].doc) \subseteq Runs
    BY <2>1 DEF Shown, Documents
  <2>5. dropped' \subseteq Runs
    BY <2>2, <2>4 DEF TypeOK
  <2>6. editors' \in [Editors -> Copies]
    BY <1>2, <2>3 DEF Save, TypeOK
  <2> QED BY <1>2, <2>3, <2>5, <2>6 DEF Save, TypeOK
<1>3. CASE Rename(e)
  <2>1. canvas' \in Canvases /\ canvas'.meta \in Nat
    BY <1>3, CanvasFields DEF Rename, TypeOK, Canvases
  <2>2. [editors[e] EXCEPT !.meta = canvas'.meta] \in Copies
    BY <2>1 DEF TypeOK, Copies
  <2>3. editors' \in [Editors -> Copies]
    BY <1>3, <2>2 DEF Rename, TypeOK
  <2> QED BY <1>3, <2>1, <2>3 DEF Rename, TypeOK
<1>4. CASE Delete(e)
  <2>1. canvas' \in Canvases
    <3>1. canvas' = [canvas EXCEPT !.deleted = TRUE, !.meta = canvas.meta + 1]
      BY <1>4 DEF Delete
    <3>2. canvas.meta + 1 \in Nat
      BY CanvasFields
    <3> QED BY <3>1, <3>2, CanvasUpdates
  <2> QED BY <1>4, <2>1 DEF Delete, TypeOK
<1>5. ASSUME NEW p \in Projects, TransferProject(e, p)
      PROVE  TypeOK'
  <2>1. canvas' \in Canvases /\ canvas'.meta \in Nat
    <3>1. canvas' = [canvas EXCEPT !.project = p, !.meta = canvas.meta + 1]
      BY <1>5 DEF TransferProject
    <3>2. canvas.meta + 1 \in Nat
      BY CanvasFields
    <3> QED BY <3>1, <3>2, CanvasUpdates
  <2>2. [editors[e] EXCEPT !.meta = canvas'.meta] \in Copies
    BY <2>1 DEF TypeOK, Copies
  <2>3. editors' \in [Editors -> Copies]
    BY <1>5, <2>2 DEF TransferProject, TypeOK
  <2> QED BY <1>5, <2>1, <2>3 DEF TransferProject, TypeOK
<1> QED BY <1>1, <1>2, <1>3, <1>4, <1>5

(* So do the ends of tasks and the deletion of assets,                     *)
LEMMA TaskType ==
    ASSUME TypeOK, NEW r \in Runs, TaskEnds(r) \/ DeleteAssets(r)
    PROVE  TypeOK'
<1>1. CASE TaskEnds(r)
  <2>1. \A s \in {"succeeded", "failed"} :
            [tasks[r] EXCEPT !.state = s] \in Tasks
    BY DEF TypeOK, Tasks, TaskStates
  <2>2. PICK s \in {"succeeded", "failed"} :
            tasks' = [tasks EXCEPT ![r] = [tasks[r] EXCEPT !.state = s]]
    BY <1>1 DEF TaskEnds
  <2>3. tasks' \in [Runs -> Tasks]
    BY <2>1, <2>2 DEF TypeOK
  <2> QED BY <1>1, <2>3 DEF TaskEnds, TypeOK
<1>2. CASE DeleteAssets(r)
  BY <1>2 DEF DeleteAssets, TypeOK
<1> QED BY <1>1, <1>2

(* the beginnings of requests,                                             *)
LEMMA AskingType ==
    ASSUME TypeOK, NEW q \in Requests, NEW r \in Runs,
           Generate(q, r) \/ Refresh(q, r) \/ Recover(q, r)
    PROVE  TypeOK'
<1>1. CASE Generate(q, r)
  <2>1. [Doing("create", r) EXCEPT !.rev = canvas.rev, !.project = canvas.project,
                    !.draft = canvas.doc.nodes[NodeOf[r]]] \in Pending
    BY <1>1, CanvasFields DEF Generate, Doing, Pending
  <2>2. requests' \in [Requests -> {Idle} \cup Pending]
    BY <1>1, <2>1, TurnType DEF Generate
  <2> QED BY <1>1, <2>2 DEF Generate, TypeOK
<1>2. CASE Refresh(q, r)
  <2>1. tasks[r].state \in Statuses \cup {None}
    BY DEF TypeOK, Tasks, TaskStates, Statuses, Active
  <2>2. [Doing("record", r) EXCEPT !.to = tasks[r].state] \in Pending
    BY <2>1 DEF Doing, Pending
  <2>3. Doing("attach", r) \in Pending
    BY DoingType
  <2>4. requests' \in [Requests -> {Idle} \cup Pending]
    BY <1>2, <2>2, <2>3, TurnType DEF Refresh
  <2> QED BY <1>2, <2>4 DEF Refresh, TypeOK
<1>3. CASE Recover(q, r)
  <2>1. [Doing("place", r) EXCEPT !.recover = TRUE] \in Pending
    BY DEF Doing, Pending
  <2>2. requests' \in [Requests -> {Idle} \cup Pending]
    BY <1>3, <2>1, TurnType DEF Recover
  <2> QED BY <1>3, <2>2 DEF Recover, TypeOK
<1> QED BY <1>1, <1>2, <1>3

(* a cancellation, which also writes the state of the task,                *)
LEMMA CancelType ==
    ASSUME TypeOK, NEW q \in Requests, NEW r \in Runs, Cancel(q, r)
    PROVE  TypeOK'
<1>1. [Doing("record", r) EXCEPT !.to = "canceled"] \in Pending
  BY DEF Doing, Pending, Statuses
<1>2. requests' \in [Requests -> {Idle} \cup Pending]
  BY <1>1, TurnType DEF Cancel
<1>3. [tasks[r] EXCEPT !.state = "canceled"] \in Tasks
  BY DEF TypeOK, Tasks, TaskStates
<1>4. tasks' = tasks \/ tasks' = [tasks EXCEPT ![r] = [tasks[r] EXCEPT !.state = "canceled"]]
  BY DEF Cancel
<1>5. tasks' \in [Runs -> Tasks]
  BY <1>3, <1>4 DEF TypeOK
<1> QED BY <1>2, <1>5 DEF Cancel, TypeOK

(* the creation of a run, with its count on the canvas,                    *)
LEMMA CreateRunType ==
    ASSUME TypeOK, NEW q \in Requests, CreateRun(q)
    PROVE  TypeOK'
<1> DEFINE w == requests[q]
<1>1. w.run \in Runs /\ w \in Pending /\ w.draft \in Drafts \cup {None}
  BY RequestFields DEF CreateRun
<1>2. \/ Done(q) /\ UNCHANGED <<runs, canvas>>
      \/ /\ runs' = [runs EXCEPT ![w.run] = [status |-> "submitting", draft |-> w.draft, at |-> 0]]
         /\ canvas' = [canvas EXCEPT !.running = @ + 1]
         /\ Turn(q, [w EXCEPT !.step = "generate"])
  BY DEF CreateRun
<1>3. [w EXCEPT !.step = "generate"] \in Pending
  BY <1>1 DEF Pending
<1>4. requests' \in [Requests -> {Idle} \cup Pending]
  BY <1>2, <1>3, DoneType, TurnType
<1>5. [status |-> "submitting", draft |-> w.draft, at |-> 0] \in Rows
  BY <1>1 DEF Rows, Statuses, Active
<1>6. runs' \in [Runs -> Rows]
  BY <1>1, <1>2, <1>5 DEF TypeOK
<1>7. canvas' \in Canvases
  BY <1>2, CanvasFields DEF TypeOK, Canvases
<1> QED BY <1>4, <1>6, <1>7 DEF CreateRun, TypeOK

(* the creation of its task,                                               *)
LEMMA CreateTaskType ==
    ASSUME TypeOK, NEW q \in Requests, CreateTask(q)
    PROVE  TypeOK'
<1> DEFINE w == requests[q]
<1>1. w.run \in Runs /\ w \in Pending /\ w.project \in Projects \cup {None}
  BY RequestFields DEF CreateTask
<1>2. \/ /\ tasks' = [tasks EXCEPT ![w.run] =
                        [tasks[w.run] EXCEPT !.state = "running", !.project = w.project]]
         /\ made' = [made EXCEPT ![w.run] = @ + 1]
         /\ Turn(q, [w EXCEPT !.step = "record", !.to = "running"])
      \/ /\ Turn(q, [w EXCEPT !.step = "record", !.to = "failed"])
         /\ UNCHANGED <<tasks, made>>
  BY DEF CreateTask
<1>3. \A s \in {"running", "failed"} : [w EXCEPT !.step = "record", !.to = s] \in Pending
  BY <1>1 DEF Pending, Statuses, Active
<1>4. requests' \in [Requests -> {Idle} \cup Pending]
  BY <1>2, <1>3, TurnType
<1>5. [tasks[w.run] EXCEPT !.state = "running", !.project = w.project] \in Tasks
  BY <1>1 DEF TypeOK, Tasks, TaskStates
<1>6. tasks' \in [Runs -> Tasks]
  BY <1>1, <1>2, <1>5 DEF TypeOK
<1>7. made' \in [Runs -> Nat]
  BY <1>1, <1>2 DEF TypeOK
<1> QED BY <1>4, <1>6, <1>7 DEF CreateTask, TypeOK

(* the record of a status, with the counts it changes,                     *)
LEMMA UpdateRunType ==
    ASSUME TypeOK, NEW q \in Requests, UpdateRun(q)
    PROVE  TypeOK'
<1> DEFINE w == requests[q]
           left == runs[w.run].status \in Active /\ w.to \notin Active
<1>1. w.run \in Runs /\ w.to \in Statuses \cup {None}
  BY RequestFields DEF UpdateRun
<1>2. \/ Done(q) /\ UNCHANGED <<runs, canvas>>
      \/ /\ runs' = [runs EXCEPT ![w.run] = [runs[w.run] EXCEPT !.status = w.to]]
         /\ canvas' = [canvas EXCEPT !.running = CountDown(left),
                         !.failed = IF left /\ w.to = "failed" THEN canvas.failed + 1
                                    ELSE canvas.failed]
         /\ Turn(q, Doing("attach", w.run)) \/ Done(q)
  BY DEF UpdateRun
<1>3. requests' \in [Requests -> {Idle} \cup Pending]
  BY <1>1, <1>2, DoneType, DoingType, TurnType
<1>4. [runs[w.run] EXCEPT !.status = w.to] \in Rows
  BY <1>1 DEF TypeOK, Rows
<1>5. runs' \in [Runs -> Rows]
  BY <1>1, <1>2, <1>4 DEF TypeOK
<1>6. /\ CountDown(left) \in Nat
      /\ (IF left /\ w.to = "failed" THEN canvas.failed + 1 ELSE canvas.failed) \in Nat
  BY CanvasFields DEF CountDown
<1>7. canvas' \in Canvases
  <2> HIDE DEF left, w
  <2> QED BY <1>2, <1>6 DEF TypeOK, Canvases
<1> QED BY <1>3, <1>5, <1>7 DEF UpdateRun, TypeOK

(* the read before results are placed,                                     *)
LEMMA ReadCanvasType ==
    ASSUME TypeOK, NEW q \in Requests, ReadCanvas(q)
    PROVE  TypeOK'
<1> DEFINE w == requests[q]
<1>1. w \in Pending /\ canvas.rev \in Nat
  BY RequestFields, CanvasFields DEF ReadCanvas
<1>2. \A n \in Nat : [w EXCEPT !.step = "place", !.rev = n] \in Pending
  BY <1>1 DEF Pending
<1>3. Done(q) \/ \E n \in Nat : Turn(q, [w EXCEPT !.step = "place", !.rev = n])
  BY <1>1 DEF ReadCanvas
<1>4. requests' \in [Requests -> {Idle} \cup Pending]
  BY <1>2, <1>3, DoneType, TurnType
<1> QED BY <1>4 DEF ReadCanvas, TypeOK

(* What the transaction that places results may do.                        *)
LEMMA PlaceSteps ==
    ASSUME TypeOK, NEW q \in Requests, AttachResults(q)
    PROVE  LET w == requests[q]
               r == w.run
           IN  /\ r \in Runs /\ Done(q)
               /\ \/ UNCHANGED <<runs, canvas>>
                  \/ /\ Awaits(r, w)
                     /\ runs' = [runs EXCEPT ![r] = [runs[r] EXCEPT !.status = "unplaced"]]
                     /\ UNCHANGED canvas
                  \/ /\ Awaits(r, w) /\ Fits(r, w)
                     /\ \E room \in BOOLEAN :
                            canvas' = [canvas EXCEPT !.doc = WithResults(r, w, room),
                                                     !.rev = @ + 1]
                     /\ runs' = [runs EXCEPT ![r] = [runs[r] EXCEPT !.status = "attached",
                                                                    !.at = canvas'.rev]]
<1>1. requests[q].run \in Runs
  BY RequestFields DEF AttachResults
<1> QED BY <1>1 DEF AttachResults, TypeOK

(* and their placement.                                                    *)
LEMMA AttachResultsType ==
    ASSUME TypeOK, NEW q \in Requests, AttachResults(q)
    PROVE  TypeOK'
<1> DEFINE w == requests[q]
           r == w.run
<1>1. r \in Runs /\ requests' \in [Requests -> {Idle} \cup Pending]
  BY PlaceSteps, DoneType
<1>2. \A room \in BOOLEAN : WithResults(r, w, room) \in Documents
  BY <1>1, ResultsType
<1>3. canvas' \in Canvases
  BY <1>2, PlaceSteps, DocumentWritten DEF TypeOK
<1>4. [runs[r] EXCEPT !.status = "unplaced"] \in Rows
  BY <1>1 DEF TypeOK, Rows, Statuses, Placed
<1>5. [runs[r] EXCEPT !.status = "attached", !.at = canvas'.rev] \in Rows
  BY <1>1, <1>3 DEF TypeOK, Rows, Statuses, Placed, Canvases
<1>6. runs' \in [Runs -> Rows]
  BY <1>1, <1>4, <1>5, PlaceSteps DEF TypeOK
<1> QED BY <1>1, <1>3, <1>6 DEF AttachResults, TypeOK

(* Every step keeps the types.                                             *)
LEMMA NextType == TypeOK /\ [Next]_vars => TypeOK'
<1> SUFFICES ASSUME TypeOK, [Next]_vars PROVE TypeOK'
  OBVIOUS
<1>1. ASSUME NEW q \in Requests, Die(q) PROVE TypeOK'
  BY <1>1, DoneType DEF Die, TypeOK
<1>2. CASE UNCHANGED vars
  BY <1>2 DEF vars, TypeOK
<1>3. CASE Next
  BY <1>1, <1>3, EditingType, TaskType, AskingType, CancelType, CreateRunType, CreateTaskType,
     UpdateRunType, ReadCanvasType, AttachResultsType DEF Next, RequestSteps
<1> QED BY <1>2, <1>3
-----------------------------------------------------------------------------
(* What is on the canvas *)

(* What an update of a part of a document leaves of the others.            *)
LEMMA DocumentParts ==
    ASSUME NEW doc \in Documents
    PROVE  /\ \A n \in Nodes : \A v :
                  /\ [doc EXCEPT !.nodes[n] = v].beside = doc.beside
                  /\ \A m \in Nodes : [doc EXCEPT !.nodes[n] = v].nodes[m] =
                         IF m = n THEN v ELSE doc.nodes[m]
           /\ \A b : /\ [doc EXCEPT !.beside = b].beside = b
                     /\ [doc EXCEPT !.beside = b].nodes = doc.nodes
           /\ \A b : /\ [doc EXCEPT !.room = b].beside = doc.beside
                     /\ [doc EXCEPT !.room = b].nodes = doc.nodes
<1>1. ASSUME NEW n \in Nodes, NEW v
      PROVE  /\ [doc EXCEPT !.nodes[n] = v].beside = doc.beside
             /\ \A m \in Nodes : [doc EXCEPT !.nodes[n] = v].nodes[m] =
                    IF m = n THEN v ELSE doc.nodes[m]
  <2>1. [doc EXCEPT !.nodes[n] = v].nodes = [doc.nodes EXCEPT ![n] = v]
    BY DEF Documents
  <2>2. doc.nodes \in [Nodes -> {None} \cup Drafts \cup Runs]
    BY DEF Documents
  <2> QED BY <2>1, <2>2 DEF Documents
<1>2. ASSUME NEW b
      PROVE  /\ [doc EXCEPT !.beside = b].beside = b
             /\ [doc EXCEPT !.beside = b].nodes = doc.nodes
  BY DEF Documents
<1>3. ASSUME NEW b
      PROVE  /\ [doc EXCEPT !.room = b].beside = doc.beside
             /\ [doc EXCEPT !.room = b].nodes = doc.nodes
  BY DEF Documents
<1> QED BY <1>1, <1>2, <1>3

(* A node is empty, a draft or filled, never two of these.                 *)
LEMMA Disjoint == None \notin Runs /\ \A d \in Drafts : d \notin Runs
BY CanvasAssumption

(* A user takes results away and brings none: what an edited document      *)
(* shows, the one before it showed in the same place.                      *)
LEMMA EditsShow ==
    ASSUME NEW doc \in Documents, NEW new \in Edits(doc)
    PROVE  /\ new.beside \subseteq doc.beside
           /\ \A n \in Nodes : new.nodes[n] \in Runs => new.nodes[n] = doc.nodes[n]
           /\ Shown(new) \subseteq Shown(doc)
<1>1. /\ new.beside \subseteq doc.beside
      /\ \A n \in Nodes : new.nodes[n] \in Runs => new.nodes[n] = doc.nodes[n]
  <2>1. CASE new = doc
    BY <2>1
  <2>2. CASE \E n \in Nodes : new = [doc EXCEPT !.nodes[n] = None]
    BY <2>2, DocumentParts, Disjoint
  <2>3. CASE \E r \in Runs : new = [doc EXCEPT !.beside = @ \ {r}]
    <3>1. PICK r \in Runs : new = [doc EXCEPT !.beside = doc.beside \ {r}]
      BY <2>3
    <3> QED BY <3>1, DocumentParts
  <2>4. CASE \E p \in Nodes \X Drafts : new = [doc EXCEPT !.nodes[p[1]] = p[2]]
    <3>1. PICK n \in Nodes, d \in Drafts : new = [doc EXCEPT !.nodes[n] = d]
      BY <2>4
    <3> QED BY <3>1, DocumentParts, Disjoint
  <2>5. CASE \E b \in BOOLEAN : new = [doc EXCEPT !.room = b]
    BY <2>5, DocumentParts
  <2> QED BY <2>1, <2>2, <2>3, <2>4, <2>5 DEF Edits
<1> QED BY <1>1 DEF Shown

(* Placing results adds those of one run, in one place: in its node, or    *)
(* beside it; a recovery fills no node.                                    *)
LEMMA ResultsShow ==
    ASSUME TypeOK, NEW r \in Runs, NEW w, NEW room \in BOOLEAN
    PROVE  LET new == WithResults(r, w, room)
           IN  /\ Shown(new) \subseteq Shown(canvas.doc) \cup {r}
               /\ \A n \in Nodes : new.nodes[n] = canvas.doc.nodes[n] \/ new.nodes[n] = r
               /\ \/ new.beside = canvas.doc.beside
                  \/ /\ new.beside = canvas.doc.beside \cup {r}
                     /\ new.nodes = canvas.doc.nodes
               /\ \A n \in Nodes : new.nodes[n] # canvas.doc.nodes[n] => n = NodeOf[r] /\ ~w.recover
<1> DEFINE new == WithResults(r, w, room)
           b == canvas.doc.beside \cup {r}
<1>1. canvas.doc \in Documents /\ NodeOf[r] \in Nodes /\ b \in SUBSET Runs
  BY CanvasFields, CanvasAssumption DEF Documents
<1>2. \/ new = canvas.doc
      \/ new = [canvas.doc EXCEPT !.beside = b, !.room = room]
      \/ new = [canvas.doc EXCEPT !.nodes[NodeOf[r]] = r, !.room = room] /\ ~w.recover
  BY DEF WithResults
<1>3. /\ \A n \in Nodes : new.nodes[n] = canvas.doc.nodes[n] \/ new.nodes[n] = r
      /\ \/ new.beside = canvas.doc.beside
         \/ new.beside = b /\ new.nodes = canvas.doc.nodes
      /\ \A n \in Nodes : new.nodes[n] # canvas.doc.nodes[n] => n = NodeOf[r] /\ ~w.recover
  <2> HIDE DEF new, b
  <2>1. CASE new = canvas.doc
    BY <2>1
  <2>2. CASE new = [canvas.doc EXCEPT !.beside = b, !.room = room]
    <3>1. [canvas.doc EXCEPT !.beside = b] \in Documents
      BY <1>1, DocumentUpdates
    <3>2. new = [[canvas.doc EXCEPT !.beside = b] EXCEPT !.room = room]
      BY <1>1, <2>2 DEF Documents
    <3>3. new.beside = b /\ new.nodes = canvas.doc.nodes
      BY <1>1, <3>1, <3>2, DocumentParts
    <3> QED BY <3>3
  <2>3. CASE new = [canvas.doc EXCEPT !.nodes[NodeOf[r]] = r, !.room = room] /\ ~w.recover
    <3>1. /\ new.beside = canvas.doc.beside
          /\ \A n \in Nodes : new.nodes[n] = IF n = NodeOf[r] THEN r ELSE canvas.doc.nodes[n]
      <4> DEFINE doc == canvas.doc
                 k == NodeOf[r]
      <4>1. doc \in Documents /\ k \in Nodes /\ new = [doc EXCEPT !.nodes[k] = r, !.room = room]
        BY <1>1, <2>3
      <4> HIDE DEF doc, k
      <4> DEFINE filled == [doc EXCEPT !.nodes[k] = r]
      <4>2. filled \in Documents /\ new = [filled EXCEPT !.room = room]
        BY <4>1, DocumentUpdates DEF Documents
      <4>3. /\ filled.beside = doc.beside
            /\ \A n \in Nodes : filled.nodes[n] = IF n = k THEN r ELSE doc.nodes[n]
        BY <4>1, DocumentParts
      <4> HIDE DEF filled
      <4>4. new.beside = filled.beside /\ new.nodes = filled.nodes
        BY <4>2, DocumentParts
      <4>5. /\ new.beside = doc.beside
            /\ \A n \in Nodes : new.nodes[n] = IF n = k THEN r ELSE doc.nodes[n]
        BY <4>3, <4>4
      <4> QED BY <4>5 DEF doc, k
    <3> QED BY <2>3, <3>1
  <2> QED BY <1>2, <2>1, <2>2, <2>3
<1>4. Shown(new) \subseteq Shown(canvas.doc) \cup {r}
  <2> HIDE DEF new
  <2> QED BY <1>3 DEF Shown
<1> QED BY <1>3, <1>4

(* An editor's copy is of a revision up to the present one, and with the   *)
(* present revision it is the present document.                            *)
CopiesAreOld ==
    \A e \in Editors :
        /\ editors[e].rev <= canvas.rev
        /\ editors[e].rev = canvas.rev => editors[e].doc = canvas.doc

(* Only the results of attached runs have ever been on the canvas.         *)
ShownIsAttached ==
    \A r \in Shown(canvas.doc) \cup dropped : runs[r].status = "attached"

PlaceInv == CopiesAreOld /\ ShownIsAttached /\ PlacedOnce

(* The effects of a step on the document: a user edits it, results are     *)
(* placed, or it stays.  Runs that are attached stay as they are.          *)
Edited ==
    \E e \in Editors : \E doc \in Edits(editors[e].doc) :
        /\ editors[e].rev = canvas.rev
        /\ canvas' = [canvas EXCEPT !.doc = doc, !.rev = @ + 1]
        /\ dropped' = dropped \cup (Shown(editors[e].doc) \ Shown(doc))
        /\ editors' = [editors EXCEPT ![e] = CopyOf(canvas')]
        /\ UNCHANGED runs
ResultsPlaced ==
    \E r \in Runs, w \in Pending, room \in BOOLEAN :
        /\ Awaits(r, w) /\ Fits(r, w)
        /\ canvas' = [canvas EXCEPT !.doc = WithResults(r, w, room), !.rev = @ + 1]
        /\ runs' = [runs EXCEPT ![r] = [runs[r] EXCEPT !.status = "attached",
                                                       !.at = canvas'.rev]]
        /\ UNCHANGED <<dropped, editors>>
DocumentStays ==
    /\ canvas'.doc = canvas.doc /\ canvas'.rev = canvas.rev /\ UNCHANGED dropped
    /\ \A e \in Editors :
           \/ editors'[e].rev = editors[e].rev /\ editors'[e].doc = editors[e].doc
           \/ editors'[e].rev = canvas.rev /\ editors'[e].doc = canvas.doc
    /\ \A r \in Runs : runs[r].status = "attached" => runs'[r] = runs[r]

(* Of the steps of an editor only a save changes the document.             *)
LEMMA EditingSteps ==
    ASSUME TypeOK, NEW e \in Editors,
           \/ Load(e) \/ Save(e) \/ Rename(e) \/ Delete(e)
           \/ \E p \in Projects : TransferProject(e, p)
    PROVE  Edited \/ DocumentStays
<1>1. CASE Load(e)
  <2>1. \A f \in Editors : editors'[f] = editors[f] \/ editors'[f] = CopyOf(canvas)
    BY <1>1 DEF Load, TypeOK
  <2> QED BY <1>1, <2>1, CanvasFields DEF Load, DocumentStays
<1>2. CASE Save(e)
  BY <1>2 DEF Save, IsCurrent, Edited
<1>3. CASE Delete(e)
  <2>1. canvas' = [canvas EXCEPT !.deleted = TRUE, !.meta = canvas.meta + 1]
    BY <1>3 DEF Delete
  <2>2. canvas'.doc = canvas.doc /\ canvas'.rev = canvas.rev
    BY <2>1 DEF TypeOK, Canvases
  <2> QED BY <1>3, <2>2 DEF Delete, DocumentStays
<1>4. ASSUME Rename(e) \/ \E p \in Projects : TransferProject(e, p)
      PROVE  DocumentStays
  <2>1. canvas'.doc = canvas.doc /\ canvas'.rev = canvas.rev
    <3>1. \/ canvas' = [canvas EXCEPT !.meta = canvas.meta + 1]
          \/ \E p \in Projects : canvas' = [canvas EXCEPT !.project = p, !.meta = canvas.meta + 1]
      BY <1>4 DEF Rename, TransferProject
    <3> QED BY <3>1 DEF TypeOK, Canvases
  <2>2. editors' = [editors EXCEPT ![e] = [editors[e] EXCEPT !.meta = canvas'.meta]]
    BY <1>4 DEF Rename, TransferProject
  <2>3. editors[e] \in Copies
    BY DEF TypeOK
  <2>4. /\ [editors[e] EXCEPT !.meta = canvas'.meta].rev = editors[e].rev
        /\ [editors[e] EXCEPT !.meta = canvas'.meta].doc = editors[e].doc
    BY <2>3 DEF Copies
  <2>5. \A f \in Editors : editors'[f].rev = editors[f].rev /\ editors'[f].doc = editors[f].doc
    BY <2>2, <2>4 DEF TypeOK
  <2>6. UNCHANGED <<runs, dropped>>
    BY <1>4 DEF Rename, TransferProject
  <2> QED BY <2>1, <2>5, <2>6 DEF DocumentStays
<1> QED BY <1>1, <1>2, <1>3, <1>4

(* The creation of a run counts it, and leaves the document alone.         *)
LEMMA CreateRunSteps ==
    ASSUME TypeOK, NEW q \in Requests, CreateRun(q)
    PROVE  DocumentStays
<1> DEFINE w == requests[q]
<1>1. w.run \in Runs
  BY RequestFields DEF CreateRun
<1>2. \/ UNCHANGED <<runs, canvas>>
      \/ /\ IsNew(w.run)
         /\ runs' = [runs EXCEPT ![w.run] = [status |-> "submitting", draft |-> w.draft, at |-> 0]]
         /\ canvas' = [canvas EXCEPT !.running = canvas.running + 1]
  BY DEF CreateRun
<1>3. canvas'.doc = canvas.doc /\ canvas'.rev = canvas.rev
  BY <1>2 DEF TypeOK, Canvases
<1>4. \A r \in Runs : runs[r].status = "attached" => runs'[r] = runs[r]
  BY <1>1, <1>2 DEF IsNew, None, TypeOK
<1>5. UNCHANGED <<dropped, editors>>
  BY DEF CreateRun
<1> QED BY <1>3, <1>4, <1>5 DEF DocumentStays

(* So does the record of a status, which spares what is placed.            *)
LEMMA UpdateRunSteps ==
    ASSUME TypeOK, NEW q \in Requests, UpdateRun(q)
    PROVE  DocumentStays
<1> DEFINE w == requests[q]
<1>1. w.run \in Runs
  BY RequestFields DEF UpdateRun
<1>2. \/ UNCHANGED <<runs, canvas>>
      \/ /\ Records(w.run)
         /\ runs' = [runs EXCEPT ![w.run] = [runs[w.run] EXCEPT !.status = w.to]]
         /\ \E c, f : canvas' = [canvas EXCEPT !.running = c, !.failed = f]
  BY DEF UpdateRun
<1>3. canvas'.doc = canvas.doc /\ canvas'.rev = canvas.rev
  BY <1>2 DEF TypeOK, Canvases
<1>4. \A r \in Runs : runs[r].status = "attached" => runs'[r] = runs[r]
  BY <1>1, <1>2 DEF Records, Placed, TypeOK
<1>5. UNCHANGED <<dropped, editors>>
  BY DEF UpdateRun
<1> QED BY <1>3, <1>4, <1>5 DEF DocumentStays

(* The placement of results places those of a run that awaits them, or     *)
(* changes at most its status.                                             *)
LEMMA AttachSteps ==
    ASSUME TypeOK, NEW q \in Requests, AttachResults(q)
    PROVE  ResultsPlaced \/ DocumentStays
<1> DEFINE w == requests[q]
           r == w.run
<1>1. r \in Runs /\ w \in Pending
  BY RequestFields DEF AttachResults
<1>2. UNCHANGED <<dropped, editors>>
  BY DEF AttachResults
<1>3. CASE UNCHANGED <<runs, canvas>>
  BY <1>2, <1>3 DEF DocumentStays
<1>4. CASE /\ Awaits(r, w)
           /\ runs' = [runs EXCEPT ![r] = [runs[r] EXCEPT !.status = "unplaced"]]
           /\ UNCHANGED canvas
  <2>1. runs[r].status # "attached"
    BY <1>4 DEF Awaits
  <2>2. \A s \in Runs : runs[s].status = "attached" => runs'[s] = runs[s]
    <3> HIDE DEF r, w
    <3> QED BY <1>1, <1>4, <2>1 DEF TypeOK
  <2> QED BY <1>2, <1>4, <2>2 DEF DocumentStays
<1>5. CASE /\ Awaits(r, w) /\ Fits(r, w)
           /\ \E room \in BOOLEAN :
                  canvas' = [canvas EXCEPT !.doc = WithResults(r, w, room), !.rev = @ + 1]
           /\ runs' = [runs EXCEPT ![r] = [runs[r] EXCEPT !.status = "attached",
                                                          !.at = canvas'.rev]]
  BY <1>1, <1>2, <1>5 DEF ResultsPlaced
<1> QED BY <1>3, <1>4, <1>5, PlaceSteps

(* Every step has one of the three effects.                                *)
LEMMA DocumentSteps ==
    ASSUME TypeOK, [Next]_vars
    PROVE  Edited \/ ResultsPlaced \/ DocumentStays
<1>1. CASE UNCHANGED vars
  BY <1>1 DEF vars, DocumentStays
<1>2. CASE \E q \in Requests :
               \/ CreateTask(q) \/ ReadCanvas(q) \/ Die(q)
               \/ \E r \in Runs : Generate(q, r) \/ Refresh(q, r) \/ Cancel(q, r) \/ Recover(q, r)
  BY <1>2 DEF CreateTask, ReadCanvas, Die, Generate, Refresh, Cancel, Recover, DocumentStays
<1>3. CASE \E r \in Runs : TaskEnds(r) \/ DeleteAssets(r)
  BY <1>3 DEF TaskEnds, DeleteAssets, DocumentStays
<1>4. CASE Next
  BY <1>2, <1>3, <1>4, EditingSteps, CreateRunSteps, UpdateRunSteps, AttachSteps
     DEF Next, RequestSteps
<1> QED BY <1>1, <1>4
-----------------------------------------------------------------------------
(* Results are placed once *)

(* A new canvas shows no results.                                          *)
LEMMA InitPlace == Init => PlaceInv
<1> SUFFICES ASSUME Init PROVE PlaceInv
  OBVIOUS
<1>1. TypeOK
  BY InitType
<1>2. CopiesAreOld
  <2>1. \A e \in Editors : editors[e] = CopyOf(canvas)
    BY DEF Init
  <2> QED BY <1>1, <2>1, CanvasFields DEF CopiesAreOld
<1>3. /\ canvas.doc = [nodes |-> [n \in Nodes |-> Template], beside |-> {}, room |-> TRUE]
      /\ dropped = {}
  BY DEF Init
<1>4. Shown(canvas.doc) = {}
  BY <1>3, CanvasAssumption, Disjoint DEF Shown
<1> QED BY <1>2, <1>3, <1>4 DEF PlaceInv, ShownIsAttached, PlacedOnce

(* A save keeps it: the copy it was made from is the present document.     *)
LEMMA EditedPlace ==
    ASSUME TypeOK, PlaceInv, Edited
    PROVE  PlaceInv'
<1>1. PICK e \in Editors : \E doc \in Edits(editors[e].doc) :
          /\ editors[e].rev = canvas.rev
          /\ canvas' = [canvas EXCEPT !.doc = doc, !.rev = @ + 1]
          /\ dropped' = dropped \cup (Shown(editors[e].doc) \ Shown(doc))
          /\ editors' = [editors EXCEPT ![e] = CopyOf(canvas')]
          /\ UNCHANGED runs
  BY DEF Edited
<1>2. editors[e].doc = canvas.doc /\ editors[e].rev = canvas.rev
  BY <1>1 DEF PlaceInv, CopiesAreOld
<1>3. PICK doc \in Edits(canvas.doc) :
          /\ canvas' = [canvas EXCEPT !.doc = doc, !.rev = @ + 1]
          /\ dropped' = dropped \cup (Shown(canvas.doc) \ Shown(doc))
          /\ editors' = [editors EXCEPT ![e] = CopyOf(canvas')]
          /\ UNCHANGED runs
  BY <1>1, <1>2
<1>4. canvas.doc \in Documents /\ doc \in Documents
  BY <1>3, CanvasFields, EditsType
<1>5. /\ canvas'.doc = doc /\ canvas'.rev = canvas.rev + 1
      /\ CopyOf(canvas').doc = doc /\ CopyOf(canvas').rev = canvas'.rev
  BY <1>3, <1>4, DocumentWritten
<1>6. /\ doc.beside \subseteq canvas.doc.beside /\ Shown(doc) \subseteq Shown(canvas.doc)
      /\ \A n \in Nodes : doc.nodes[n] \in Runs => doc.nodes[n] = canvas.doc.nodes[n]
  BY <1>3, <1>4, EditsShow
<1>7. CopiesAreOld'
  <2>1. \A f \in Editors : editors'[f] = editors[f] \/ editors'[f] = CopyOf(canvas')
    BY <1>3 DEF TypeOK
  <2>2. \A f \in Editors : editors[f].rev \in Nat /\ editors[f].rev <= canvas.rev
    BY DEF TypeOK, Copies, PlaceInv, CopiesAreOld
  <2>3. canvas.rev \in Nat
    BY CanvasFields
  <2> QED BY <1>5, <2>1, <2>2, <2>3 DEF CopiesAreOld
<1>8. ShownIsAttached'
  <2>1. Shown(canvas'.doc) \cup dropped' \subseteq Shown(canvas.doc) \cup dropped
    BY <1>3, <1>5, <1>6
  <2> QED BY <1>3, <2>1 DEF ShownIsAttached, PlaceInv
<1>9. PlacedOnce'
  <2> SUFFICES ASSUME NEW r \in Shown(doc)
               PROVE  /\ r \notin dropped'
                      /\ r \in doc.beside => \A n \in Nodes : doc.nodes[n] # r
    BY <1>5 DEF PlacedOnce
  <2>1. r \in Shown(canvas.doc) /\ r \notin dropped
    BY <1>6 DEF PlaceInv, PlacedOnce
  <2>2. r \in canvas.doc.beside => \A n \in Nodes : canvas.doc.nodes[n] # r
    BY <2>1 DEF PlaceInv, PlacedOnce
  <2>3. r \in Runs
    BY <1>4 DEF Shown, Documents
  <2> QED BY <1>3, <1>6, <2>1, <2>2, <2>3
<1> QED BY <1>7, <1>8, <1>9 DEF PlaceInv

(* Placing keeps it: results that are placed were nowhere before, as their *)
(* run was not attached.                                                   *)
LEMMA PlacedPlace ==
    ASSUME TypeOK, PlaceInv, ResultsPlaced
    PROVE  PlaceInv'
<1>1. PICK r \in Runs, w \in Pending, room \in BOOLEAN :
          /\ Awaits(r, w) /\ Fits(r, w)
          /\ canvas' = [canvas EXCEPT !.doc = WithResults(r, w, room), !.rev = @ + 1]
          /\ runs' = [runs EXCEPT ![r] = [runs[r] EXCEPT !.status = "attached",
                                                         !.at = canvas'.rev]]
          /\ UNCHANGED <<dropped, editors>>
  BY DEF ResultsPlaced
<1> DEFINE new == WithResults(r, w, room)
<1>2. new \in Documents
  BY ResultsType
<1>3. canvas'.doc = new /\ canvas'.rev = canvas.rev + 1
  BY <1>1, <1>2, DocumentWritten
<1>4. /\ Shown(new) \subseteq Shown(canvas.doc) \cup {r}
      /\ \A n \in Nodes : new.nodes[n] = canvas.doc.nodes[n] \/ new.nodes[n] = r
      /\ \/ new.beside = canvas.doc.beside
         \/ /\ new.beside = canvas.doc.beside \cup {r}
            /\ new.nodes = canvas.doc.nodes
  BY ResultsShow
<1> HIDE DEF new
<1>5. runs[r].status # "attached"
  BY <1>1 DEF Awaits
<1>6. r \notin Shown(canvas.doc) /\ r \notin dropped
  BY <1>5 DEF PlaceInv, ShownIsAttached
<1>7. CopiesAreOld'
  <2>1. \A f \in Editors : editors[f].rev \in Nat /\ editors[f].rev <= canvas.rev
    BY DEF TypeOK, Copies, PlaceInv, CopiesAreOld
  <2>2. canvas.rev \in Nat
    BY CanvasFields
  <2> QED BY <1>1, <1>3, <2>1, <2>2 DEF CopiesAreOld
<1>8. ShownIsAttached'
  <2>1. runs[r] \in Rows
    BY DEF TypeOK
  <2>2. runs'[r].status = "attached"
    BY <1>1, <2>1 DEF TypeOK, Rows
  <2>3. \A s \in Runs : s # r => runs'[s] = runs[s]
    BY <1>1 DEF TypeOK
  <2>4. \A s \in Shown(canvas.doc) \cup dropped : s # r /\ s \in Runs /\ runs[s].status = "attached"
    BY <1>6, CanvasFields DEF PlaceInv, ShownIsAttached, TypeOK, Shown, Documents
  <2> QED BY <1>1, <1>3, <1>4, <2>2, <2>3, <2>4 DEF ShownIsAttached
<1>9. PlacedOnce'
  <2> SUFFICES ASSUME NEW s \in Shown(new)
               PROVE  /\ s \notin dropped
                      /\ s \in new.beside => \A n \in Nodes : new.nodes[n] # s
    BY <1>1, <1>3 DEF PlacedOnce
  <2>1. CASE s = r
    <3>1. r \notin canvas.doc.beside /\ \A n \in Nodes : canvas.doc.nodes[n] # r
      BY <1>6 DEF Shown
    <3> QED BY <1>4, <1>6, <2>1, <3>1
  <2>2. CASE s # r
    <3>1. s \in Shown(canvas.doc)
      BY <1>4, <2>2
    <3>2. /\ s \notin dropped
          /\ s \in canvas.doc.beside => \A n \in Nodes : canvas.doc.nodes[n] # s
      BY <3>1 DEF PlaceInv, PlacedOnce
    <3> QED BY <1>4, <2>2, <3>2
  <2> QED BY <2>1, <2>2
<1> QED BY <1>7, <1>8, <1>9 DEF PlaceInv

(* Whoever leaves the document alone keeps it too.                         *)
LEMMA StaysPlace ==
    ASSUME TypeOK, PlaceInv, DocumentStays
    PROVE  PlaceInv'
<1>1. CopiesAreOld'
  BY CanvasFields DEF DocumentStays, PlaceInv, CopiesAreOld
<1>2. \A r \in Shown(canvas.doc) \cup dropped : r \in Runs
  BY CanvasFields DEF TypeOK, Shown, Documents
<1>3. ShownIsAttached'
  BY <1>2 DEF DocumentStays, PlaceInv, ShownIsAttached
<1>4. PlacedOnce'
  BY DEF DocumentStays, PlaceInv, PlacedOnce
<1> QED BY <1>1, <1>3, <1>4 DEF PlaceInv

(* Every step keeps what is known of the places.                           *)
LEMMA NextPlace == TypeOK /\ PlaceInv /\ [Next]_vars => PlaceInv'
BY DocumentSteps, EditedPlace, PlacedPlace, StaysPlace

(* Every row, copy and request of a canvas is well formed.                 *)
THEOREM CanvasTyped == Spec => []TypeOK
BY InitType, NextType, PTL DEF Spec

(* Results stand in one place, and none that a user took away comes back,  *)
(* for any number of refreshes, recoveries and saves of any age.           *)
THEOREM PlacedOnceHolds == Spec => []PlacedOnce
<1>1. PlaceInv => PlacedOnce
  BY DEF PlaceInv
<1> QED BY <1>1, CanvasTyped, InitPlace, NextPlace, PTL DEF Spec

-----------------------------------------------------------------------------
(* Edits survive, attachments stay *)

(* A node that is filled held the draft of the run that fills it.          *)
LEMMA EditsSurviveStep ==
    ASSUME TypeOK, PlaceInv, [Next]_vars
    PROVE  \A n \in Nodes :
               LET new == canvas'.doc.nodes[n]
               IN  new \in Runs /\ new # canvas.doc.nodes[n]
                   => canvas.doc.nodes[n] = runs[new].draft
<1>1. CASE DocumentStays
  BY <1>1 DEF DocumentStays
<1>2. CASE Edited
  <2>1. PICK e \in Editors : \E doc \in Edits(editors[e].doc) :
            /\ editors[e].rev = canvas.rev
            /\ canvas' = [canvas EXCEPT !.doc = doc, !.rev = @ + 1]
    BY <1>2 DEF Edited
  <2>2. editors[e].doc = canvas.doc
    BY <2>1 DEF PlaceInv, CopiesAreOld
  <2>3. PICK doc \in Edits(canvas.doc) : canvas' = [canvas EXCEPT !.doc = doc, !.rev = @ + 1]
    BY <2>1, <2>2
  <2>4. canvas.doc \in Documents /\ doc \in Documents
    BY <2>3, CanvasFields, EditsType
  <2>5. canvas'.doc = doc
    BY <2>3, <2>4, DocumentWritten
  <2> QED BY <2>3, <2>4, <2>5, EditsShow
<1>3. CASE ResultsPlaced
  <2>1. PICK r \in Runs, w \in Pending, room \in BOOLEAN :
            /\ Fits(r, w)
            /\ canvas' = [canvas EXCEPT !.doc = WithResults(r, w, room), !.rev = @ + 1]
    BY <1>3 DEF ResultsPlaced
  <2>2. canvas'.doc = WithResults(r, w, room)
    BY <2>1, ResultsType, DocumentWritten
  <2>3. ASSUME NEW n \in Nodes, canvas'.doc.nodes[n] # canvas.doc.nodes[n]
        PROVE  canvas'.doc.nodes[n] = r /\ n = NodeOf[r] /\ ~w.recover
    BY <2>2, <2>3, ResultsShow
  <2> QED BY <2>1, <2>3 DEF Fits, Attachable
<1> QED BY <1>1, <1>2, <1>3, DocumentSteps

(* What a user has changed is not overwritten by results: a save between   *)
(* the read and the placement moves the revision on.                       *)
THEOREM EditsSurviveHolds == Spec => EditsSurvive
<1>1. TypeOK /\ PlaceInv /\ [Next]_vars =>
          [\A n \in Nodes :
              LET new == canvas'.doc.nodes[n]
              IN  new \in Runs /\ new # canvas.doc.nodes[n]
                  => canvas.doc.nodes[n] = runs[new].draft]_vars
  BY EditsSurviveStep
<1> QED BY <1>1, CanvasTyped, InitPlace, NextPlace, PTL DEF Spec, EditsSurvive
(* A run that is attached is written by nobody: UpdateRun records over no  *)
(* placed run, and results are placed for runs that await them.            *)
THEOREM AttachedForGoodHolds == Spec => AttachedForGood
<1> DEFINE Kept == \A r \in Runs : runs[r].status = "attached" => runs'[r] = runs[r]
<1>1. TypeOK /\ [Next]_vars => Kept
  <2> SUFFICES ASSUME TypeOK, [Next]_vars PROVE Kept
    OBVIOUS
  <2>1. CASE Edited \/ DocumentStays
    BY <2>1 DEF Edited, DocumentStays
  <2>2. CASE ResultsPlaced
    <3>1. PICK r \in Runs, w \in Pending :
              /\ Awaits(r, w)
              /\ runs' = [runs EXCEPT ![r] = [runs[r] EXCEPT !.status = "attached",
                                                             !.at = canvas'.rev]]
      BY <2>2 DEF ResultsPlaced
    <3> QED BY <3>1 DEF Awaits, TypeOK
  <2> QED BY <2>1, <2>2, DocumentSteps
<1>2. TypeOK /\ [Next]_vars => [Kept]_vars
  BY <1>1
<1> QED BY <1>2, CanvasTyped, PTL DEF Spec, AttachedForGood

-----------------------------------------------------------------------------
(* One task for one click *)

Generating(q, r) == requests[q].step = "generate" /\ requests[q].run = r

(* At most one request is about to make the task of a run, and none is     *)
(* made yet.                                                               *)
OneGenerates ==
    \A q \in Requests, r \in Runs :
        Generating(q, r) =>
            /\ runs[r].status # None /\ made[r] = 0
            /\ \A p \in Requests : Generating(p, r) => p = q

NewIsUnmade == \A r \in Runs : runs[r].status = None => made[r] = 0

(* A run that is running has a task, and what a request is about to record *)
(* does not make a run look new.                                           *)
RunningHasTask == \A r \in Runs : runs[r].status = "running" => tasks[r].state # None
RecordsAreReal ==
    \A q \in Requests : requests[q].step = "record" =>
        LET r == requests[q].run
        IN  /\ requests[q].to # None /\ runs[r].status # None
            /\ requests[q].to = "running" => tasks[r].state # None

ClickInv ==
    OneGenerates /\ NewIsUnmade /\ RunningHasTask /\ RecordsAreReal /\ OneTaskPerClick

(* Steps that begin no task: no run becomes new or is created.             *)
StatusKept(r) ==
    \/ runs'[r].status = runs[r].status
    \/ /\ runs[r].status # None /\ runs'[r].status # None
       /\ runs'[r].status = "running" => tasks[r].state # None
RequestKept(q) ==
    \/ requests'[q] = requests[q]
    \/ requests'[q].step \notin {"generate", "record"}
    \/ /\ requests'[q].step = "record" /\ requests'[q].run \in Runs
       /\ requests'[q].to # None
       /\ runs[requests'[q].run].status # None /\ tasks[requests'[q].run].state # None
Calm ==
    /\ UNCHANGED made
    /\ \A r \in Runs : StatusKept(r)
    /\ \A r \in Runs : tasks[r].state # None => tasks'[r].state # None
    /\ \A q \in Requests : RequestKept(q)

(* No run, no task and no request at the start.                            *)
LEMMA InitClick == Init => ClickInv
BY DEF Init, ClickInv, OneGenerates, NewIsUnmade, RunningHasTask, RecordsAreReal,
       OneTaskPerClick, Generating, Idle, NoRow, NoTask, None

(* What is recorded is recorded for a run.                                 *)
LEMMA RunOfRecord ==
    ASSUME TypeOK
    PROVE  \A q \in Requests : requests[q].step = "record" => requests[q].run \in Runs
BY RequestFields

(* Steps that begin no task keep the invariant.                            *)
LEMMA CalmClick ==
    ASSUME TypeOK, ClickInv, Calm
    PROVE  ClickInv'
<1>1. \A r \in Runs : runs'[r].status = None => runs[r].status = None
  BY DEF Calm, StatusKept
<1>2. \A r \in Runs : runs[r].status # None => runs'[r].status # None
  BY <1>1
<1>3. \A q \in Requests, r \in Runs : Generating(q, r)' => Generating(q, r)
  BY DEF Calm, RequestKept, Generating
<1>4. OneGenerates'
  BY <1>2, <1>3 DEF Calm, ClickInv, OneGenerates
<1>5. NewIsUnmade' /\ OneTaskPerClick'
  BY <1>1 DEF Calm, ClickInv, NewIsUnmade, OneTaskPerClick
<1>6. RunningHasTask'
  BY DEF Calm, StatusKept, ClickInv, RunningHasTask
<1>7. RecordsAreReal'
  <2> SUFFICES ASSUME NEW q \in Requests, requests'[q].step = "record"
               PROVE  LET r == requests'[q].run
                      IN  /\ requests'[q].to # None /\ runs'[r].status # None
                          /\ requests'[q].to = "running" => tasks'[r].state # None
    BY DEF RecordsAreReal
  <2>1. CASE requests'[q] = requests[q]
    <3>1. requests[q].run \in Runs
      BY <2>1, RunOfRecord
    <3> QED BY <1>2, <2>1, <3>1 DEF ClickInv, RecordsAreReal, Calm
  <2>2. CASE requests'[q] # requests[q]
    BY <1>2, <2>2 DEF Calm, RequestKept
  <2> QED BY <2>1, <2>2
<1> QED BY <1>4, <1>5, <1>6, <1>7 DEF ClickInv

(* The ends of tasks and the deletion of assets are such steps,            *)
LEMMA TaskCalm ==
    ASSUME TypeOK, NEW r \in Runs, TaskEnds(r) \/ DeleteAssets(r)
    PROVE  Calm
<1>1. UNCHANGED <<runs, made, requests>>
  BY DEF TaskEnds, DeleteAssets
<1>2. \A s \in Runs : tasks[s].state # None => tasks'[s].state # None
  <2>1. CASE DeleteAssets(r)
    BY <2>1 DEF DeleteAssets
  <2>2. CASE TaskEnds(r)
    <3>1. PICK s \in {"succeeded", "failed"} :
              tasks' = [tasks EXCEPT ![r] = [tasks[r] EXCEPT !.state = s]]
      BY <2>2 DEF TaskEnds
    <3>2. [tasks[r] EXCEPT !.state = s].state = s
      BY DEF TypeOK
    <3> QED BY <3>1, <3>2 DEF TypeOK, None
  <2> QED BY <2>1, <2>2
<1> QED BY <1>1, <1>2 DEF Calm, StatusKept, RequestKept

(* The others are as they were when one request goes on.                   *)
LEMMA TurnKeeps ==
    ASSUME TypeOK, NEW q \in Requests, NEW next, Turn(q, next)
    PROVE  requests'[q] = next /\ \A p \in Requests : p # q => requests'[p] = requests[p]
BY DEF Turn, TypeOK

(* and the beginnings of requests: a refresh or a cancellation looks at    *)
(* runs that are running, which have a task,                               *)
LEMMA AskingCalm ==
    ASSUME TypeOK, ClickInv, NEW q \in Requests, NEW r \in Runs,
           Generate(q, r) \/ Refresh(q, r) \/ Cancel(q, r) \/ Recover(q, r)
    PROVE  Calm
<1>1. UNCHANGED <<runs, made>>
  BY DEF Generate, Refresh, Cancel, Recover
<1>2. \A s \in Runs : tasks[s].state # None => tasks'[s].state # None
  <2>1. tasks' = tasks \/ tasks' = [tasks EXCEPT ![r] = [tasks[r] EXCEPT !.state = "canceled"]]
    BY DEF Generate, Refresh, Cancel, Recover
  <2> QED BY <2>1 DEF TypeOK, Tasks, None
<1>3. RequestKept(q) /\ \A p \in Requests : p # q => requests'[p] = requests[p]
  <2>1. CASE Generate(q, r)
    <3>1. [Doing("create", r) EXCEPT !.rev = canvas.rev, !.project = canvas.project,
                    !.draft = canvas.doc.nodes[NodeOf[r]]].step = "create"
      BY DEF Doing
    <3> QED BY <2>1, <3>1, TurnKeeps DEF Generate, RequestKept
  <2>2. CASE Recover(q, r)
    <3>1. [Doing("place", r) EXCEPT !.recover = TRUE].step = "place"
      BY DEF Doing
    <3> QED BY <2>2, <3>1, TurnKeeps DEF Recover, RequestKept
  <2>3. ASSUME NEW to, to # None, runs[r].status = "running",
               Turn(q, [Doing("record", r) EXCEPT !.to = to])
        PROVE  RequestKept(q) /\ \A p \in Requests : p # q => requests'[p] = requests[p]
    <3>1. LET w == [Doing("record", r) EXCEPT !.to = to]
          IN  w.step = "record" /\ w.run = r /\ w.to = to
      BY DEF Doing
    <3>2. tasks[r].state # None /\ runs[r].status # None
      BY <2>3 DEF ClickInv, RunningHasTask, None
    <3> QED BY <2>3, <3>1, <3>2, TurnKeeps DEF RequestKept
  <2>4. CASE Refresh(q, r)
    <3>1. CASE Turn(q, Doing("attach", r))
      BY <3>1, DoingType, TurnKeeps DEF RequestKept
    <3>2. CASE runs[r].status = "running" /\ Turn(q, [Doing("record", r) EXCEPT !.to = tasks[r].state])
      <4>1. tasks[r].state # None
        BY <3>2 DEF ClickInv, RunningHasTask
      <4> QED BY <2>3, <3>2, <4>1
    <3> QED BY <2>4, <3>1, <3>2 DEF Refresh
  <2>5. CASE Cancel(q, r)
    BY <2>3, <2>5 DEF Cancel, None
  <2> QED BY <2>1, <2>2, <2>4, <2>5
<1> QED BY <1>1, <1>2, <1>3 DEF Calm, StatusKept, RequestKept

(* and the record of a status: never that of a run which looks new,        *)
LEMMA UpdateRunCalm ==
    ASSUME TypeOK, ClickInv, NEW q \in Requests, UpdateRun(q)
    PROVE  Calm
<1> DEFINE w == requests[q]
<1>1. w.run \in Runs
  BY RequestFields DEF UpdateRun
<1>2. w.to # None /\ runs[w.run].status # None /\ (w.to = "running" => tasks[w.run].state # None)
  BY DEF UpdateRun, ClickInv, RecordsAreReal
<1>3. \/ UNCHANGED runs
      \/ runs' = [runs EXCEPT ![w.run] = [runs[w.run] EXCEPT !.status = w.to]]
  BY DEF UpdateRun
<1>4. Turn(q, Doing("attach", w.run)) \/ Turn(q, Idle)
  BY DEF UpdateRun, Done
<1>5. RequestKept(q) /\ \A p \in Requests : p # q => requests'[p] = requests[p]
  BY <1>1, <1>4, TurnKeeps, DoingType DEF RequestKept, Idle
<1>6. \A r \in Runs : StatusKept(r)
  <2>1. [runs[w.run] EXCEPT !.status = w.to].status = w.to
    BY <1>1 DEF TypeOK, Rows
  <2> HIDE DEF w
  <2> QED BY <1>1, <1>2, <1>3, <2>1 DEF StatusKept, TypeOK
<1>7. UNCHANGED <<tasks, made>>
  BY DEF UpdateRun
<1> QED BY <1>5, <1>6, <1>7 DEF Calm, RequestKept

(* and the placement of results, and a death.                              *)
LEMMA PlacingCalm ==
    ASSUME TypeOK, NEW q \in Requests, ReadCanvas(q) \/ AttachResults(q) \/ Die(q)
    PROVE  Calm
<1>1. UNCHANGED <<tasks, made>>
  BY DEF ReadCanvas, AttachResults, Die
<1>2. Done(q) \/ \E n : Turn(q, [requests[q] EXCEPT !.step = "place", !.rev = n])
  BY DEF ReadCanvas, AttachResults, Die
<1>3. \A n : requests[q] \in Pending => [requests[q] EXCEPT !.step = "place", !.rev = n].step = "place"
  BY DEF Pending
<1>4. requests[q] \in Pending
  BY RequestFields DEF ReadCanvas, AttachResults, Die, TypeOK
<1>5. RequestKept(q) /\ \A p \in Requests : p # q => requests'[p] = requests[p]
  <2>1. CASE Turn(q, Idle)
    BY <2>1, TurnKeeps DEF RequestKept, Idle
  <2>2. ASSUME NEW n, Turn(q, [requests[q] EXCEPT !.step = "place", !.rev = n])
        PROVE  RequestKept(q) /\ \A p \in Requests : p # q => requests'[p] = requests[p]
    BY <1>3, <1>4, <2>2, TurnKeeps DEF RequestKept
  <2> QED BY <1>2, <2>1, <2>2 DEF Done
<1>6. \A r \in Runs : StatusKept(r)
  <2>1. CASE UNCHANGED runs
    BY <2>1 DEF StatusKept
  <2>2. CASE AttachResults(q) /\ ~UNCHANGED runs
    <3> DEFINE w == requests[q]
               k == w.run
    <3>1. k \in Runs /\ Awaits(k, w)
          /\ (\/ runs' = [runs EXCEPT ![k] = [runs[k] EXCEPT !.status = "unplaced"]]
              \/ runs' = [runs EXCEPT ![k] = [runs[k] EXCEPT !.status = "attached",
                                                             !.at = canvas'.rev]])
      BY <2>2, PlaceSteps
    <3>2. runs[k].status # None
      BY <3>1 DEF Awaits, None
    <3> HIDE DEF k, w
    <3>3. runs[k] \in Rows
      BY <3>1 DEF TypeOK
    <3>4. /\ [runs[k] EXCEPT !.status = "unplaced"].status = "unplaced"
          /\ [runs[k] EXCEPT !.status = "attached", !.at = canvas'.rev].status = "attached"
      BY <3>3 DEF Rows
    <3> QED BY <3>1, <3>2, <3>4 DEF StatusKept, TypeOK, None
  <2> QED BY <2>1, <2>2 DEF ReadCanvas, Die
<1> QED BY <1>1, <1>5, <1>6 DEF Calm, RequestKept

(* A run that is created was new, so nobody is about to make its task.     *)
LEMMA CreateRunClick ==
    ASSUME TypeOK, ClickInv, NEW q \in Requests, CreateRun(q)
    PROVE  ClickInv'
<1> DEFINE w == requests[q]
           k == w.run
<1>1. k \in Runs /\ w \in Pending /\ UNCHANGED <<tasks, made>>
  BY RequestFields DEF CreateRun
<1>2. CASE Done(q) /\ UNCHANGED <<runs, canvas>>
  <2>1. Calm
    BY <1>1, <1>2, DoneType DEF Calm, StatusKept, RequestKept, Idle
  <2> QED BY <2>1, CalmClick
<1>3. CASE /\ IsNew(k)
           /\ runs' = [runs EXCEPT ![k] = [status |-> "submitting", draft |-> w.draft, at |-> 0]]
           /\ Turn(q, [w EXCEPT !.step = "generate"])
  <2>1. [w EXCEPT !.step = "generate"].step = "generate" /\ [w EXCEPT !.step = "generate"].run = k
    BY <1>1 DEF Pending
  <2>2. /\ requests'[q].step = "generate" /\ requests'[q].run = k
        /\ \A p \in Requests : p # q => requests'[p] = requests[p]
    BY <1>3, <2>1, TurnKeeps
  <2>3. runs[k].status = None /\ made[k] = 0
    BY <1>1, <1>3 DEF IsNew, ClickInv, NewIsUnmade
  <2>4. /\ runs'[k].status = "submitting"
        /\ \A r \in Runs : r # k => runs'[r] = runs[r]
    BY <1>1, <1>3 DEF TypeOK
  <2>5. \A p \in Requests : ~Generating(p, k)
    BY <1>1, <2>3 DEF ClickInv, OneGenerates
  <2> HIDE DEF w, k
  <2>6. OneGenerates'
    <3>1. \A p \in Requests, r \in Runs :
              Generating(p, r)' => (p = q /\ r = k) \/ (p # q /\ r # k /\ Generating(p, r))
      BY <2>2, <2>5 DEF Generating
    <3>2. \A p \in Requests, r \in Runs :
              Generating(p, r)' => runs'[r].status # None /\ made'[r] = 0
      BY <1>1, <2>3, <2>4, <3>1 DEF ClickInv, OneGenerates, None
    <3> QED BY <3>1, <3>2 DEF ClickInv, OneGenerates
  <2>7. NewIsUnmade' /\ OneTaskPerClick' /\ RunningHasTask'
    BY <1>1, <2>3, <2>4 DEF ClickInv, NewIsUnmade, OneTaskPerClick, RunningHasTask
  <2>8. RecordsAreReal'
    <3>1. \A r \in Runs : runs[r].status # None => runs'[r].status # None
      BY <2>3, <2>4
    <3> QED BY <1>1, <2>2, <3>1, RunOfRecord DEF ClickInv, RecordsAreReal
  <2> QED BY <2>6, <2>7, <2>8 DEF ClickInv
<1> QED BY <1>2, <1>3 DEF CreateRun

(* The request that makes the task was alone with its run, and goes on.    *)
LEMMA CreateTaskClick ==
    ASSUME TypeOK, ClickInv, NEW q \in Requests, CreateTask(q)
    PROVE  ClickInv'
<1> DEFINE w == requests[q]
           k == w.run
<1>1. k \in Runs /\ w \in Pending /\ Generating(q, k) /\ UNCHANGED runs
  BY RequestFields DEF CreateTask, Generating
<1>2. runs[k].status # None /\ made[k] = 0 /\ \A p \in Requests : Generating(p, k) => p = q
  BY <1>1 DEF ClickInv, OneGenerates
<1>3. PICK to \in {"running", "failed"} :
          /\ Turn(q, [w EXCEPT !.step = "record", !.to = to])
          /\ \/ /\ \E p : tasks' = [tasks EXCEPT ![k] = [tasks[k] EXCEPT !.state = "running",
                                                                   !.project = p]]
                /\ made' = [made EXCEPT ![k] = made[k] + 1]
             \/ UNCHANGED <<tasks, made>> /\ to = "failed"
  BY DEF CreateTask
<1>4. LET x == [w EXCEPT !.step = "record", !.to = to]
      IN  x.step = "record" /\ x.run = k /\ x.to = to
  BY <1>1 DEF Pending
<1>5. /\ requests'[q].step = "record" /\ requests'[q].run = k /\ requests'[q].to = to
      /\ \A p \in Requests : p # q => requests'[p] = requests[p]
  BY <1>3, <1>4, TurnKeeps
<1> HIDE DEF w, k
<1>6. /\ \A r \in Runs : r # k => made'[r] = made[r]
      /\ made'[k] = 0 \/ made'[k] = 1
  <2>1. made' = [made EXCEPT ![k] = made[k] + 1] \/ made' = made
    BY <1>3
  <2> QED BY <1>1, <1>2, <2>1 DEF TypeOK
<1>7. /\ \A r \in Runs : tasks[r].state # None => tasks'[r].state # None
      /\ to = "running" => tasks'[k].state # None
  <2>1. \/ \E p : tasks' = [tasks EXCEPT ![k] = [tasks[k] EXCEPT !.state = "running", !.project = p]]
        \/ UNCHANGED tasks /\ to # "running"
    BY <1>3
  <2>2. \A p : [tasks[k] EXCEPT !.state = "running", !.project = p].state = "running"
    BY <1>1 DEF TypeOK, Tasks
  <2> QED BY <1>1, <2>1, <2>2 DEF TypeOK, None
<1>8. OneGenerates'
  <2>1. \A p \in Requests, r \in Runs : Generating(p, r)' => Generating(p, r) /\ r # k /\ p # q
    BY <1>2, <1>5 DEF Generating
  <2> QED BY <1>1, <1>6, <2>1 DEF ClickInv, OneGenerates
<1>9. NewIsUnmade' /\ OneTaskPerClick'
  BY <1>1, <1>2, <1>6 DEF ClickInv, NewIsUnmade, OneTaskPerClick
<1>10. RunningHasTask'
  BY <1>1, <1>7 DEF ClickInv, RunningHasTask
<1>11. RecordsAreReal'
  BY <1>1, <1>2, <1>3, <1>5, <1>7, RunOfRecord DEF ClickInv, RecordsAreReal, None
<1> QED BY <1>8, <1>9, <1>10, <1>11 DEF ClickInv

(* Every step keeps the invariant.                                         *)
LEMMA NextClick == TypeOK /\ ClickInv /\ [Next]_vars => ClickInv'
<1> SUFFICES ASSUME TypeOK, ClickInv, [Next]_vars PROVE ClickInv'
  OBVIOUS
<1>1. CASE UNCHANGED <<runs, tasks, made, requests>>
  <2>1. Calm
    BY <1>1 DEF Calm, StatusKept, RequestKept
  <2> QED BY <2>1, CalmClick
<1>2. CASE \E e \in Editors : \/ Load(e) \/ Save(e) \/ Rename(e) \/ Delete(e)
                              \/ \E p \in Projects : TransferProject(e, p)
  BY <1>1, <1>2 DEF Load, Save, Rename, Delete, TransferProject
<1>3. CASE UNCHANGED vars
  BY <1>1, <1>3 DEF vars
<1>4. CASE Next
  BY <1>2, <1>4, CalmClick, TaskCalm, AskingCalm, UpdateRunCalm, PlacingCalm,
     CreateRunClick, CreateTaskClick DEF Next, RequestSteps
<1> QED BY <1>3, <1>4

(* A click makes one task, for any number of repetitions, connections and  *)
(* deaths: the run is created in the transaction that looks for it.        *)
THEOREM OneTaskPerClickHolds == Spec => []OneTaskPerClick
<1>1. ClickInv => OneTaskPerClick
  BY DEF ClickInv
<1> QED BY <1>1, CanvasTyped, InitClick, NextClick, PTL DEF Spec

-----------------------------------------------------------------------------
(* Orders: typing *)

(* No order, no request, no session at the start.                          *)
LEMMA OrdersInitType == Cashier!Init => Cashier!TypeOK
<1> SUFFICES ASSUME Cashier!Init PROVE Cashier!TypeOK
  OBVIOUS
<1>1. 0 \in 0 .. MaxTime + Timeout /\ 0 \in 0 .. MaxTime
  BY CashierAssumption DEF Cashier!PaymentAssumption
<1>2. [status |-> "none", shown |-> FALSE, trade |-> Cashier!NoTrade, due |-> 0] \in Cashier!Rows
  BY <1>1 DEF Cashier!Rows, Cashier!Statuses
<1>3. [state |-> "none", trade |-> Cashier!NoTrade] \in Cashier!Sessions
  BY DEF Cashier!Sessions
<1>4. Cashier!NoRequest \in Cashier!Asks
  BY DEF Cashier!NoRequest, Cashier!Asks, Cashier!CancelSteps
<1> QED BY <1>1, <1>2, <1>3, <1>4 DEF Cashier!Init, Cashier!TypeOK, Cashier!CreateSteps

(* What the transactions write into one row is a row.                      *)
LEMMA RowUpdates ==
    ASSUME NEW row \in Cashier!Rows, NEW status \in Cashier!Statuses, NEW trade \in {Cashier!NoTrade} \cup Trades,
           NEW due \in 0 .. MaxTime + Timeout
    PROVE  /\ [row EXCEPT !.status = status] \in Cashier!Rows
           /\ [row EXCEPT !.status = status, !.trade = trade] \in Cashier!Rows
           /\ [row EXCEPT !.status = status, !.due = due] \in Cashier!Rows
           /\ [row EXCEPT !.shown = TRUE, !.trade = trade] \in Cashier!Rows
BY DEF Cashier!Rows

(* The first instant is a time at which an order may be due.               *)
LEMMA Dues == 0 \in 0 .. MaxTime + Timeout
BY CashierAssumption DEF Cashier!PaymentAssumption

(* A new status leaves well-formed rows.                                   *)
LEMMA SetStatusType ==
    ASSUME Cashier!TypeOK, NEW o \in Orders, NEW status \in Cashier!Statuses, Cashier!SetStatus(o, status)
    PROVE  orders' \in [Orders -> Cashier!Rows]
<1>1. [orders[o] EXCEPT !.status = status] \in Cashier!Rows
  BY RowUpdates, Dues DEF Cashier!TypeOK
<1> QED BY <1>1 DEF Cashier!TypeOK, Cashier!SetStatus

(* So does a completion, with its credit and its event.                    *)
LEMMA MarkType ==
    ASSUME Cashier!TypeOK, NEW o \in Orders, NEW t \in Trades, Cashier!MarkOrderPaid(o, t)
    PROVE  /\ orders' \in [Orders -> Cashier!Rows]
           /\ credits' \in [Orders -> Nat]
           /\ events' \in [Trades -> {Cashier!NoOrder} \cup Orders]
<1>1. [orders[o] EXCEPT !.status = "completed", !.trade = t] \in Cashier!Rows
  BY RowUpdates, Dues DEF Cashier!TypeOK, Cashier!Statuses
<1>2. credits[o] + 1 \in Nat
  BY DEF Cashier!TypeOK
<1>3. orders' \in [Orders -> Cashier!Rows] /\ credits' \in [Orders -> Nat]
  <2>1. \/ UNCHANGED <<orders, credits>>
        \/ /\ orders' = [orders EXCEPT ![o] =
                            [orders[o] EXCEPT !.status = "completed", !.trade = t]]
           /\ credits' = [credits EXCEPT ![o] = credits[o] + 1]
    BY DEF Cashier!MarkOrderPaid
  <2>2. orders \in [Orders -> Cashier!Rows] /\ credits \in [Orders -> Nat]
    BY DEF Cashier!TypeOK
  <2>3. orders' = orders \/ orders' \in [Orders -> Cashier!Rows]
    BY <1>1, <2>1, <2>2
  <2>4. credits' = credits \/ credits' \in [Orders -> Nat]
    BY <1>2, <2>1, <2>2
  <2> QED BY <2>2, <2>3, <2>4
<1>4. events' \in [Trades -> {Cashier!NoOrder} \cup Orders]
  BY DEF Cashier!TypeOK, Cashier!MarkOrderPaid
<1> QED BY <1>3, <1>4

(* A request to cancel that goes on, or gives up, keeps its type.          *)
LEMMA ResumeType ==
    ASSUME Cashier!TypeOK, NEW o \in Orders, NEW c \in Cancelers,
           (\E step \in Cashier!CancelSteps : Cashier!Resume(o, c, step)) \/ Cashier!GiveUp(o, c)
    PROVE  canceler' \in [Orders -> [Cancelers -> Cashier!Asks]]
<1>1. Cashier!NoRequest \in Cashier!Asks
  BY DEF Cashier!NoRequest, Cashier!Asks, Cashier!CancelSteps
<1>2. canceler[o] \in [Cancelers -> Cashier!Asks] /\ canceler[o][c] \in Cashier!Asks
  BY DEF Cashier!TypeOK
<1>3. ASSUME NEW step \in Cashier!CancelSteps, Cashier!Resume(o, c, step)
      PROVE  canceler' \in [Orders -> [Cancelers -> Cashier!Asks]]
  <2>1. [canceler[o][c] EXCEPT !.step = step] \in Cashier!Asks
    BY <1>2 DEF Cashier!Asks
  <2>2. [canceler[o] EXCEPT ![c] = [canceler[o][c] EXCEPT !.step = step]]
            \in [Cancelers -> Cashier!Asks]
    BY <1>2, <2>1
  <2> QED BY <1>3, <2>2 DEF Cashier!TypeOK, Cashier!Resume
<1>4. CASE Cashier!GiveUp(o, c)
  <2>1. [canceler[o] EXCEPT ![c] = Cashier!NoRequest] \in [Cancelers -> Cashier!Asks]
    BY <1>1, <1>2
  <2> QED BY <1>4, <2>1 DEF Cashier!TypeOK, Cashier!GiveUp
<1> QED BY <1>3, <1>4

(* It touches nobody else's request and never makes a row look shown.      *)
LEMMA ResumeKeeps ==
    ASSUME Cashier!TypeOK, NEW o \in Orders, NEW c \in Cancelers,
           (\E step \in Cashier!CancelSteps : Cashier!Resume(o, c, step)) \/ Cashier!GiveUp(o, c)
    PROVE  /\ \A p \in Orders, d \in Cancelers :
                  canceler'[p][d].shown => canceler[p][d].shown
           /\ \A p \in Orders, d \in Cancelers :
                  (p # o \/ d # c) => canceler'[p][d] = canceler[p][d]
<1>1. canceler[o] \in [Cancelers -> Cashier!Asks] /\ canceler[o][c] \in Cashier!Asks
  BY DEF Cashier!TypeOK
<1>2. PICK ask \in {[canceler[o][c] EXCEPT !.step = step] : step \in Cashier!CancelSteps} \cup {Cashier!NoRequest} :
          canceler' = [canceler EXCEPT ![o] = [canceler[o] EXCEPT ![c] = ask]]
  BY DEF Cashier!Resume, Cashier!GiveUp
<1>3. ask.shown => canceler[o][c].shown
  BY <1>1, <1>2 DEF Cashier!NoRequest, Cashier!Asks
<1>4. canceler'[o] = [canceler[o] EXCEPT ![c] = ask]
  BY <1>2 DEF Cashier!TypeOK
<1>5. canceler'[o][c] = ask
  BY <1>1, <1>4
<1>6. \A p \in Orders, d \in Cancelers : (p # o \/ d # c) => canceler'[p][d] = canceler[p][d]
  BY <1>1, <1>2, <1>4 DEF Cashier!TypeOK
<1> QED BY <1>3, <1>5, <1>6

(* A request that gives up is over.                                        *)
LEMMA GiveUpStep ==
    ASSUME Cashier!TypeOK, NEW o \in Orders, NEW c \in Cancelers, Cashier!GiveUp(o, c)
    PROVE  canceler'[o][c] = Cashier!NoRequest
BY DEF Cashier!TypeOK, Cashier!GiveUp

(* A request that goes on is at its next step.                             *)
LEMMA ResumeStep ==
    ASSUME Cashier!TypeOK, NEW o \in Orders, NEW c \in Cancelers, NEW step \in Cashier!CancelSteps,
           Cashier!Resume(o, c, step)
    PROVE  canceler'[o][c].step = step
<1>1. canceler[o] \in [Cancelers -> Cashier!Asks] /\ canceler[o][c] \in Cashier!Asks
  BY DEF Cashier!TypeOK
<1>2. canceler'[o][c] = [canceler[o][c] EXCEPT !.step = step]
  BY <1>1 DEF Cashier!TypeOK, Cashier!Resume
<1> QED BY <1>1, <1>2 DEF Cashier!Asks

(* A new status leaves the rest of the table alone.                        *)
LEMMA SetStatusKeeps ==
    ASSUME Cashier!TypeOK, NEW o \in Orders, NEW status, Cashier!SetStatus(o, status)
    PROVE  /\ \A p \in Orders : p # o => orders'[p] = orders[p]
           /\ orders'[o].status = status
           /\ orders'[o].shown = orders[o].shown
           /\ orders'[o].trade = orders[o].trade
<1>1. orders[o] \in Cashier!Rows
  BY DEF Cashier!TypeOK
<1>2. orders' = [orders EXCEPT ![o] = [orders[o] EXCEPT !.status = status]]
  BY DEF Cashier!SetStatus
<1>3. orders'[o] = [orders[o] EXCEPT !.status = status]
  BY <1>2 DEF Cashier!TypeOK
<1> QED BY <1>1, <1>2, <1>3 DEF Cashier!TypeOK, Cashier!Rows

(* The steps of a creation keep the types,                                 *)
LEMMA OrderCreateType ==
    ASSUME Cashier!TypeOK, NEW o \in Orders, Cashier!Create(o)
    PROVE  Cashier!TypeOK'
<1>1. CASE Cashier!CheckLimit(o)
  <2>1. \A p \in Orders : [orders[p] EXCEPT !.status = "expired"] \in Cashier!Rows
    BY RowUpdates, Dues DEF Cashier!TypeOK, Cashier!Statuses
  <2>2. orders' \in [Orders -> Cashier!Rows]
    BY <1>1, <2>1 DEF Cashier!TypeOK, Cashier!CheckLimit, Cashier!AfterLazyExpiry
  <2>3. creator' \in [Orders -> Cashier!CreateSteps]
    BY <1>1 DEF Cashier!TypeOK, Cashier!CheckLimit, Cashier!CreateSteps
  <2> QED BY <1>1, <2>2, <2>3 DEF Cashier!TypeOK, Cashier!CheckLimit
<1>2. CASE Cashier!Insert(o)
  <2>1. Cashier!DueTime \in 0 .. MaxTime + Timeout
    BY CashierAssumption DEF Cashier!PaymentAssumption, Cashier!TypeOK, Cashier!DueTime
  <2>2. [orders[o] EXCEPT !.status = "pending", !.due = Cashier!DueTime] \in Cashier!Rows
    BY <2>1, RowUpdates DEF Cashier!TypeOK, Cashier!Statuses
  <2>3. orders' \in [Orders -> Cashier!Rows]
    BY <1>2, <2>2 DEF Cashier!TypeOK, Cashier!Insert
  <2>4. creator' \in [Orders -> Cashier!CreateSteps]
    BY <1>2 DEF Cashier!TypeOK, Cashier!Insert, Cashier!CreateSteps
  <2> QED BY <1>2, <2>3, <2>4 DEF Cashier!TypeOK, Cashier!Insert
<1>3. CASE Cashier!Display(o)
  <2>1. creator' \in [Orders -> Cashier!CreateSteps]
    BY <1>3 DEF Cashier!TypeOK, Cashier!Display, Cashier!CreateSteps
  <2>2. \A t \in {Cashier!NoTrade} \cup Trades : [state |-> "open", trade |-> t] \in Cashier!Sessions
    BY DEF Cashier!Sessions
  <2>3. \/ \E t \in {Cashier!NoTrade} \cup Trades :
              session' = [session EXCEPT ![o] = [state |-> "open", trade |-> t]]
        \/ UNCHANGED session
    BY <1>3 DEF Cashier!Display
  <2>4. session' \in [Orders -> Cashier!Sessions]
    BY <2>2, <2>3 DEF Cashier!TypeOK
  <2> QED BY <1>3, <2>1, <2>4 DEF Cashier!TypeOK, Cashier!Display
<1>4. CASE Cashier!Initialize(o)
  <2>1. session[o].trade \in {Cashier!NoTrade} \cup Trades
    BY DEF Cashier!TypeOK, Cashier!Sessions
  <2>2. [orders[o] EXCEPT !.shown = TRUE, !.trade = session[o].trade] \in Cashier!Rows
    BY <2>1, RowUpdates, Dues DEF Cashier!TypeOK, Cashier!Statuses
  <2>3. orders' \in [Orders -> Cashier!Rows]
    BY <1>4, <2>2 DEF Cashier!TypeOK, Cashier!Initialize
  <2>4. creator' \in [Orders -> Cashier!CreateSteps]
    BY <1>4 DEF Cashier!TypeOK, Cashier!Initialize, Cashier!CreateSteps
  <2> QED BY <1>4, <2>3, <2>4 DEF Cashier!TypeOK, Cashier!Initialize
<1>5. CASE Cashier!FailInitialization(o)
  <2>1. [orders[o] EXCEPT !.status = "failed"] \in Cashier!Rows
    BY RowUpdates, Dues DEF Cashier!TypeOK, Cashier!Statuses
  <2>2. orders' \in [Orders -> Cashier!Rows]
    BY <1>5, <2>1 DEF Cashier!TypeOK, Cashier!FailInitialization
  <2>3. creator' \in [Orders -> Cashier!CreateSteps]
    BY <1>5 DEF Cashier!TypeOK, Cashier!FailInitialization, Cashier!CreateSteps
  <2> QED BY <1>5, <2>2, <2>3 DEF Cashier!TypeOK, Cashier!FailInitialization
<1> QED BY <1>1, <1>2, <1>3, <1>4, <1>5 DEF Cashier!Create

(* and those of a cancellation.                                            *)
LEMMA OrderCancelType ==
    ASSUME Cashier!TypeOK, NEW o \in Orders, NEW c \in Cancelers, Cashier!Cancel(o, c)
    PROVE  Cashier!TypeOK'
<1>1. CASE Cashier!StartCancel(o, c)
  <2> DEFINE ask == [step |-> IF orders[o].shown THEN "query" ELSE "local",
                     shown |-> orders[o].shown, trade |-> orders[o].trade]
  <2>1. ask \in Cashier!Asks
    BY DEF Cashier!TypeOK, Cashier!Rows, Cashier!Asks, Cashier!CancelSteps
  <2>2. canceler[o] \in [Cancelers -> Cashier!Asks]
    BY DEF Cashier!TypeOK
  <2>3. canceler' = [canceler EXCEPT ![o] = [canceler[o] EXCEPT ![c] = ask]]
    BY <1>1 DEF Cashier!StartCancel
  <2> HIDE DEF ask
  <2>4. canceler' \in [Orders -> [Cancelers -> Cashier!Asks]]
    BY <2>1, <2>2, <2>3 DEF Cashier!TypeOK
  <2> QED BY <1>1, <2>4 DEF Cashier!TypeOK, Cashier!StartCancel
<1>2. CASE Cashier!QueryCancel(o, c)
  <2>1. canceler' \in [Orders -> [Cancelers -> Cashier!Asks]]
    BY <1>2, ResumeType DEF Cashier!QueryCancel, Cashier!StepForPending, Cashier!CancelSteps
  <2> QED BY <1>2, <2>1 DEF Cashier!TypeOK, Cashier!QueryCancel
<1>3. CASE Cashier!CloseSession(o, c)
  <2>1. canceler' \in [Orders -> [Cancelers -> Cashier!Asks]]
    BY <1>3, ResumeType DEF Cashier!CloseSession, Cashier!CancelSteps
  <2>2. [session[o] EXCEPT !.state = "closed"] \in Cashier!Sessions
    BY DEF Cashier!TypeOK, Cashier!Sessions
  <2>3. session' \in [Orders -> Cashier!Sessions]
    BY <1>3, <2>2 DEF Cashier!TypeOK, Cashier!CloseSession
  <2> QED BY <1>3, <2>1, <2>3 DEF Cashier!TypeOK, Cashier!CloseSession
<1>4. CASE Cashier!CancelLocally(o, c)
  <2>1. canceler' \in [Orders -> [Cancelers -> Cashier!Asks]]
    BY <1>4, ResumeType DEF Cashier!CancelLocally
  <2>2. "canceled" \in Cashier!Statuses
    BY DEF Cashier!Statuses
  <2>3. Cashier!SetStatus(o, "canceled") \/ UNCHANGED orders
    BY <1>4 DEF Cashier!CancelLocally
  <2>4. orders' \in [Orders -> Cashier!Rows]
    BY <2>2, <2>3, SetStatusType DEF Cashier!TypeOK
  <2> QED BY <1>4, <2>1, <2>4 DEF Cashier!TypeOK, Cashier!CancelLocally
<1>5. CASE Cashier!ReconcileCancel(o, c)
  <2>1. canceler' \in [Orders -> [Cancelers -> Cashier!Asks]]
    BY <1>5, ResumeType DEF Cashier!ReconcileCancel
  <2>2. \/ \E t \in Trades : Cashier!MarkOrderPaid(o, t)
        \/ UNCHANGED <<orders, credits, events>>
    BY <1>5 DEF Cashier!TypeOK, Cashier!ReconcileCancel
  <2>3. /\ orders' \in [Orders -> Cashier!Rows]
        /\ credits' \in [Orders -> Nat]
        /\ events' \in [Trades -> {Cashier!NoOrder} \cup Orders]
    BY <2>2, MarkType DEF Cashier!TypeOK
  <2> QED BY <1>5, <2>1, <2>3 DEF Cashier!TypeOK, Cashier!ReconcileCancel
<1> QED BY <1>1, <1>2, <1>3, <1>4, <1>5 DEF Cashier!Cancel

(* Every step keeps the types.                                             *)
LEMMA OrdersNextType == Cashier!TypeOK /\ [Cashier!Next]_(Cashier!vars) => Cashier!TypeOK'
<1> SUFFICES ASSUME Cashier!TypeOK, [Cashier!Next]_(Cashier!vars) PROVE Cashier!TypeOK'
  OBVIOUS
<1>1. ASSUME NEW o \in Orders, Cashier!Expire(o) PROVE Cashier!TypeOK'
  <2>1. orders' \in [Orders -> Cashier!Rows]
    BY <1>1, SetStatusType DEF Cashier!Expire, Cashier!Statuses
  <2> QED BY <1>1, <2>1 DEF Cashier!TypeOK, Cashier!Expire
<1>2. ASSUME NEW o \in Orders, NEW t \in Trades, Cashier!Pay(o, t) PROVE Cashier!TypeOK'
  BY <1>2 DEF Cashier!TypeOK, Cashier!Pay
<1>3. ASSUME NEW o \in Orders, NEW t \in Trades, Cashier!Success(o, t) PROVE Cashier!TypeOK'
  BY <1>3, MarkType DEF Cashier!TypeOK, Cashier!Success
<1>4. CASE Cashier!Tick
  BY <1>4, CashierAssumption DEF Cashier!PaymentAssumption, Cashier!TypeOK, Cashier!Tick
<1>5. CASE UNCHANGED Cashier!vars
  BY <1>5 DEF Cashier!TypeOK, Cashier!vars
<1> QED BY <1>1, <1>2, <1>3, <1>4, <1>5, OrderCreateType, OrderCancelType DEF Cashier!Next

(* The orders take steps of Payment only, whatever happens on a canvas.    *)
LEMMA OrdersOfHandlers == HandlersSpec => Cashier!Spec
<1>1. HandlersInit => Cashier!Init
  BY DEF HandlersInit
<1>2. [HandlersNext]_handlerVars => [Cashier!Next]_(Cashier!vars)
  BY DEF HandlersNext, handlerVars, cashierVars, Cashier!vars
<1> QED BY <1>1, <1>2, PTL DEF HandlersSpec, Cashier!Spec

(* Every variable keeps its type; the time an order is due stays within    *)
(* the clock and the timeout.                                              *)
THEOREM PaymentTypeCorrect == HandlersSpec => []Cashier!TypeOK
<1>1. Cashier!Init => Cashier!TypeOK
  BY OrdersInitType
<1>2. Cashier!TypeOK /\ [Cashier!Next]_(Cashier!vars) => Cashier!TypeOK'
  BY OrdersNextType
<1> QED BY <1>1, <1>2, OrdersOfHandlers, PTL DEF Cashier!Spec

-----------------------------------------------------------------------------
(* A row is inserted once, shown once, and only after the provider has     *)
(* been asked; a request that read a shown row cancels on a closed session.*)

FreshUntilInserted ==
    \A o \in Orders : creator[o] \in {"limit", "insert"} => orders[o].status = "none"

ShownAfterDisplay ==
    \A o \in Orders :
        creator[o] \in {"limit", "insert", "display"} =>
            ~orders[o].shown /\ \A c \in Cancelers : ~canceler[o][c].shown

LocalIsClosed ==
    \A o \in Orders, c \in Cancelers :
        canceler[o][c].step = "local" /\ canceler[o][c].shown => session[o].state = "closed"

PaymentInv == FreshUntilInserted /\ ShownAfterDisplay /\ LocalIsClosed /\ Cashier!CreditedOnce

(* The invariant holds of a user without orders.                           *)
LEMMA PaymentInvInit == Cashier!Init => PaymentInv
BY DEF Cashier!Init, PaymentInv, FreshUntilInserted, ShownAfterDisplay, LocalIsClosed, Cashier!CreditedOnce, Cashier!NoRequest

(* Completing an order keeps what the rows and the credits say.            *)
LEMMA MarkKeeps ==
    ASSUME Cashier!TypeOK, PaymentInv, NEW o \in Orders, NEW t \in Trades, Cashier!MarkOrderPaid(o, t),
           UNCHANGED creator
    PROVE  /\ Cashier!CreditedOnce' /\ FreshUntilInserted'
           /\ \A p \in Orders : orders'[p].shown = orders[p].shown
           /\ \A p \in Orders : orders[p].status = "completed" => orders'[p] = orders[p]
           /\ \A p \in Orders : orders'[p].status = "canceled" => orders[p].status = "canceled"
<1>1. CASE Cashier!IsReplay(o, t) /\ UNCHANGED <<orders, credits>>
  BY <1>1 DEF PaymentInv, Cashier!CreditedOnce, FreshUntilInserted
<1>2. CASE /\ Cashier!CanComplete(o, t)
           /\ orders' = [orders EXCEPT ![o] = [@ EXCEPT !.status = "completed", !.trade = t]]
           /\ credits' = [credits EXCEPT ![o] = @ + 1]
  <2>1. orders[o].status # "completed" /\ orders[o].status # "none"
    BY <1>2 DEF Cashier!CanComplete, Cashier!CanRecover
  <2>2. credits[o] = 0
    BY <2>1 DEF PaymentInv, Cashier!CreditedOnce
  <2> QED BY <1>2, <2>1, <2>2 DEF Cashier!TypeOK, PaymentInv, Cashier!CreditedOnce, FreshUntilInserted
<1> QED BY <1>1, <1>2 DEF Cashier!MarkOrderPaid

(* The steps of a creation keep the invariant,                             *)
LEMMA CreateKeeps ==
    ASSUME Cashier!TypeOK, PaymentInv, NEW o \in Orders, Cashier!Create(o)
    PROVE  PaymentInv'
<1> USE DEF PaymentInv
<1>1. CASE Cashier!CheckLimit(o)
  <2>1. FreshUntilInserted'
    BY <1>1 DEF Cashier!TypeOK, Cashier!CheckLimit, Cashier!AfterLazyExpiry, Cashier!IsDue, FreshUntilInserted
  <2>2. ShownAfterDisplay'
    BY <1>1 DEF Cashier!TypeOK, Cashier!CheckLimit, Cashier!AfterLazyExpiry, ShownAfterDisplay
  <2>3. Cashier!CreditedOnce'
    BY <1>1 DEF Cashier!TypeOK, Cashier!CheckLimit, Cashier!AfterLazyExpiry, Cashier!IsDue, Cashier!CreditedOnce
  <2> QED BY <1>1, <2>1, <2>2, <2>3 DEF Cashier!CheckLimit, LocalIsClosed
<1>2. CASE Cashier!Insert(o)
  <2>1. FreshUntilInserted'
    BY <1>2 DEF Cashier!TypeOK, Cashier!Insert, FreshUntilInserted
  <2>2. ShownAfterDisplay'
    BY <1>2 DEF Cashier!TypeOK, Cashier!Insert, ShownAfterDisplay
  <2>3. Cashier!CreditedOnce'
    BY <1>2 DEF Cashier!TypeOK, Cashier!Insert, FreshUntilInserted, Cashier!CreditedOnce
  <2> QED BY <1>2, <2>1, <2>2, <2>3 DEF Cashier!Insert, LocalIsClosed
<1>3. CASE Cashier!Display(o)
  <2>1. FreshUntilInserted' /\ ShownAfterDisplay'
    BY <1>3 DEF Cashier!TypeOK, Cashier!Display, FreshUntilInserted, ShownAfterDisplay
  <2>2. \A c \in Cancelers : ~canceler[o][c].shown
    BY <1>3 DEF Cashier!Display, ShownAfterDisplay
  <2>3. LocalIsClosed'
    BY <1>3, <2>2 DEF Cashier!TypeOK, Cashier!Display, LocalIsClosed
  <2> QED BY <1>3, <2>1, <2>3 DEF Cashier!Display, Cashier!CreditedOnce
<1>4. CASE Cashier!Initialize(o)
  <2>1. FreshUntilInserted' /\ ShownAfterDisplay'
    BY <1>4 DEF Cashier!TypeOK, Cashier!Initialize, FreshUntilInserted, ShownAfterDisplay
  <2>2. Cashier!CreditedOnce'
    BY <1>4 DEF Cashier!TypeOK, Cashier!Initialize, Cashier!CreditedOnce
  <2> QED BY <1>4, <2>1, <2>2 DEF Cashier!Initialize, LocalIsClosed
<1>5. CASE Cashier!FailInitialization(o)
  <2>1. FreshUntilInserted' /\ ShownAfterDisplay'
    BY <1>5 DEF Cashier!TypeOK, Cashier!FailInitialization, FreshUntilInserted, ShownAfterDisplay
  <2>2. Cashier!CreditedOnce'
    BY <1>5 DEF Cashier!TypeOK, Cashier!FailInitialization, Cashier!CreditedOnce
  <2> QED BY <1>5, <2>1, <2>2 DEF Cashier!FailInitialization, LocalIsClosed
<1> QED BY <1>1, <1>2, <1>3, <1>4, <1>5 DEF Cashier!Create

(* and those of a cancellation: it asks, closes, and only then cancels.    *)
LEMMA CancelKeeps ==
    ASSUME Cashier!TypeOK, PaymentInv, NEW o \in Orders, NEW c \in Cancelers, Cashier!Cancel(o, c)
    PROVE  PaymentInv'
<1> USE DEF PaymentInv
<1>1. CASE Cashier!StartCancel(o, c)
  <2> DEFINE ask == [step |-> IF orders[o].shown THEN "query" ELSE "local",
                     shown |-> orders[o].shown, trade |-> orders[o].trade]
  <2>1. canceler[o] \in [Cancelers -> Cashier!Asks]
    BY DEF Cashier!TypeOK
  <2>2. canceler' = [canceler EXCEPT ![o] = [canceler[o] EXCEPT ![c] = ask]]
    BY <1>1 DEF Cashier!StartCancel
  <2>3. ask.shown = orders[o].shown /\ (ask.step = "local" => ~ask.shown)
    OBVIOUS
  <2> HIDE DEF ask
  <2>4. /\ canceler'[o][c] = ask
        /\ \A p \in Orders, d \in Cancelers :
               (p # o \/ d # c) => canceler'[p][d] = canceler[p][d]
    BY <2>1, <2>2 DEF Cashier!TypeOK
  <2>5. ShownAfterDisplay'
    BY <1>1, <2>3, <2>4 DEF Cashier!StartCancel, ShownAfterDisplay
  <2>6. LocalIsClosed'
    BY <1>1, <2>3, <2>4 DEF Cashier!StartCancel, LocalIsClosed
  <2> QED BY <1>1, <2>5, <2>6 DEF Cashier!StartCancel, FreshUntilInserted, Cashier!CreditedOnce
<1>2. CASE Cashier!QueryCancel(o, c)
  <2>1. ShownAfterDisplay'
    BY <1>2, ResumeKeeps DEF Cashier!QueryCancel, Cashier!StepForPending, Cashier!CancelSteps, ShownAfterDisplay
  <2>2. canceler'[o][c].step = "local" => session[o].state = "closed"
    <3>1. CASE Cashier!GiveUp(o, c)
      BY <3>1, GiveUpStep DEF Cashier!NoRequest
    <3>2. ASSUME NEW step \in {"reconcile", "close"}, Cashier!Resume(o, c, step)
          PROVE  canceler'[o][c].step # "local"
      BY <3>2, ResumeStep DEF Cashier!CancelSteps
    <3> QED BY <1>2, <3>1, <3>2 DEF Cashier!QueryCancel, Cashier!StepForPending
  <2>3. LocalIsClosed'
    BY <1>2, <2>2, ResumeKeeps DEF Cashier!QueryCancel, Cashier!StepForPending, Cashier!CancelSteps, LocalIsClosed
  <2> QED BY <1>2, <2>1, <2>3 DEF Cashier!QueryCancel, FreshUntilInserted, Cashier!CreditedOnce
<1>3. CASE Cashier!CloseSession(o, c)
  <2>1. ShownAfterDisplay'
    BY <1>3, ResumeKeeps DEF Cashier!CloseSession, Cashier!CancelSteps, ShownAfterDisplay
  <2>2. canceler'[o][c].step = "local" => session'[o].state = "closed"
    <3>1. CASE Cashier!GiveUp(o, c)
      BY <3>1, GiveUpStep DEF Cashier!NoRequest
    <3>2. CASE Cashier!Resume(o, c, "reconcile")
      BY <3>2, ResumeStep DEF Cashier!CancelSteps
    <3>3. CASE session' = [session EXCEPT ![o].state = "closed"]
      BY <3>3 DEF Cashier!TypeOK, Cashier!Sessions
    <3> QED BY <1>3, <3>1, <3>2, <3>3 DEF Cashier!CloseSession
  <2>3. \A p \in Orders : session'[p] = session[p] \/ session'[p].state = "closed"
    BY <1>3 DEF Cashier!TypeOK, Cashier!Sessions, Cashier!CloseSession
  <2>4. LocalIsClosed'
    BY <1>3, <2>2, <2>3, ResumeKeeps DEF Cashier!CloseSession, Cashier!CancelSteps, LocalIsClosed
  <2> QED BY <1>3, <2>1, <2>4 DEF Cashier!CloseSession, FreshUntilInserted, Cashier!CreditedOnce
<1>4. CASE Cashier!CancelLocally(o, c)
  <2>1. UNCHANGED orders \/ (orders[o].status = "pending" /\ Cashier!SetStatus(o, "canceled"))
    BY <1>4 DEF Cashier!CancelLocally, Cashier!CanCancel
  <2>2. FreshUntilInserted' /\ Cashier!CreditedOnce'
    BY <1>4, <2>1, SetStatusKeeps DEF Cashier!CancelLocally, FreshUntilInserted, Cashier!CreditedOnce
  <2>3. ShownAfterDisplay'
    BY <1>4, <2>1, SetStatusKeeps, ResumeKeeps DEF Cashier!CancelLocally, ShownAfterDisplay
  <2>4. LocalIsClosed'
    BY <1>4, ResumeKeeps, GiveUpStep DEF Cashier!CancelLocally, Cashier!NoRequest, LocalIsClosed
  <2> QED BY <2>2, <2>3, <2>4
<1>5. CASE Cashier!ReconcileCancel(o, c)
  <2>1. (\E t \in Trades : Cashier!MarkOrderPaid(o, t)) \/ UNCHANGED <<orders, credits, events>>
    BY <1>5 DEF Cashier!TypeOK, Cashier!ReconcileCancel
  <2>2. /\ Cashier!CreditedOnce' /\ FreshUntilInserted'
        /\ \A p \in Orders : orders'[p].shown = orders[p].shown
    BY <1>5, <2>1, MarkKeeps DEF Cashier!ReconcileCancel, Cashier!CreditedOnce, FreshUntilInserted
  <2>3. ShownAfterDisplay'
    BY <1>5, <2>2, ResumeKeeps DEF Cashier!ReconcileCancel, ShownAfterDisplay
  <2>4. LocalIsClosed'
    BY <1>5, ResumeKeeps, GiveUpStep DEF Cashier!ReconcileCancel, Cashier!NoRequest, LocalIsClosed
  <2> QED BY <2>2, <2>3, <2>4
<1> QED BY <1>1, <1>2, <1>3, <1>4, <1>5 DEF Cashier!Cancel

(* Every step keeps the invariant.                                         *)
LEMMA PaymentInvNext == Cashier!TypeOK /\ PaymentInv /\ [Cashier!Next]_(Cashier!vars) => PaymentInv'
<1> SUFFICES ASSUME Cashier!TypeOK, PaymentInv, [Cashier!Next]_(Cashier!vars) PROVE PaymentInv'
  OBVIOUS
<1>1. ASSUME NEW o \in Orders, Cashier!Expire(o) PROVE PaymentInv'
  BY <1>1 DEF Cashier!TypeOK, Cashier!Expire, Cashier!IsDue, Cashier!SetStatus, PaymentInv, FreshUntilInserted,
              ShownAfterDisplay, LocalIsClosed, Cashier!CreditedOnce
<1>2. CASE Cashier!Tick \/ UNCHANGED Cashier!vars \/ \E o \in Orders, t \in Trades : Cashier!Pay(o, t)
  BY <1>2 DEF Cashier!Tick, Cashier!vars, Cashier!Pay, PaymentInv, FreshUntilInserted, ShownAfterDisplay,
              LocalIsClosed, Cashier!CreditedOnce
<1>3. ASSUME NEW o \in Orders, NEW t \in Trades, Cashier!Success(o, t) PROVE PaymentInv'
  <2>1. /\ Cashier!CreditedOnce' /\ FreshUntilInserted'
        /\ \A p \in Orders : orders'[p].shown = orders[p].shown
    BY <1>3, MarkKeeps DEF Cashier!Success
  <2> QED BY <1>3, <2>1 DEF Cashier!Success, PaymentInv, ShownAfterDisplay, LocalIsClosed
<1> QED BY <1>1, <1>2, <1>3, CreateKeeps, CancelKeeps DEF Cashier!Next

(* A completed order was credited once and any other never, for any number *)
(* of webhooks, syncs, sweeps and cancellations in any order.              *)
THEOREM CreditedOnceHolds == HandlersSpec => []CreditedOnce
<1>1. PaymentInv => CreditedOnce
  BY DEF PaymentInv, CreditedOnce
<1> QED BY <1>1, PaymentInvInit, PaymentInvNext, PaymentTypeCorrect, OrdersOfHandlers, PTL DEF Cashier!Spec

-----------------------------------------------------------------------------
(* What a step may not do *)

(* A completed order keeps its row: every write of another status asks for *)
(* a pending order first, and a success completes no order twice.          *)
THEOREM CompletedIsFinalHolds == HandlersSpec => Cashier!CompletedIsFinal
<1> DEFINE Kept == \A o \in Orders : orders[o].status = "completed" =>
                        /\ orders'[o].status = "completed"
                        /\ orders'[o].trade = orders[o].trade
<1>1. Cashier!TypeOK /\ PaymentInv /\ [Cashier!Next]_(Cashier!vars) => Kept
  <2> SUFFICES ASSUME Cashier!TypeOK, PaymentInv, [Cashier!Next]_(Cashier!vars) PROVE Kept
    OBVIOUS
  <2>1. ASSUME NEW o \in Orders, Cashier!CheckLimit(o) PROVE Kept
    BY <2>1 DEF Cashier!TypeOK, Cashier!CheckLimit, Cashier!AfterLazyExpiry, Cashier!IsDue
  <2>2. ASSUME NEW o \in Orders, Cashier!Insert(o) PROVE Kept
    <3>1. orders[o].status = "none"
      BY <2>2 DEF Cashier!Insert, PaymentInv, FreshUntilInserted
    <3>2. \A p \in Orders : p # o => orders'[p] = orders[p]
      BY <2>2 DEF Cashier!TypeOK, Cashier!Insert
    <3> QED BY <3>1, <3>2
  <2>3. ASSUME NEW o \in Orders, Cashier!Initialize(o) \/ Cashier!FailInitialization(o) PROVE Kept
    BY <2>3 DEF Cashier!TypeOK, Cashier!Initialize, Cashier!FailInitialization
  <2>4. ASSUME NEW o \in Orders, Cashier!Expire(o) PROVE Kept
    BY <2>4, SetStatusKeeps DEF Cashier!Expire, Cashier!IsDue
  <2>5. ASSUME NEW o \in Orders, NEW c \in Cancelers, Cashier!CancelLocally(o, c) PROVE Kept
    BY <2>5, SetStatusKeeps DEF Cashier!CancelLocally, Cashier!CanCancel
  <2>6. ASSUME NEW o \in Orders, NEW t \in Trades, Cashier!MarkOrderPaid(o, t), UNCHANGED creator
        PROVE  Kept
    BY <2>6, MarkKeeps
  <2>7. ASSUME NEW o \in Orders, NEW c \in Cancelers, Cashier!ReconcileCancel(o, c) PROVE Kept
    BY <2>6, <2>7 DEF Cashier!TypeOK, Cashier!ReconcileCancel
  <2>8. ASSUME NEW o \in Orders, NEW t \in Trades, Cashier!Success(o, t) PROVE Kept
    BY <2>6, <2>8 DEF Cashier!Success
  <2>9. CASE UNCHANGED orders
    BY <2>9
  <2> QED BY <2>1, <2>2, <2>3, <2>4, <2>5, <2>7, <2>8, <2>9
          DEF Cashier!Next, Cashier!Create, Cashier!Cancel, Cashier!Display, Cashier!StartCancel, Cashier!QueryCancel, Cashier!CloseSession, Cashier!Pay, Cashier!Tick, Cashier!vars
<1>2. Cashier!TypeOK /\ PaymentInv /\ [Cashier!Next]_(Cashier!vars) => [Kept]_(Cashier!vars)
  BY <1>1
<1> QED BY <1>2, PaymentInvInit, PaymentInvNext, PaymentTypeCorrect, OrdersOfHandlers, PTL
        DEF Cashier!Spec, Cashier!CompletedIsFinal

(* A request that read a shown order cancels it on a closed session only:  *)
(* between its query, its close and its write nothing opens one again.     *)
THEOREM CancelClosesFirstHolds == HandlersSpec => CancelClosesFirst
<1> DEFINE Closes == \A o \in Orders, c \in Cancelers :
            (canceler'[o][c] # canceler[o][c] /\ canceler[o][c].shown
             /\ orders[o].status # "canceled" /\ orders'[o].status = "canceled")
                => session[o].state = "closed"
<1>1. Cashier!TypeOK /\ PaymentInv /\ [Cashier!Next]_(Cashier!vars) => Closes
  <2> SUFFICES ASSUME Cashier!TypeOK, PaymentInv, [Cashier!Next]_(Cashier!vars) PROVE Closes
    OBVIOUS
  <2>1. CASE UNCHANGED canceler
    BY <2>1
  <2>2. CASE UNCHANGED orders
    BY <2>2
  <2>3. ASSUME NEW o \in Orders, NEW c \in Cancelers, Cashier!CancelLocally(o, c) PROVE Closes
    <3>1. UNCHANGED orders \/ Cashier!SetStatus(o, "canceled")
      BY <2>3 DEF Cashier!CancelLocally
    <3> QED BY <2>3, <3>1, SetStatusKeeps, ResumeKeeps DEF Cashier!CancelLocally, PaymentInv, LocalIsClosed
  <2>4. ASSUME NEW o \in Orders, NEW c \in Cancelers, Cashier!ReconcileCancel(o, c) PROVE Closes
    <3>1. (\E t \in Trades : Cashier!MarkOrderPaid(o, t)) \/ UNCHANGED <<orders, credits, events>>
      BY <2>4 DEF Cashier!TypeOK, Cashier!ReconcileCancel
    <3>2. \A p \in Orders : orders'[p].status = "canceled" => orders[p].status = "canceled"
      BY <2>4, <3>1, MarkKeeps DEF Cashier!ReconcileCancel
    <3> QED BY <3>2
  <2> QED BY <2>1, <2>2, <2>3, <2>4
          DEF Cashier!Next, Cashier!Create, Cashier!CheckLimit, Cashier!Insert, Cashier!Display, Cashier!Initialize, Cashier!FailInitialization, Cashier!Expire,
              Cashier!Cancel, Cashier!StartCancel, Cashier!QueryCancel, Cashier!CloseSession, Cashier!Pay, Cashier!Success, Cashier!Tick, Cashier!vars
<1>2. Cashier!TypeOK /\ PaymentInv /\ [Cashier!Next]_(Cashier!vars) => [Closes]_(Cashier!vars)
  BY <1>1
<1> QED BY <1>2, PaymentInvInit, PaymentInvNext, PaymentTypeCorrect, OrdersOfHandlers, PTL
        DEF Cashier!Spec, CancelClosesFirst, Cashier!CancelClosesFirst
=============================================================================
