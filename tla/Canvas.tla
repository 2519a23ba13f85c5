-------------------------------- MODULE Canvas --------------------------------
(***************************************************************************)
(* A creative canvas, the users who edit it and the generation runs of its *)
(* nodes: internal/service/canvas/service.go and the transactions of       *)
(* internal/repository/entstore/canvas_store.go.  A step is one            *)
(* transaction, or the reads a request makes before the next one; a        *)
(* request and an editor keep what they have read.                         *)
(*                                                                         *)
(* A run is named by its node and idempotency key: a repeated click asks   *)
(* for the same run.  A draft stands for all that a run's snapshot is      *)
(* compared with: prompt, parameters and inputs of the node.  The results  *)
(* of a run are one unit, filling the node or standing beside it.  The     *)
(* tasks are external: ImageTask and VideoTask.                            *)
(***************************************************************************)
EXTENDS Integers, FiniteSets

CONSTANTS
    Nodes,        \* generation nodes of the canvas
    Drafts,       \* what a node asks for
    Template,     \* the draft a new canvas comes with
    Runs,         \* node and idempotency key of a click on generate
    NodeOf,       \* run -> its node
    Kinds,        \* what a run may make: a "video", whose task can be cancelled,
                  \* an "image", one in "layers", or layers that are "unreadable":
                  \* their metadata or geometry is refused each time
    Projects,     \* the projects the canvas may be in
    Requests,     \* requests the API works on at a time
    Editors,      \* open pages of the canvas
    Redrafts,     \* <<v, d>>: a user may replace v, a draft, a result or nothing, by d
    MaxRevision,  \* bound: the revision up to which users save
    MaxMeta,      \* bound: metadata versions of the canvas
    MaxFaults     \* bound: requests that die

None == "none"
ASSUME CanvasAssumption ==
    /\ Template \in Drafts
    /\ IsFiniteSet(Runs) /\ NodeOf \in [Runs -> Nodes]
    /\ Kinds \subseteq {"video", "image", "layers", "unreadable"}
    /\ Redrafts \subseteq (Drafts \cup Runs \cup {None}) \X Drafts
    /\ None \notin Drafts \cup Runs \cup Projects /\ Drafts \cap Runs = {}
    /\ MaxRevision \in Nat /\ MaxMeta \in Nat /\ MaxFaults \in Nat

Active == {"submitting", "running"}   \* running: also queued and saving
Placed == {"attached", "unplaced"}
Statuses == Active \cup Placed \cup {"succeeded", "failed", "canceled"}
TaskStates == {None, "running", "succeeded", "failed", "canceled"}

VARIABLES
    canvas,    \* the row of the canvas, with its document
    runs,      \* run -> its row
    tasks,     \* run -> the kind, the state and the project of its task
    made,      \* run -> how many tasks were created for it
    lost,      \* runs whose result assets the user has deleted
    requests,  \* request -> what it is about to do
    editors,   \* editor -> the canvas as it has loaded it
    dropped,   \* runs whose results a user has seen and removed
    faults     \* requests that died

vars == <<canvas, runs, tasks, made, lost, requests, editors, dropped, faults>>

(* A node is gone, an empty node with a draft, or filled by a run.  beside *)
(* are the runs whose results stand as nodes of their own.  There is room  *)
(* if the document keeps its limits with results on it (ValidateDocument). *)
Documents == [nodes: [Nodes -> {None} \cup Drafts \cup Runs], beside: SUBSET Runs,
              room: BOOLEAN]
Shown(doc) == doc.beside \cup {r \in Runs : \E n \in Nodes : doc.nodes[n] = r}

Canvases == [deleted: BOOLEAN, rev: Nat, meta: Nat, project: Projects,
             running: Nat, failed: Nat, doc: Documents]
Tasks == [kind: Kinds, state: TaskStates, project: Projects \cup {None}]
Rows == [status: Statuses \cup {None}, draft: Drafts \cup {None}, at: Nat]
NoRow == [status |-> None, draft |-> None, at |-> 0]
NoTask(kind) == [kind |-> kind, state |-> None, project |-> None]
Copies == [rev: Nat, meta: Nat, doc: Documents]
CopyOf(c) == [rev |-> c.rev, meta |-> c.meta, doc |-> c.doc]

(* What a request does next; to is the status it found or wants, rev the   *)
(* revision it has read, blank that it found nothing it could place.       *)
Idle == [step |-> "idle"]
Pending == [step: {"create", "generate", "record", "attach", "place"}, run: Runs,
            rev: Nat, draft: Drafts \cup {None}, project: Projects \cup {None},
            to: Statuses \cup {None}, recover: BOOLEAN]
Doing(step, r) == [step |-> step, run |-> r, rev |-> 0, draft |-> None,
                   project |-> None, to |-> None, recover |-> FALSE]

Init ==
    \E p \in Projects :
        /\ canvas = [deleted |-> FALSE, rev |-> 1, meta |-> 1, project |-> p, running |-> 0,
                     failed |-> 0, doc |-> [nodes |-> [n \in Nodes |-> Template],
                                            beside |-> {}, room |-> TRUE]]
        /\ runs = [r \in Runs |-> NoRow]
        /\ \E kind \in [Runs -> Kinds] : tasks = [r \in Runs |-> NoTask(kind[r])]
        /\ made = [r \in Runs |-> 0]
        /\ lost = {} /\ dropped = {} /\ faults = 0
        /\ requests = [q \in Requests |-> Idle]
        /\ editors = [e \in Editors |-> CopyOf(canvas)]

-----------------------------------------------------------------------------
IsActive(r) == runs[r].status \in Active
Busy == \E r \in Runs : IsActive(r)

(* CanAttachToSource *)
Attachable(r, doc) == doc.nodes[NodeOf[r]] = runs[r].draft

(* validateIntegratedMedia: every asset of the document is there.          *)
MediaThere(doc) == Shown(doc) \cap lost = {}

Turn(q, next) == requests' = [requests EXCEPT ![q] = next]
Done(q) == Turn(q, Idle)

-----------------------------------------------------------------------------
(* Editing *)

Load(e) ==
    /\ ~canvas.deleted
    /\ editors[e] # CopyOf(canvas)
    /\ editors' = [editors EXCEPT ![e] = CopyOf(canvas)]
    /\ UNCHANGED <<canvas, runs, tasks, made, lost, requests, dropped, faults>>

(* What a user may have made of a document: a node deleted, a draft        *)
(* rewritten, results removed, other nodes added until no results fit or   *)
(* taken away again, or only nodes moved.                                  *)
Edits(doc) ==
    {doc} \cup {[doc EXCEPT !.room = b] : b \in BOOLEAN}
          \cup {[doc EXCEPT !.nodes[n] = None] : n \in Nodes}
          \cup {[doc EXCEPT !.beside = @ \ {r}] : r \in Runs}
          \cup {[doc EXCEPT !.nodes[p[1]] = p[2]] : p \in
                    {x \in Nodes \X Drafts : <<doc.nodes[x[1]], x[2]>> \in Redrafts}}

IsCurrent(e) == editors[e].rev = canvas.rev

(* SaveDocument *)
Save(e) ==
    /\ ~canvas.deleted
    /\ IsCurrent(e)
    /\ canvas.rev < MaxRevision
    /\ \E doc \in Edits(editors[e].doc) :
        /\ MediaThere(doc)
        /\ canvas' = [canvas EXCEPT !.doc = doc, !.rev = @ + 1]
        /\ dropped' = dropped \cup (Shown(editors[e].doc) \ Shown(doc))
    /\ editors' = [editors EXCEPT ![e] = CopyOf(canvas')]
    /\ UNCHANGED <<runs, tasks, made, lost, requests, faults>>

Rename(e) ==
    /\ ~canvas.deleted
    /\ editors[e].meta = canvas.meta
    /\ canvas.meta < MaxMeta
    /\ canvas' = [canvas EXCEPT !.meta = @ + 1]
    /\ editors' = [editors EXCEPT ![e].meta = canvas'.meta]
    /\ UNCHANGED <<runs, tasks, made, lost, requests, dropped, faults>>

Rests == canvas.running = 0 /\ ~Busy

TransferProject(e, p) ==
    /\ ~canvas.deleted
    /\ editors[e].meta = canvas.meta
    /\ canvas.meta < MaxMeta
    /\ Rests
    /\ p # canvas.project
    /\ canvas' = [canvas EXCEPT !.project = p, !.meta = @ + 1]
    /\ editors' = [editors EXCEPT ![e].meta = canvas'.meta]
    /\ UNCHANGED <<runs, tasks, made, lost, requests, dropped, faults>>

Delete(e) ==
    /\ ~canvas.deleted
    /\ editors[e].meta = canvas.meta
    /\ Rests
    /\ canvas' = [canvas EXCEPT !.deleted = TRUE, !.meta = @ + 1]
    /\ UNCHANGED <<runs, tasks, made, lost, requests, editors, dropped, faults>>

(* The user deletes the assets a task has delivered. *)
DeleteAssets(r) ==
    /\ tasks[r].state = "succeeded"
    /\ r \notin lost
    /\ lost' = lost \cup {r}
    /\ UNCHANGED <<canvas, runs, tasks, made, requests, editors, dropped, faults>>

-----------------------------------------------------------------------------
(* Generating *)

(* Generate: the run is looked for and the canvas read.                    *)
Generate(q, r) ==
    /\ requests[q] = Idle
    /\ ~canvas.deleted
    /\ runs[r].status = None
    /\ canvas.doc.nodes[NodeOf[r]] \in Drafts
    /\ Turn(q, [Doing("create", r) EXCEPT !.rev = canvas.rev, !.project = canvas.project,
                    !.draft = canvas.doc.nodes[NodeOf[r]]])
    /\ UNCHANGED <<canvas, runs, tasks, made, lost, editors, dropped, faults>>

(* Faulty: a click is not remembered by its key. *)
CreatesAgain(r) == TRUE
IsNew(r) == runs[r].status = None

(* CreateRun: the run exists, the canvas has changed, the node is busy, or *)
(* the run is created.  Generate returns in the first three cases.         *)
CreateRun(q) ==
    /\ requests[q].step = "create"
    /\ LET w == requests[q]
           r == w.run
           free == \A o \in Runs : NodeOf[o] = NodeOf[r] => ~IsActive(o)
       IN  IF /\ IsNew(r) /\ ~canvas.deleted
              /\ w.rev = canvas.rev /\ canvas.doc.nodes[NodeOf[r]] = w.draft /\ free
           THEN /\ runs' = [runs EXCEPT ![r] = [status |-> "submitting", draft |-> w.draft,
                                                at |-> 0]]
                /\ canvas' = [canvas EXCEPT !.running = @ + 1]
                /\ Turn(q, [w EXCEPT !.step = "generate"])
           ELSE Done(q) /\ UNCHANGED <<runs, canvas>>
    /\ UNCHANGED <<tasks, made, lost, editors, dropped, faults>>

(* generator.Generate: the task is created in the project the request has  *)
(* read, or refused.                                                       *)
CreateTask(q) ==
    /\ requests[q].step = "generate"
    /\ LET w == requests[q]
           r == w.run
       IN  \/ /\ tasks' = [tasks EXCEPT ![r].state = "running", ![r].project = w.project]
              /\ made' = [made EXCEPT ![r] = @ + 1]
              /\ Turn(q, [w EXCEPT !.step = "record", !.to = "running"])
           \/ /\ Turn(q, [w EXCEPT !.step = "record", !.to = "failed"])
              /\ UNCHANGED <<tasks, made>>
    /\ UNCHANGED <<canvas, runs, lost, editors, dropped, faults>>

Records(r) == runs[r].status \notin Placed

CountDown(left) == IF left /\ canvas.running > 0 THEN canvas.running - 1 ELSE canvas.running

(* UpdateRun *)
UpdateRun(q) ==
    /\ requests[q].step = "record"
    /\ LET w == requests[q]
           r == w.run
           left == runs[r].status \in Active /\ w.to \notin Active
       IN  IF Records(r)
           THEN /\ runs' = [runs EXCEPT ![r].status = w.to]
                /\ canvas' = [canvas EXCEPT
                        !.running = CountDown(left),
                        !.failed = IF left /\ w.to = "failed" THEN @ + 1 ELSE @]
                /\ IF w.to = "succeeded"
                   THEN Turn(q, Doing("attach", r)) ELSE Done(q)
           ELSE Done(q) /\ UNCHANGED <<runs, canvas>>
    /\ UNCHANGED <<tasks, made, lost, editors, dropped, faults>>

-----------------------------------------------------------------------------
Attaches(r) == runs[r].status = "succeeded"

(* RefreshRun: a run that has succeeded is attached, one that is running   *)
(* is given the state of its task.  The read of the run and that of the    *)
(* task are one step: a run that changes between them may as well change   *)
(* before it is written.                                                   *)
Refresh(q, r) ==
    /\ requests[q] = Idle
    /\ \/ /\ Attaches(r)
          /\ Turn(q, Doing("attach", r))
       \/ /\ runs[r].status = "running"
          /\ Turn(q, [Doing("record", r) EXCEPT !.to = tasks[r].state])
    /\ UNCHANGED <<canvas, runs, tasks, made, lost, editors, dropped, faults>>

(* CancelRun: the task of a video is cancelled at once, or asked to stop   *)
(* and goes on, or has ended; the run becomes canceled in each case.  That *)
(* of a picture cannot be cancelled, nor can a task not yet known.         *)
Cancel(q, r) ==
    /\ requests[q] = Idle
    /\ runs[r].status = "running"
    /\ tasks[r].kind = "video"
    /\ \/ tasks[r].state = "running" /\ tasks' = [tasks EXCEPT ![r].state = "canceled"]
       \/ UNCHANGED tasks
    /\ Turn(q, [Doing("record", r) EXCEPT !.to = "canceled"])
    /\ UNCHANGED <<canvas, runs, made, lost, editors, dropped, faults>>

Unreadable(r) == tasks[r].kind = "unreadable"

(* attachSucceededResults: the canvas is read, and the results placed on   *)
(* it if their node still has its draft; else there is nothing to place.   *)
(* Layers that cannot be read (runLayers) end the request, each time.      *)
ReadCanvas(q) ==
    /\ requests[q].step = "attach"
    /\ LET w == requests[q] IN
       IF canvas.deleted \/ (Attachable(w.run, canvas.doc) /\ Unreadable(w.run)) THEN Done(q)
       ELSE Turn(q, [w EXCEPT !.step = "place",
                         !.rev = IF Attachable(w.run, canvas.doc) THEN canvas.rev ELSE 0])
    /\ UNCHANGED <<canvas, runs, tasks, made, lost, editors, dropped, faults>>

(* AttachResults of the service, for a run that waits for the user.        *)
Recover(q, r) ==
    /\ requests[q] = Idle
    /\ runs[r].status = "unplaced" /\ ~Unreadable(r)
    /\ Turn(q, [Doing("place", r) EXCEPT !.recover = TRUE])
    /\ UNCHANGED <<canvas, runs, tasks, made, lost, editors, dropped, faults>>

(* Results fill their node, or stand beside it, and may take the last      *)
(* room; a request without a revision brings none.                         *)
Brings(w) == w.recover \/ w.rev > 0
WithResults(r, w, room) ==
    IF w.recover \/ (tasks[r].kind = "layers" /\ w.rev > 0)
    THEN [canvas.doc EXCEPT !.beside = @ \cup {r}, !.room = room]
    ELSE IF w.rev > 0 THEN [canvas.doc EXCEPT !.nodes[NodeOf[r]] = r, !.room = room]
    ELSE canvas.doc

(* Faulty: what the request has read is taken to be so still. *)
FitsAsRead(r, w) == TRUE
Fits(r, w) == w.recover \/ (Attachable(r, canvas.doc) /\ w.rev \in {0, canvas.rev})

(* Faulty: results that are in place are placed again. *)
AwaitsAnyone(r, w) ==
    runs[r].status = "succeeded" \/ (runs[r].status \in Placed /\ w.recover)
Awaits(r, w) == runs[r].status = IF w.recover THEN "unplaced" ELSE "succeeded"

(* ValidateDocument and validateIntegratedMedia of the filled document. *)
IsValid(w, doc) == (Brings(w) => canvas.doc.room) /\ MediaThere(doc)

(* AttachResults of the store: the results are placed, or cannot be and    *)
(* wait for the user; a run in another state, a canvas that is gone, a     *)
(* document beyond its limits and a deleted asset end the request.         *)
AttachResults(q) ==
    /\ requests[q].step = "place"
    /\ LET w == requests[q]
           r == w.run
       IN  /\ \E room \in BOOLEAN :
                LET doc == WithResults(r, w, room) IN
                IF ~Awaits(r, w) \/ canvas.deleted \/ (Fits(r, w) /\ ~IsValid(w, doc))
                THEN UNCHANGED <<runs, canvas>>
                ELSE IF ~Fits(r, w)
                THEN runs' = [runs EXCEPT ![r].status = "unplaced"] /\ UNCHANGED canvas
                ELSE /\ canvas' = [canvas EXCEPT !.doc = doc, !.rev = @ + 1]
                     /\ runs' = [runs EXCEPT ![r].status = "attached",
                                             ![r].at = canvas'.rev]
           /\ Done(q)
    /\ UNCHANGED <<tasks, made, lost, editors, dropped, faults>>

(* The process ends, or the client goes away: no later step of the request *)
(* is taken.                                                               *)
Die(q) ==
    /\ requests[q] # Idle
    /\ faults < MaxFaults
    /\ faults' = faults + 1
    /\ Done(q)
    /\ UNCHANGED <<canvas, runs, tasks, made, lost, editors, dropped>>

(* The task of a run ends. *)
TaskEnds(r) ==
    /\ tasks[r].state = "running"
    /\ \E s \in {"succeeded", "failed"} : tasks' = [tasks EXCEPT ![r].state = s]
    /\ UNCHANGED <<canvas, runs, made, lost, requests, editors, dropped, faults>>

RequestSteps(q) ==
    CreateRun(q) \/ CreateTask(q) \/ UpdateRun(q) \/ ReadCanvas(q) \/ AttachResults(q)

Next ==
    \/ \E e \in Editors : \/ Load(e) \/ Save(e) \/ Rename(e) \/ Delete(e)
                          \/ \E p \in Projects : TransferProject(e, p)
    \/ \E q \in Requests : \/ RequestSteps(q) \/ Die(q)
                           \/ \E r \in Runs : \/ Generate(q, r) \/ Refresh(q, r)
                                              \/ Cancel(q, r) \/ Recover(q, r)
    \/ \E r \in Runs : TaskEnds(r) \/ DeleteAssets(r)

Spec == Init /\ [][Next]_vars

(* A request that does not die is carried out, a task ends, and an open    *)
(* page goes on asking for the state of its runs and gets through.         *)
Fairness ==
    /\ \A q \in Requests : WF_vars(RequestSteps(q))
    /\ \A r \in Runs : WF_vars(TaskEnds(r))
    /\ \A r \in Runs : SF_vars(\E q \in Requests : Refresh(q, r))
FairSpec == Spec /\ Fairness

-----------------------------------------------------------------------------
(* Every row, copy and request is well formed. *)
TypeOK ==
    /\ canvas \in Canvases
    /\ runs \in [Runs -> Rows]
    /\ tasks \in [Runs -> Tasks]
    /\ made \in [Runs -> Nat]
    /\ lost \subseteq Runs /\ dropped \subseteq Runs /\ faults \in Nat
    /\ requests \in [Requests -> {Idle} \cup Pending]
    /\ editors \in [Editors -> Copies]

(* Results a user has taken away do not come back, and none stands twice   *)
(* on the canvas, however often its run is refreshed and recovered.        *)
PlacedOnce ==
    \A r \in Shown(canvas.doc) :
        /\ r \notin dropped
        /\ r \in canvas.doc.beside => \A n \in Nodes : canvas.doc.nodes[n] # r

(* A click that is repeated, on any number of connections and after a      *)
(* request has died, pays for one task.                                    *)
OneTaskPerClick == \A r \in Runs : made[r] <= 1

(* A result fills a node only in place of the draft it was made from: what *)
(* a user has changed since is not overwritten (CanAttachToSource).        *)
EditsSurvive ==
    [][\A n \in Nodes :
        LET new == canvas'.doc.nodes[n]
        IN  new \in Runs /\ new # canvas.doc.nodes[n]
            => canvas.doc.nodes[n] = runs[new].draft]_vars

(* Once attached a run stays so, at its revision, whatever late answers    *)
(* about its task are recorded.                                            *)
AttachedForGood ==
    [][\A r \in Runs : runs[r].status = "attached" => runs'[r] = runs[r]]_vars

(* A run that has succeeded is placed or offered for recovery in the end,  *)
(* also if the request that learned of it died, unless it is cancelled,    *)
(* the canvas or an asset is deleted, its layers cannot be read, or the    *)
(* user never again leaves room for its results.                           *)
Settled(r) == runs[r].status \in Placed \cup {"canceled"} \/ canvas.deleted \/ lost # {}

-----------------------------------------------------------------------------
(* What the code does not keep: TLC refutes each of these, with the        *)
(* constants the README names.                                             *)

(* Results that were attached are on the canvas until a user who has seen  *)
(* them takes them away: neither a save from an older copy nor an edit     *)
(* while they were placed loses them.                                      *)
AttachedStays ==
    \A r \in Runs : runs[r].status = "attached" => r \in Shown(canvas.doc) \cup dropped

(* Results wait for the user only if the node they were made for has       *)
(* changed: a save that merely came in between is no reason.               *)
UnplacedHasNoPlace ==
    [][\A r \in Runs :
        runs'[r].status = "unplaced" /\ runs[r].status # "unplaced"
            => ~Attachable(r, canvas.doc)]_vars

(* Results that cannot be placed are offered for recovery: neither a full  *)
(* canvas nor layers that cannot be read leave their run as it is.         *)
RefusedIsOffered == \A r \in Runs : runs[r].status = "succeeded" ~> Settled(r)

(* The canvas counts the runs that are active.                             *)
CountMatches == canvas.running = Cardinality({r \in Runs : IsActive(r)})

(* A run that was submitted gets on, or fails: its node and its canvas do  *)
(* not stay busy.                                                          *)
SubmittingEnds ==
    \A r \in Runs : runs[r].status = "submitting" ~> runs[r].status # "submitting"

(* What a run makes belongs to the project its canvas is in.               *)
TaskInProject ==
    \A r \in Runs :
        tasks[r].state = "running" /\ IsActive(r) => tasks[r].project = canvas.project

(* A canvas is deleted only when nothing is being made for it.             *)
DeletedIsIdle == canvas.deleted => \A r \in Runs : tasks[r].state # "running"
=============================================================================
