-------------------------------- MODULE MCJobs --------------------------------
(***************************************************************************)
(* The two kinds of jobs that workers claim under a lease: the export of a *)
(* gallery (GalleryExport), or the derivatives of media assets (MediaJob). *)
(* A behavior is one of the part that was chosen; the other stays as it    *)
(* began.                                                                  *)
(***************************************************************************)
EXTENDS GalleryExport, TLC

CONSTANTS
    Assets, Kinds, Always, MaxAttempts, MediaFaults, MaxMediaFaults, MaxRequests

VARIABLES
    part, asset, order, mediaJob, row, stored, plan, mediaSlots, looked, requests, errors

(* Every asset is a generated image. *)
Media == INSTANCE MediaJob WITH
    Images <- Assets, PerProcess <- 1, Faults <- MediaFaults, MaxFaults <- MaxMediaFaults,
    job <- mediaJob, object <- stored, slots <- mediaSlots, faults <- errors
ASSUME JobsAssumption == Media!MediaAssumption

mediaVars == <<asset, order, mediaJob, row, stored, plan, mediaSlots, looked, requests, errors>>
jobsVars == <<part, vars, mediaVars>>

JobsInit ==
    /\ Init /\ Media!Init
    /\ \/ part = "media"
       \/ part = "export" /\ \A a \in Assets : asset[a].status = "ready"
JobsNext ==
    \/ part = "export" /\ Next /\ UNCHANGED <<part, mediaVars>>
    \/ part = "media" /\ Media!Next /\ UNCHANGED <<part, vars>>

(* The fairness of each part, while it is the one that was chosen. *)
JobsFairness ==
    /\ WF_jobsVars(part = "export" /\ ExpireLate /\ UNCHANGED <<part, mediaVars>>)
    /\ \A s \in Slots :
        /\ WF_jobsVars(part = "export" /\ Attempt(s) /\ UNCHANGED <<part, mediaVars>>)
        /\ WF_jobsVars(part = "media" /\ Media!Run(s) /\ UNCHANGED <<part, vars>>)
    /\ \A j \in Jobs : WF_jobsVars(part = "export" /\ Deadline(j) /\ UNCHANGED <<part, mediaVars>>)
    /\ \A a \in Assets : WF_jobsVars(part = "media" /\ Media!RunOut(a) /\ UNCHANGED <<part, vars>>)
JobsSpec == JobsInit /\ [][JobsNext]_jobsVars /\ JobsFairness

(* Every job of an asset ends, with workers that die, are overtaken, fail  *)
(* or lose answers, as long as no slot gives back the lease of a job that  *)
(* is still running (runner.go, ClaimDue).                                 *)
MediaJobEnds == []Media!RunningIsLeased => Media!JobEnds
=============================================================================
