----------------------------- MODULE MediaUpload -----------------------------
(***************************************************************************)
(* Resumable uploads: internal/service/mediaasset/service.go and           *)
(* reconcile.go over the transactions of                                   *)
(* internal/repository/entstore/media_store.go and the multipart backends  *)
(* of internal/storage (local_multipart.go, multipart.go).                 *)
(*                                                                         *)
(* A step is one access to the table of sessions or to the storage: every  *)
(* request reads its session, goes to the storage, and then writes.  All   *)
(* files count the same against the quota, and a client completes a        *)
(* session with the list of all its parts.  The sweep of stored objects is *)
(* one step here; ObjectCleanup has its details.                           *)
(***************************************************************************)
EXTENDS Integers, FiniteSets

CONSTANTS
    Sessions,   \* ids of upload sessions; each names an object
    Keys,       \* idempotency keys of one user
    Parts,      \* the parts a file is cut into
    Calls,      \* requests under way at a time
    Workers,    \* loops of the cleanup role
    Local,      \* the backend is the local one, not S3
    Long,       \* sessions last longer than the grace of the sweep
    Expires,    \* sessions whose time runs out
    Quota,      \* uploads and assets the user may have
    Faults,     \* what goes wrong
    MaxFaults   \* bound: how often

UploadAssumption ==
    /\ Local \in BOOLEAN /\ Long \in BOOLEAN
    /\ Expires \subseteq Sessions
    /\ Quota \in Nat /\ MaxFaults \in Nat

VARIABLES
    session,   \* row of a session: status, key, recorded parts
    made,      \* assets created from a session
    upload,    \* multipart upload in the storage: state and stored parts
    object,    \* sessions whose object is in the storage
    due,       \* sessions whose time has run out
    stale,     \* expiring sessions whose lease has run out
    signed,    \* URLs handed out for parts
    calls,     \* request -> what it is about to do
    workers,   \* loop -> what it is about to do
    faults     \* faults so far

rows == <<session, made>>
storage == <<upload, object, signed>>
clock == <<due, stale>>
vars == <<rows, storage, clock, calls, workers, faults>>

Writable == {"initialized", "uploading"}
Counted == Writable \cup {"completing"}
Open == Counted \cup {"expiring"}
Ended == {"completed", "aborted", "expired"}
NoKey == "none"
NoSession == [status |-> "none", key |-> NoKey, parts |-> {}]
NoUpload == [state |-> "none", parts |-> {}]
Gone == [state |-> "gone", parts |-> {}]
Idle == [step |-> "idle"]

Init ==
    /\ session = [s \in Sessions |-> NoSession]
    /\ made = [s \in Sessions |-> 0]
    /\ upload = [s \in Sessions |-> NoUpload]
    /\ object = {} /\ due = {} /\ stale = {} /\ signed = {}
    /\ calls = [c \in Calls |-> Idle]
    /\ workers = [w \in Workers |-> Idle]
    /\ faults = 0

Fault(f) == f \in Faults /\ faults < MaxFaults /\ faults' = faults + 1
Become(c, next) == calls' = [calls EXCEPT ![c] = next]
Begins(c, step, s) == calls[c] = Idle /\ Become(c, [step |-> step, session |-> s])
GoesOn(c, step) == Become(c, [step |-> step, session |-> calls[c].session])
At(c, step, s) == calls[c].step = step /\ calls[c].session = s
SetStatus(s, status) == session' = [session EXCEPT ![s].status = status]

-----------------------------------------------------------------------------
(* InitUpload: a key that has a session already is answered with it. *)
InitUpload(c, k) ==
    /\ calls[c] = Idle
    /\ \A s \in Sessions : session[s].key # k
    /\ Become(c, [step |-> "create", key |-> k])
    /\ UNCHANGED <<rows, storage, clock, workers, faults>>

CreateMultipart(c, s) ==
    /\ calls[c].step = "create"
    /\ upload[s] = NoUpload
    /\ upload' = [upload EXCEPT ![s] = [state |-> "open", parts |-> {}]]
    /\ Become(c, [step |-> "insert", key |-> calls[c].key, session |-> s])
    /\ UNCHANGED <<rows, object, signed, clock, workers, faults>>

(* activeMediaBytes *)
Used == Cardinality({s \in Sessions : session[s].status \in Counted})
        + Cardinality({s \in Sessions : made[s] > 0})

(* Faulty: the key was looked up before, and is not looked at again. *)
AdmitsRepeated(k) == Used < Quota
(* CreateUpload: the keys of a user are unique. *)
Admits(k) == (\A s \in Sessions : session[s].key # k) /\ Used < Quota
Insert(c, s) ==
    /\ At(c, "insert", s)
    /\ \/ /\ Admits(calls[c].key)
          /\ session' = [session EXCEPT ![s] = [status |-> "initialized", key |-> calls[c].key, parts |-> {}]]
          /\ Become(c, Idle)
          /\ UNCHANGED faults
       \/ ~Admits(calls[c].key) /\ GoesOn(c, "undo") /\ UNCHANGED <<session, faults>>
       \/ Fault("error") /\ GoesOn(c, "undo") /\ UNCHANGED session
    /\ UNCHANGED <<made, storage, clock, workers>>

(* AbortMultipart, of an upload that is open, merged, or not there any more. *)
AbortMultipart(s) == upload' = [upload EXCEPT ![s] = Gone]

(* What a refused session leaves in the storage. *)
Withdraw(s) == AbortMultipart(s)

(* The session of the key is looked up again for the answer. *)
Undo(c, s) ==
    /\ At(c, "undo", s)
    /\ \/ Withdraw(s) /\ UNCHANGED faults
       \/ UNCHANGED upload /\ Fault("abort")
    /\ Become(c, Idle)
    /\ UNCHANGED <<rows, object, signed, clock, workers>>

-----------------------------------------------------------------------------
IsWritable(s) == session[s].status \in Writable /\ s \notin due

(* SignPart: the client sends the part to S3 itself, while the URL lasts.  *)
SignPart(s, p) ==
    /\ ~Local /\ IsWritable(s)
    /\ signed' = signed \cup {<<s, p>>}
    /\ UNCHANGED <<rows, upload, object, clock, calls, workers, faults>>

Stores(s, ps) == upload[s].state = "open" /\ upload' = [upload EXCEPT ![s].parts = @ \cup ps]

PutSigned(s, p) ==
    /\ <<s, p>> \in signed
    /\ Stores(s, {p})
    /\ UNCHANGED <<rows, object, signed, clock, calls, workers, faults>>

(* UploadPart: the parts recorded are those of the row as it was read,     *)
(* and the new one.                                                        *)
UploadPart(c, s, p) ==
    /\ calls[c] = Idle /\ IsWritable(s)
    /\ Become(c, [step |-> "put", session |-> s, part |-> p, parts |-> session[s].parts])
    /\ UNCHANGED <<rows, storage, clock, workers, faults>>

Recording(c, parts) == Become(c, [step |-> "record", session |-> calls[c].session, parts |-> parts])

FailsPut(c) == Become(c, Idle) /\ UNCHANGED upload

PutPart(c, s) ==
    /\ At(c, "put", s)
    /\ \/ Stores(s, {calls[c].part}) /\ Recording(c, calls[c].parts \cup {calls[c].part}) /\ UNCHANGED faults
       \/ upload[s].state # "open" /\ FailsPut(c) /\ UNCHANGED faults
       \/ Fault("put") /\ FailsPut(c)
    /\ UNCHANGED <<rows, object, signed, clock, workers>>

(* Status: the parts are those the storage has. *)
Status(c, s) ==
    /\ session[s].status \in Writable
    /\ Begins(c, "list", s)
    /\ UNCHANGED <<rows, storage, clock, workers, faults>>

ListParts(c, s) ==
    /\ At(c, "list", s)
    /\ IF upload[s].state = "gone" THEN Become(c, Idle) ELSE Recording(c, upload[s].parts)
    /\ UNCHANGED <<rows, storage, clock, workers, faults>>

(* RecordCompletedParts: only while the session is written to. *)
Record(c, s) ==
    /\ At(c, "record", s)
    /\ session' = IF session[s].status \in Writable
                  THEN [session EXCEPT ![s].status = "uploading", ![s].parts = calls[c].parts]
                  ELSE session
    /\ Become(c, Idle)
    /\ UNCHANGED <<made, storage, clock, workers, faults>>

-----------------------------------------------------------------------------
(* CompleteUpload: a completed session is answered with its asset.         *)
CompleteUpload(c, s) ==
    /\ session[s].status \notin {"none", "completed", "aborted"} /\ s \notin due
    /\ Begins(c, "mark", s)
    /\ UNCHANGED <<rows, storage, clock, workers, faults>>

Refuses == {"aborted", "expired"}
(* MarkUploadCompleting: a session that is being expired comes back. *)
Mark(c, s) ==
    /\ At(c, "mark", s)
    /\ \/ /\ session[s].status = "completed"
          /\ GoesOn(c, "merge") /\ UNCHANGED session
       \/ /\ session[s].status \in Refuses
          /\ Become(c, Idle) /\ UNCHANGED session
       \/ /\ session[s].status \notin Refuses \cup {"completed"}
          /\ session' = [session EXCEPT ![s].status = "completing", ![s].parts = Parts]
          /\ GoesOn(c, "merge")
    /\ UNCHANGED <<made, storage, clock, workers, faults>>

(* CompleteMultipart: the local backend remembers what it has merged and   *)
(* answers a repetition; to S3 the upload is then unknown.                 *)
Mergeable(s) == upload[s] = [state |-> "open", parts |-> Parts]
Merges(s) ==
    /\ object' = object \cup {s}
    /\ upload' = [upload EXCEPT ![s] = IF Local THEN [state |-> "merged", parts |-> {}] ELSE Gone]
Merge(c, s) ==
    /\ At(c, "merge", s)
    /\ \/ Mergeable(s) /\ Merges(s) /\ GoesOn(c, "commit") /\ UNCHANGED faults
       \/ Mergeable(s) /\ Merges(s) /\ Become(c, Idle) /\ Fault("answer")
       \/ upload[s].state = "merged" /\ GoesOn(c, "commit") /\ UNCHANGED <<upload, object, faults>>
       \/ /\ ~Mergeable(s) /\ upload[s].state # "merged"
          /\ Become(c, Idle) /\ UNCHANGED <<upload, object, faults>>
    /\ UNCHANGED <<rows, signed, clock, workers>>

Commits(s) == session[s].status = "completing"
MakesAsset(s) == SetStatus(s, "completed") /\ made' = [made EXCEPT ![s] = @ + 1]

(* The transaction of CompleteUpload.  When it fails the object is         *)
(* deleted, unless the client is gone.                                     *)
Commit(c, s) ==
    /\ At(c, "commit", s)
    /\ \/ Commits(s) /\ MakesAsset(s) /\ Become(c, Idle) /\ UNCHANGED faults
       \/ Commits(s) /\ MakesAsset(s) /\ GoesOn(c, "delete") /\ Fault("lost")
       \/ session[s].status = "completed" /\ ~Commits(s) /\ Become(c, Idle) /\ UNCHANGED <<rows, faults>>
       \/ /\ session[s].status # "completed" /\ ~Commits(s)
          /\ GoesOn(c, "delete") /\ UNCHANGED <<rows, faults>>
       \/ Fault("error") /\ GoesOn(c, "delete") /\ UNCHANGED rows
       \/ Fault("cancel") /\ Become(c, Idle) /\ UNCHANGED rows
    /\ UNCHANGED <<storage, clock, workers>>

(* sessionStorageDelete *)
Delete(c, s) ==
    /\ At(c, "delete", s)
    /\ \/ object' = object \ {s} /\ UNCHANGED faults
       \/ UNCHANGED object /\ Fault("delete")
    /\ Become(c, Idle)
    /\ UNCHANGED <<rows, upload, signed, clock, workers>>

-----------------------------------------------------------------------------
(* AbortUpload: the parts are dropped before the session is closed. *)
AbortUpload(c, s) ==
    /\ session[s].status \notin {"none", "completed", "aborted"}
    /\ Begins(c, "drop", s)
    /\ UNCHANGED <<rows, storage, clock, workers, faults>>

DropParts(c, s) ==
    /\ At(c, "drop", s)
    /\ \/ AbortMultipart(s) /\ GoesOn(c, "close") /\ UNCHANGED faults
       \/ Fault("abort") /\ Become(c, Idle) /\ UNCHANGED upload
    /\ UNCHANGED <<rows, object, signed, clock, workers>>

Closes(s) == session[s].status # "completed"
Close(c, s) ==
    /\ At(c, "close", s)
    /\ IF Closes(s) THEN SetStatus(s, "aborted") ELSE UNCHANGED session
    /\ Become(c, Idle)
    /\ UNCHANGED <<made, storage, clock, workers, faults>>

(* The API dies, and the request with it. *)
Die(c) ==
    /\ calls[c] # Idle
    /\ Fault("die")
    /\ Become(c, Idle)
    /\ UNCHANGED <<rows, storage, clock, workers>>

-----------------------------------------------------------------------------
Expire(s) ==
    /\ s \in Expires \ due /\ session[s].status # "none"
    /\ due' = due \cup {s}
    /\ UNCHANGED <<rows, storage, stale, calls, workers, faults>>

(* Faulty: a session that was being expired is left to who claimed it. *)
ClaimableOnce(s) == session[s].status \in Counted /\ s \in due
Claimable(s) ==
    \/ session[s].status \in Counted /\ s \in due
    \/ session[s].status = "expiring" /\ s \in stale
(* ClaimExpiredUpload *)
Claim(w, s) ==
    /\ workers[w] = Idle /\ Claimable(s)
    /\ SetStatus(s, "expiring") /\ stale' = stale \ {s}
    /\ workers' = [workers EXCEPT ![w] = [step |-> "drop", session |-> s]]
    /\ UNCHANGED <<made, storage, due, calls, faults>>

(* UploadExpiryProcessor: what fails is left to the end of the lease. *)
ExpiryDrops(w, s) ==
    /\ workers[w] = [step |-> "drop", session |-> s]
    /\ \/ /\ AbortMultipart(s) /\ UNCHANGED faults
          /\ workers' = [workers EXCEPT ![w].step = "finish"]
       \/ /\ Fault("abort") /\ UNCHANGED upload
          /\ workers' = [workers EXCEPT ![w] = Idle]
    /\ UNCHANGED <<rows, object, signed, clock, calls>>

(* CompleteExpiredUpload *)
ExpiryFinishes(w, s) ==
    /\ workers[w] = [step |-> "finish", session |-> s]
    /\ \/ /\ IF session[s].status = "expiring" THEN SetStatus(s, "expired") ELSE UNCHANGED session
          /\ UNCHANGED faults
       \/ Fault("die") /\ UNCHANGED session
    /\ workers' = [workers EXCEPT ![w] = Idle]
    /\ UNCHANGED <<made, storage, clock, calls>>

RunOut(s) ==
    /\ session[s].status = "expiring" /\ s \notin stale
    /\ IF \E w \in Workers : workers[w] # Idle /\ workers[w].session = s THEN Fault("slow") ELSE UNCHANGED faults
    /\ stale' = stale \cup {s}
    /\ UNCHANGED <<rows, storage, due, calls, workers>>

-----------------------------------------------------------------------------
(* Files get as old as the grace of the sweep, a day, while the session is *)
(* open only if sessions last longer.  No request lasts that long.         *)
Old(s) == Long \/ session[s].status \notin Counted \/ s \in due
Held(s, steps) == \E c \in Calls : calls[c].step \in steps /\ calls[c].session = s

(* hasLiveObjectReferences *)
Unreferenced(s) == made[s] = 0
SweepObject(s) ==
    /\ s \in object /\ Unreferenced(s) /\ Old(s) /\ ~Held(s, {"commit", "delete"})
    /\ object' = object \ {s}
    /\ UNCHANGED <<rows, upload, signed, clock, calls, workers, faults>>

(* The files of a local upload lie under media/uploads/: no row refers to  *)
(* them, so the sweep takes them for strays, whatever their session does.  *)
SweepFiles(s) ==
    /\ Local /\ upload[s].state \in {"open", "merged"}
    /\ Old(s) /\ ~Held(s, {"insert", "undo"})
    /\ upload' = [upload EXCEPT ![s] = Gone]
    /\ UNCHANGED <<rows, object, signed, clock, calls, workers, faults>>

-----------------------------------------------------------------------------
Proceed(c) ==
    \E s \in Sessions :
        \/ CreateMultipart(c, s) \/ Insert(c, s) \/ Undo(c, s)
        \/ PutPart(c, s) \/ ListParts(c, s) \/ Record(c, s)
        \/ Mark(c, s) \/ Merge(c, s) \/ Commit(c, s) \/ Delete(c, s)
        \/ DropParts(c, s) \/ Close(c, s)
ExpiryGoesOn(w) == \E s \in Sessions : ExpiryDrops(w, s) \/ ExpiryFinishes(w, s)

Next ==
    \/ \E c \in Calls, k \in Keys : InitUpload(c, k)
    \/ \E c \in Calls, s \in Sessions, p \in Parts : UploadPart(c, s, p)
    \/ \E c \in Calls, s \in Sessions : Status(c, s) \/ CompleteUpload(c, s) \/ AbortUpload(c, s)
    \/ \E c \in Calls : Proceed(c) \/ Die(c)
    \/ \E s \in Sessions, p \in Parts : SignPart(s, p) \/ PutSigned(s, p)
    \/ \E w \in Workers, s \in Sessions : Claim(w, s)
    \/ \E w \in Workers : ExpiryGoesOn(w)
    \/ \E s \in Sessions : Expire(s) \/ RunOut(s) \/ SweepObject(s) \/ SweepFiles(s)

Spec == Init /\ [][Next]_vars

(* Time passes, requests end, and the cleanup role polls. *)
Fairness ==
    /\ \A c \in Calls : WF_vars(Proceed(c))
    /\ \A w \in Workers : WF_vars(ExpiryGoesOn(w))
    /\ \A w \in Workers, s \in Sessions : WF_vars(Claim(w, s))
    /\ \A s \in Sessions : WF_vars(Expire(s)) /\ WF_vars(RunOut(s))
                           /\ WF_vars(SweepObject(s)) /\ WF_vars(SweepFiles(s))
FairSpec == Spec /\ Fairness

-----------------------------------------------------------------------------
CallSteps == {"list", "mark", "merge", "commit", "delete", "drop", "close"}
(* Rows, uploads and requests are well formed. *)
TypeOK ==
    /\ session \in [Sessions -> [status: {"none"} \cup Open \cup Ended,
                                 key: Keys \cup {NoKey}, parts: SUBSET Parts]]
    /\ made \in [Sessions -> Nat]
    /\ upload \in [Sessions -> [state: {"none", "open", "merged", "gone"}, parts: SUBSET Parts]]
    /\ object \subseteq Sessions /\ due \subseteq Sessions /\ stale \subseteq Sessions
    /\ signed \subseteq Sessions \X Parts
    /\ calls \in [Calls -> {Idle} \cup [step: {"create"}, key: Keys]
                    \cup [step: {"insert"}, key: Keys, session: Sessions]
                    \cup [step: {"put"}, session: Sessions, part: Parts, parts: SUBSET Parts]
                    \cup [step: {"record"}, session: Sessions, parts: SUBSET Parts]
                    \cup [step: CallSteps \cup {"undo"}, session: Sessions]]
    /\ workers \in [Workers -> {Idle} \cup [step: {"drop", "finish"}, session: Sessions]]
    /\ faults \in Nat

(* The requests and the answers a client repeats make one asset, however   *)
(* its initialisations and completions meet (idempotency key, tech design  *)
(* v020).                                                                  *)
OneAsset ==
    \A s, t \in Sessions :
        /\ made[s] <= 1
        /\ made[s] > 0 /\ made[t] > 0 /\ session[s].key = session[t].key => s = t

(* An asset has its object in the storage: neither the clean-up of a       *)
(* completion that failed nor the sweep deletes it.                        *)
AssetHasObject == \A s \in Sessions : made[s] > 0 => s \in object

(* A session that was cancelled or has expired has no parts left: they go  *)
(* before its reservation does.                                            *)
EndedHasNoParts == \A s \in Sessions : session[s].status \in {"aborted", "expired"} => upload[s] = Gone

(* When nothing fails, a multipart upload without a session belongs to a   *)
(* request that will give it one or withdraw it.                           *)
NoStrayUpload ==
    \A s \in Sessions :
        faults = 0 /\ upload[s].state = "open" /\ session[s].status = "none" => Held(s, {"insert", "undo"})

(* A client that resumes sends the parts that are not recorded: those      *)
(* that are recorded must be there.                                        *)
RecordedIsStored ==
    \A s \in Sessions : session[s].status \in Writable /\ upload[s].state = "open"
                        => session[s].parts \subseteq upload[s].parts

(* A session that is over is not revived by a request that read it before. *)
EndIsFinal ==
    [][\A s \in Sessions :
        /\ session[s].status = "completed" => session'[s].status = "completed"
        /\ session[s].status \in {"aborted", "expired"} => session'[s].status \in {"aborted", "expired"}]_vars

(* A session whose time has run out does not hold its reservation for      *)
(* ever.                                                                   *)
SessionsEnd == \A s \in Sessions : s \in due /\ session[s].status \in Open ~> session[s].status \in Ended

(* What no asset needs does not stay in the storage. *)
StraysGo ==
    \A s \in Sessions :
        /\ s \in object /\ made[s] = 0 ~> s \notin object \/ made[s] > 0
        /\ upload[s].state = "open" ~> upload[s].state # "open"

-----------------------------------------------------------------------------
(* What the code does not keep: TLC refutes each of these, with the        *)
(* constants the README names.                                             *)

(* What the user stores and has reserved stays within the quota. *)
QuotaKept == Used <= Quota

(* Parts that are stored are dropped only when the session completes or is *)
(* over, or about to be.                                                   *)
DroppedAtTheEnd ==
    [][\A s \in Sessions :
        session[s].status \in Writable /\ upload[s].state = "open" /\ upload'[s].state # "open"
        => s \in due \/ Held(s, {"drop", "merge"})]_vars

(* A file that was uploaded in full becomes an asset, even if the request  *)
(* that completed it was lost, unless the user cancels it.                 *)
MergedBecomesAsset ==
    \A s \in Sessions : s \in object ~> made[s] > 0 \/ session[s].status = "aborted"
=============================================================================
