------------------------------- MODULE Storage -------------------------------
(***************************************************************************)
(* What puts objects into the storage and what removes them: the cleanup   *)
(* of an object (ObjectCleanup), or the uploads of a user to the backend   *)
(* the program is started with (MediaUpload), a local disk or S3.  A       *)
(* behavior is one of the part that was chosen; the other stays as it      *)
(* began.                                                                  *)
(***************************************************************************)
EXTENDS ObjectCleanup

CONSTANTS
    Keys, Parts, Calls, Loops,   \* of MediaUpload; Loops are its Workers
    Disk, S3                     \* backends: the other constants of MediaUpload

VARIABLES
    part,   \* "cleanup", "local" or "s3"
    session, made, upload, stored, due, stale, signed, calls, loops, errors

(* The uploads to a backend. *)
Uploads(b) == INSTANCE MediaUpload WITH
    Sessions <- b.sessions, Local <- b.local, Long <- b.long, Expires <- b.expires,
    Quota <- b.quota, Faults <- b.faults, MaxFaults <- b.maxFaults,
    Workers <- Loops, object <- stored, workers <- loops, faults <- errors
ASSUME UploadsAssumption ==
    /\ Disk.local /\ Uploads(Disk)!UploadAssumption
    /\ ~S3.local /\ Uploads(S3)!UploadAssumption

uploadVars == <<session, made, upload, stored, due, stale, signed, calls, loops, errors>>
storageVars == <<part, vars, uploadVars>>

StorageInit ==
    /\ Init
    /\ \/ part = "cleanup" /\ Uploads(Disk)!Init
       \/ part = "local" /\ Uploads(Disk)!Init /\ result = "live"
       \/ part = "s3" /\ Uploads(S3)!Init /\ result = "live"
StorageNext ==
    \/ part = "cleanup" /\ Next /\ UNCHANGED <<part, uploadVars>>
    \/ part = "local" /\ Uploads(Disk)!Next /\ UNCHANGED <<part, vars>>
    \/ part = "s3" /\ Uploads(S3)!Next /\ UNCHANGED <<part, vars>>

OnDisk(A) == part = "local" /\ A /\ UNCHANGED <<part, vars>>
InCleanup(A) == part = "cleanup" /\ A /\ UNCHANGED <<part, uploadVars>>
StorageFairness ==
    /\ \A w \in Workers :
        /\ WF_storageVars(InCleanup(Work(w))) /\ WF_storageVars(InCleanup(Sweep(w)))
    /\ \A c \in Calls : WF_storageVars(OnDisk(Uploads(Disk)!Proceed(c)))
    /\ \A w \in Loops :
        /\ WF_storageVars(OnDisk(Uploads(Disk)!ExpiryGoesOn(w)))
        /\ \A s \in Disk.sessions : WF_storageVars(OnDisk(Uploads(Disk)!Claim(w, s)))
    /\ \A s \in Disk.sessions :
        /\ WF_storageVars(OnDisk(Uploads(Disk)!Expire(s)))
        /\ WF_storageVars(OnDisk(Uploads(Disk)!RunOut(s)))
        /\ WF_storageVars(OnDisk(Uploads(Disk)!SweepObject(s)))
        /\ WF_storageVars(OnDisk(Uploads(Disk)!SweepFiles(s)))
StorageSpec == StorageInit /\ [][StorageNext]_storageVars /\ StorageFairness

-----------------------------------------------------------------------------
(* The requests of a client that repeats its initialisation and completion *)
(* make one asset, on either backend (idempotency key, tech design v020).  *)
OneAsset ==
    /\ part = "local" => Uploads(Disk)!OneAsset
    /\ part = "s3" => Uploads(S3)!OneAsset
(* A session on the local disk whose time has run out does not hold its    *)
(* reservation for ever.                                                   *)
SessionsEnd == part = "local" => Uploads(Disk)!SessionsEnd
=============================================================================
