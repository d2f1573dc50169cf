---------------------------- MODULE AccountRecovery ----------------------------
(***************************************************************************)
(* The deletion of one account, and the disaster recovery that must not    *)
(* undo it: the request, the deletion worker, the collection of orphaned   *)
(* documents, a backup of PostgreSQL and MinIO under the exclusive         *)
(* cross-store barrier, the loss of both stores and of Redis, the restore, *)
(* and the three reconciliations.  The account may have one document.      *)
(***************************************************************************)
EXTENDS Integers

CONSTANTS
    MaxRetries,    \* RQ's Retry(max=...)
    MaxFaults,     \* failing calls and dying or slow processes
    MaxDisasters   \* losses of PostgreSQL, MinIO and Redis

ASSUME RecoveryAssumption ==
    MaxRetries \in Nat /\ MaxFaults \in Nat /\ MaxDisasters \in Nat

VARIABLES
    db,          \* PostgreSQL: the rows a backup copies and a restore brings back
    object,      \* MinIO has the document's object
    rest,        \* what else is in the bucket a restore finds: nothing, exactly
                 \* what the backup holds of other documents, or something else
    tomb,        \* the ledger outside both stores has the tombstone
    created,     \* created_at of the deletion, relative to snapshot_at
    req, acked,  \* DELETE /account; it was answered with 202
    upload,      \* an upload of the document by the same user
    queued, left,        \* the deletion task in RQ, its retries
    gcQueued, gc,        \* the collection task in RQ; where a collection is
    wpc,         \* where the deletion worker is
    api, op,     \* the reconciliation at API startup, and the operator's
    backup, saved, mirrored, complete,   \* the backup run and what it holds
    restore,     \* where the restore is, "up" when the service is
    disasters, faults

requests == <<req, acked, upload>>
rq == <<queued, left>>
collection == <<gcQueued, gc>>
reconcilers == <<api, op>>
backups == <<backup, saved, mirrored, complete>>
counts == <<disasters, faults>>
vars == <<db, object, rest, tomb, created, requests, rq, collection, wpc,
          reconcilers, backups, restore, counts>>

DeletionStates == {"PENDING", "QUEUED", "RUNNING", "FAILED", "COMPLETED"}
Row == [user : {"ACTIVE", "DELETING", "GONE"}, session : BOOLEAN, grant : BOOLEAN,
        other : BOOLEAN,     \* somebody else's grant, or global access
        doc : BOOLEAN, job : DeletionStates \cup {"NONE"},
        ref : {"NONE", "PENDING", "FAILED", "DELETED", "RETAINED"}]
NoRows == [user |-> "GONE", session |-> FALSE, grant |-> FALSE, other |-> FALSE,
           doc |-> FALSE, job |-> "NONE", ref |-> "NONE"]

Up == restore = "up"
Live == queued \/ wpc # "idle"
Referenced == db.grant \/ db.other
\* cross_store_barrier: the backup exclusively, a worker's steps together.
BackupHolds == backup \in {"dump", "mirror", "check"}
WorkerHolds == wpc \in {"purge", "collect", "rows", "mark", "user"} \/ gc # "idle"
\* The bucket a restore finds, against the manifest of the backup.
Empty == ~object /\ rest = "none"
Exact == object = mirrored /\ rest = "exact"
\* SELECT ... FOR UPDATE of the document
RowFree == wpc # "rows" /\ gc # "rows"
Fault == faults < MaxFaults /\ faults' = faults + 1 /\ UNCHANGED disasters
\* enqueue_account_deletion_job: a live task stands for the new one.
Enqueue == IF Live THEN UNCHANGED rq ELSE queued' = TRUE /\ left' = MaxRetries

Init ==
    /\ \E g, o \in BOOLEAN :
         db = [NoRows EXCEPT !.user = "ACTIVE", !.session = TRUE,
                             !.grant = g, !.other = o, !.doc = g \/ o]
    /\ object = db.doc /\ rest = "other" /\ tomb = FALSE /\ created = "NONE"
    /\ req = "idle" /\ acked = FALSE /\ upload = "idle"
    /\ queued = FALSE /\ left = 0 /\ gcQueued = FALSE /\ gc = "idle"
    /\ wpc = "idle" /\ api = "idle" /\ op = "idle"
    /\ backup = "idle" /\ saved = NoRows /\ mirrored = FALSE /\ complete = FALSE
    /\ restore = "up" /\ disasters = 0 /\ faults = 0

(***************************************************************************)
(* The user's requests                                                     *)
(***************************************************************************)
Login ==
    /\ Up /\ db.user = "ACTIVE" /\ ~db.session
    /\ db' = [db EXCEPT !.session = TRUE]
    /\ UNCHANGED <<object, rest, tomb, created, requests, rq, collection, wpc,
                   reconcilers, backups, restore, counts>>

\* resolve() authenticates the upload; its grant comes later.
UploadAuthenticate ==
    /\ Up /\ upload = "idle" /\ db.user = "ACTIVE" /\ db.session
    /\ upload' = "granting"
    /\ UNCHANGED <<db, object, rest, tomb, created, req, acked, rq, collection, wpc,
                   reconcilers, backups, restore, counts>>

\* grant_private; a user who is gone breaks the foreign key.
UploadGrant ==
    /\ Up /\ upload = "granting" /\ ~BackupHolds /\ RowFree
    /\ upload' = "done"
    /\ db' = [db EXCEPT !.grant = @ \/ (db.doc /\ db.user # "GONE")]
    /\ UNCHANGED <<object, rest, tomb, created, req, acked, rq, collection, wpc,
                   reconcilers, backups, restore, counts>>

\* An administrator gives everybody access.
Share ==
    /\ Up /\ RowFree /\ db.doc /\ ~db.other
    /\ db' = [db EXCEPT !.other = TRUE]
    /\ UNCHANGED <<object, rest, tomb, created, requests, rq, collection, wpc,
                   reconcilers, backups, restore, counts>>

\* request_account_deletion computes created_at ...
RequestCreated ==
    /\ Up /\ req = "idle" /\ db.user = "ACTIVE" /\ db.session
    /\ req' = "commit"
    /\ created' = IF backup = "idle" THEN "BEFORE" ELSE "AFTER"
    /\ UNCHANGED <<db, object, rest, tomb, acked, upload, rq, collection, wpc,
                   reconcilers, backups, restore, counts>>

Deleting(row) ==
    [row EXCEPT !.user = "DELETING", !.session = FALSE, !.job = "PENDING",
                !.ref = IF row.grant THEN "PENDING" ELSE "NONE"]

\* ... and commits the job later, outside the barrier.
RequestCommit ==
    /\ Up /\ req = "commit" /\ req' = "record"
    /\ db' = Deleting(db)
    /\ UNCHANGED <<object, rest, tomb, created, acked, upload, rq, collection, wpc,
                   reconcilers, backups, restore, counts>>

RequestRecord ==
    /\ Up /\ req = "record"
    /\ \/ tomb' = TRUE /\ req' = "enqueue" /\ UNCHANGED counts
       \/ Fault /\ req' = "refused" /\ UNCHANGED tomb     \* 503
    /\ UNCHANGED <<db, object, rest, created, acked, upload, rq, collection, wpc,
                   reconcilers, backups, restore>>

RequestEnqueue ==
    /\ Up /\ req = "enqueue"
    /\ \/ Enqueue /\ req' = "advance" /\ UNCHANGED <<acked, counts>>
       \/ Fault /\ req' = "done" /\ acked' = TRUE /\ UNCHANGED rq
    /\ UNCHANGED <<db, object, rest, tomb, created, upload, collection, wpc,
                   reconcilers, backups, restore>>

Advanced(states) ==
    db' = [db EXCEPT !.job = IF @ \in states THEN "QUEUED" ELSE @]

\* The conditional UPDATE: a fast worker may already own the job.
RequestAdvance ==
    /\ Up /\ req = "advance" /\ req' = "done" /\ acked' = TRUE
    /\ Advanced({"PENDING"})
    /\ UNCHANGED <<object, rest, tomb, created, upload, rq, collection, wpc,
                   reconcilers, backups, restore, counts>>

(***************************************************************************)
(* process_account_deletion, by RQ or inline by the restore                *)
(***************************************************************************)
Inline == restore = "delete"
WorkerEnds ==
    wpc' = "idle" /\ restore' = IF Inline THEN "jobs" ELSE restore
WorkerTo(step) == wpc' = step /\ UNCHANGED restore

WorkerStart ==
    /\ Up /\ queued /\ wpc = "idle" /\ queued' = FALSE
    /\ WorkerTo(IF tomb THEN "enter" ELSE "record")
    /\ UNCHANGED <<db, object, rest, tomb, created, requests, left, collection,
                   reconcilers, backups, counts>>

WorkerRecord ==
    /\ wpc = "record" /\ WorkerTo("enter") /\ tomb' = TRUE
    /\ UNCHANGED <<db, object, rest, created, requests, rq, collection, reconcilers,
                   backups, counts>>

WorkerEnter ==
    /\ wpc = "enter" /\ ~BackupHolds
    /\ IF db.job \in {"NONE", "COMPLETED"}
       THEN WorkerEnds /\ UNCHANGED db
       ELSE WorkerTo("purge") /\ db' = [db EXCEPT !.job = "RUNNING"]
    /\ UNCHANGED <<object, rest, tomb, created, requests, rq, collection,
                   reconcilers, backups, counts>>

WorkerPurge ==
    /\ wpc = "purge" /\ WorkerTo("collect")
    /\ db' = [db EXCEPT !.session = FALSE, !.grant = FALSE]
    /\ UNCHANGED <<object, rest, tomb, created, requests, rq, collection,
                   reconcilers, backups, counts>>

\* Mutant of WorkerCollect: the refs say what to delete.
CollectByRefs ==
    /\ wpc = "collect" /\ gc # "rows"
    /\ IF db.ref \in {"PENDING", "FAILED"} /\ db.doc
       THEN WorkerTo("rows") /\ object' = FALSE /\ UNCHANGED db
       ELSE WorkerTo("user") /\ UNCHANGED <<db, object>>
    /\ UNCHANGED <<rest, tomb, created, requests, rq, collection, reconcilers,
                   backups, counts>>

\* collect_canonical_document: references are read again under the row lock,
\* then the object goes and the lock is kept.
WorkerCollect ==
    /\ wpc = "collect" /\ gc # "rows"
    /\ CASE db.ref \notin {"PENDING", "FAILED"} ->
              WorkerTo("user") /\ UNCHANGED <<db, object>>
         [] db.ref \in {"PENDING", "FAILED"} /\ db.doc /\ ~Referenced ->
              WorkerTo("rows") /\ object' = FALSE /\ UNCHANGED db
         [] OTHER ->
              /\ WorkerTo("user") /\ UNCHANGED object
              /\ db' = [db EXCEPT !.ref = IF db.doc THEN "RETAINED" ELSE "DELETED"]
    /\ UNCHANGED <<rest, tomb, created, requests, rq, collection, reconcilers,
                   backups, counts>>

WorkerRows ==
    /\ \/ wpc = "rows" /\ WorkerTo("mark") /\ db' = [db EXCEPT !.doc = FALSE]
       \/ wpc = "mark" /\ WorkerTo("user") /\ db' = [db EXCEPT !.ref = "DELETED"]
    /\ UNCHANGED <<object, rest, tomb, created, requests, rq, collection,
                   reconcilers, backups, counts>>

\* The user's row, and with it a grant that came late; then COMPLETED.
WorkerUser ==
    /\ wpc = "user" /\ WorkerEnds
    /\ db' = [db EXCEPT !.user = "GONE", !.grant = FALSE, !.session = FALSE,
                        !.job = "COMPLETED"]
    /\ UNCHANGED <<object, rest, tomb, created, requests, rq, collection,
                   reconcilers, backups, counts>>

\* The exception is recorded and raised: RQ tries again, a restore fails.
WorkerFails ==
    /\ wpc # "idle" /\ Fault /\ wpc' = "idle"
    /\ db' = IF wpc \in {"record", "enter"} THEN db
             ELSE [db EXCEPT !.job = "FAILED",
                             !.ref = IF wpc \in {"collect", "rows", "mark"}
                                        /\ @ = "PENDING" THEN "FAILED" ELSE @]
    /\ restore' = IF Inline THEN "postgres" ELSE restore
    /\ IF Inline THEN UNCHANGED rq
       ELSE queued' = (queued \/ left > 0)
            /\ left' = IF queued \/ left = 0 THEN left ELSE left - 1
    /\ UNCHANGED <<object, rest, tomb, created, requests, collection,
                   reconcilers, backups>>

\* A worker process that dies leaves RUNNING; RQ may lose the task with it.
WorkerCrash ==
    /\ Up /\ wpc # "idle" /\ Fault /\ wpc' = "idle"
    /\ queued' \in {queued, TRUE} /\ UNCHANGED left
    /\ UNCHANGED <<db, object, rest, tomb, created, requests, collection,
                   reconcilers, backups, restore>>

WorkerStep ==
    \/ WorkerStart \/ WorkerRecord \/ WorkerEnter \/ WorkerPurge
    \/ WorkerCollect \/ WorkerRows \/ WorkerUser

(***************************************************************************)
(* process_document_gc                                                     *)
(***************************************************************************)
GcStart ==
    /\ Up /\ gcQueued /\ gc = "idle" /\ ~BackupHolds /\ wpc # "rows"
    /\ gcQueued' = FALSE
    /\ IF db.doc /\ ~Referenced
       THEN object' = FALSE /\ gc' = "rows"
       ELSE UNCHANGED <<object, gc>>
    /\ UNCHANGED <<db, rest, tomb, created, requests, rq, wpc, reconcilers, backups,
                   restore, counts>>

GcRows ==
    /\ gc = "rows" /\ gc' = "idle" /\ db' = [db EXCEPT !.doc = FALSE]
    /\ UNCHANGED <<object, rest, tomb, created, requests, rq, gcQueued, wpc,
                   reconcilers, backups, restore, counts>>

GcFails ==
    /\ gc = "rows" /\ Fault /\ gc' = "idle" /\ gcQueued' \in BOOLEAN
    /\ UNCHANGED <<db, object, rest, tomb, created, requests, rq, wpc, reconcilers,
                   backups, restore>>

(***************************************************************************)
(* reconcile_durable_cleanup_intents when the API starts, and the          *)
(* operator's reconcile_durable_jobs                                       *)
(***************************************************************************)
\* A request that is being served dies with the process.
ApiRestart ==
    /\ Up /\ api = "idle" /\ api' = "jobs"
    /\ IF req \in {"idle", "done", "refused"} /\ upload # "granting"
       THEN UNCHANGED <<req, upload, counts>>
       ELSE /\ Fault
            /\ req' = IF req \in {"idle", "done"} THEN req ELSE "refused"
            /\ upload' = IF upload = "granting" THEN "done" ELSE upload
    /\ UNCHANGED <<db, object, rest, tomb, created, acked, rq, collection, wpc, op,
                   backups, restore>>

StartupJobs ==
    /\ Up /\ api = "jobs"
    /\ IF db.job \in {"PENDING", "FAILED"}
       THEN tomb' = TRUE /\ Enqueue /\ api' = "advance"
       ELSE api' = "orphans" /\ UNCHANGED <<rest, tomb, rq>>
    /\ UNCHANGED <<db, object, rest, created, requests, collection, wpc, op,
                   backups, restore, counts>>

StartupAdvance ==
    /\ Up /\ api = "advance" /\ api' = "orphans"
    /\ Advanced({"PENDING", "FAILED"})
    /\ UNCHANGED <<object, rest, tomb, created, requests, rq, collection, wpc, op,
                   backups, restore, counts>>

\* Mutant of StartupOrphans: only documents of a deletion's refs.
OrphansOfRefs ==
    /\ Up /\ api = "orphans" /\ api' = "idle"
    /\ gcQueued' = (gcQueued \/ (db.doc /\ ~Referenced /\ db.ref = "FAILED"))
    /\ UNCHANGED <<db, object, rest, tomb, created, requests, rq, gc, wpc, op,
                   backups, restore, counts>>

StartupOrphans ==
    /\ Up /\ api = "orphans" /\ api' = "idle"
    /\ gcQueued' = (gcQueued \/ (db.doc /\ ~Referenced))
    /\ UNCHANGED <<db, object, rest, tomb, created, requests, rq, gc, wpc, op,
                   backups, restore, counts>>

\* A RUNNING job is stale when it started long ago: at once after a fault,
\* since its worker may be slow, or some time after its worker has died.
Requeues == {"PENDING", "QUEUED", "FAILED"}
OperatorJobs ==
    /\ Up /\ op = "idle"
    /\ \/ ~Live /\ db.job \in Requeues \cup {"RUNNING"} /\ UNCHANGED counts
       \/ Live /\ db.job = "RUNNING" /\ Fault
    /\ db' = [db EXCEPT !.job = IF @ = "RUNNING" THEN "FAILED" ELSE @]
    /\ queued' = TRUE /\ left' = MaxRetries
    /\ op' = IF db.job = "QUEUED" THEN "idle" ELSE "write"
    /\ UNCHANGED <<object, rest, tomb, created, requests, collection, wpc, api,
                   backups, restore>>

\* job.state = "QUEUED", unconditionally: the worker may have ended meanwhile.
OperatorWrite ==
    /\ Up /\ op = "write" /\ op' = "idle"
    /\ db' = [db EXCEPT !.job = "QUEUED"]
    /\ UNCHANGED <<object, rest, tomb, created, requests, rq, collection, wpc, api,
                   backups, restore, counts>>

(***************************************************************************)
(* create_backup                                                           *)
(***************************************************************************)
\* snapshot_at is read under the barrier, before pg_dump takes its snapshot.
BackupBegin ==
    /\ Up /\ backup = "idle" /\ ~WorkerHolds
    /\ backup' = "dump"
    /\ created' = IF created = "NONE" THEN "NONE" ELSE "BEFORE"
    /\ UNCHANGED <<db, object, rest, tomb, requests, rq, collection, wpc, reconcilers,
                   saved, mirrored, complete, restore, counts>>

BackupStep ==
    /\ Up
    /\ \/ backup = "dump" /\ backup' = "mirror" /\ saved' = db
          /\ UNCHANGED <<mirrored, complete>>
       \/ backup = "mirror" /\ backup' = "check" /\ mirrored' = object
          /\ UNCHANGED <<saved, complete>>
       \* reconcile_cross_store looks at the stores, not at the copies
       \/ backup = "check" /\ UNCHANGED <<saved, mirrored>>
          /\ IF db.doc => object THEN backup' = "done" /\ complete' = TRUE
                                 ELSE backup' = "failed" /\ UNCHANGED complete
    /\ UNCHANGED <<db, object, rest, tomb, created, requests, rq, collection, wpc,
                   reconcilers, restore, counts>>

BackupFails ==
    /\ BackupHolds /\ Fault /\ backup' = "failed"
    /\ UNCHANGED <<db, object, rest, tomb, created, requests, rq, collection, wpc,
                   reconcilers, saved, mirrored, complete, restore>>

(***************************************************************************)
(* The loss of the stores, and restore_backup with the services stopped    *)
(***************************************************************************)
\* PostgreSQL and Redis are lost, MinIO is lost or kept as it was.
Disaster ==
    /\ Up /\ complete /\ disasters < MaxDisasters
    /\ disasters' = disasters + 1 /\ UNCHANGED faults
    /\ db' = NoRows
    /\ \/ object' = FALSE /\ rest' = "none"
       \/ UNCHANGED object /\ rest' \in {"exact", "other"}
    /\ queued' = FALSE /\ left' = 0 /\ gcQueued' = FALSE /\ gc' = "idle"
    /\ wpc' = "idle" /\ api' = "idle" /\ op' = "idle"
    /\ req' = IF req = "done" THEN "done" ELSE "refused"
    /\ upload' = "done" /\ restore' = "postgres"
    /\ UNCHANGED <<tomb, created, acked, backups>>

RestorePostgres ==
    /\ restore = "postgres" /\ restore' = "minio" /\ db' = saved
    /\ UNCHANGED <<object, rest, tomb, created, requests, rq, collection, wpc,
                   reconcilers, backups, counts>>

\* restore_minio fills an empty bucket and accepts one that is exactly the
\* backup's; anything else is refused, by every rerun, until it is emptied.
RestoreMinio ==
    /\ restore = "minio"
    /\ IF Empty \/ Exact
       THEN restore' = "check" /\ object' = mirrored /\ rest' = "exact"
       ELSE restore' = "refused" /\ UNCHANGED <<object, rest>>
    /\ UNCHANGED <<db, tomb, created, requests, rq, collection, wpc,
                   reconcilers, backups, counts>>

\* The operator empties the bucket and runs the restore again.
EmptyBucket ==
    /\ restore = "refused" /\ restore' = "postgres"
    /\ object' = FALSE /\ rest' = "none"
    /\ UNCHANGED <<db, tomb, created, requests, rq, collection, wpc,
                   reconcilers, backups, counts>>

\* reconcile_cross_store, then revoke_all_auth_sessions
RestoreCheck ==
    /\ restore = "check" /\ (db.doc => object) /\ restore' = "replay"
    /\ db' = [db EXCEPT !.session = FALSE]
    /\ UNCHANGED <<object, rest, tomb, created, requests, rq, collection, wpc,
                   reconcilers, backups, counts>>

\* Mutant of RestoreReplay: the dump's own intents are replayed.
ReplayFromDump ==
    /\ restore = "replay" /\ restore' = "jobs" /\ UNCHANGED <<wpc, db>>
    /\ UNCHANGED <<object, rest, tomb, created, requests, rq, collection,
                   reconcilers, backups, counts>>

\* newer_than(snapshot_at), replay_deletion_tombstones(enqueue=False)
RestoreReplay ==
    /\ restore = "replay"
    /\ IF tomb /\ created = "AFTER" /\ db.user # "GONE"
       THEN /\ restore' = "delete" /\ wpc' = "enter"
            /\ db' = IF db.job = "NONE" THEN Deleting(db)
                     ELSE [db EXCEPT !.user = "DELETING", !.session = FALSE]
       ELSE restore' = "jobs" /\ UNCHANGED <<wpc, db>>
    /\ UNCHANGED <<object, rest, tomb, created, requests, rq, collection,
                   reconcilers, backups, counts>>

\* reconcile_durable_jobs; a RUNNING job that is not yet stale is left alone.
RestoreJobs ==
    /\ restore = "jobs" /\ restore' = "final"
    /\ \E stale \in BOOLEAN :
         IF db.job \in Requeues \/ (db.job = "RUNNING" /\ stale)
         THEN db' = [db EXCEPT !.job = "QUEUED"] /\ Enqueue
         ELSE UNCHANGED <<db, rq>>
    /\ UNCHANGED <<object, rest, tomb, created, requests, collection, wpc,
                   reconcilers, backups, counts>>

\* the last reconcile_cross_store, clear_recovery_mode; the API starts.
RestoreFinal ==
    /\ restore = "final" /\ (db.doc => object) /\ restore' = "up" /\ api' = "jobs"
    /\ UNCHANGED <<db, object, rest, tomb, created, requests, rq, collection, wpc, op,
                   backups, counts>>

\* It stays in recovery mode and the operator runs it again; an upload that
\* was cut short leaves some of the objects, in no particular order.
RestoreFails ==
    /\ restore \notin {"up", "refused", "delete"} /\ Fault /\ restore' = "postgres"
    /\ IF restore = "minio" /\ Empty
       THEN object' \in {FALSE, mirrored} /\ rest' \in {"none", "exact", "other"}
       ELSE UNCHANGED <<object, rest>>
    /\ UNCHANGED <<db, tomb, created, requests, rq, collection, wpc,
                   reconcilers, backups>>

RestoreStep ==
    \/ RestorePostgres \/ RestoreMinio \/ EmptyBucket \/ RestoreCheck
    \/ RestoreReplay \/ RestoreJobs \/ RestoreFinal

RequestStep == RequestCommit \/ RequestRecord \/ RequestEnqueue \/ RequestAdvance
StartupStep == ApiRestart \/ StartupJobs \/ StartupAdvance \/ StartupOrphans

Next ==
    \/ Login \/ UploadAuthenticate \/ UploadGrant \/ Share
    \/ RequestCreated \/ RequestStep
    \/ WorkerStep \/ WorkerFails \/ WorkerCrash
    \/ GcStart \/ GcRows \/ GcFails
    \/ StartupStep \/ OperatorJobs \/ OperatorWrite
    \/ BackupBegin \/ BackupStep \/ BackupFails
    \/ Disaster \/ RestoreStep \/ RestoreFails

Spec == Init /\ [][Next]_vars

\* Workers, requests and a restore run on; the API is started, and the
\* operator reconciles, again and again; he empties a bucket that is refused.
FairSpec ==
    /\ Spec
    /\ WF_vars(RequestStep) /\ WF_vars(UploadGrant)
    /\ WF_vars(WorkerStep) /\ WF_vars(GcStart) /\ WF_vars(GcRows)
    /\ WF_vars(ApiRestart) /\ WF_vars(StartupJobs)
    /\ WF_vars(StartupAdvance) /\ WF_vars(StartupOrphans)
    /\ WF_vars(OperatorJobs) /\ WF_vars(OperatorWrite)
    /\ WF_vars(BackupStep) /\ WF_vars(RestoreStep)

-----------------------------------------------------------------------------
\* Every variable has its type; the worker runs inline only in a restore.
TypeOK ==
    /\ db \in Row /\ saved \in Row
    /\ object \in BOOLEAN /\ tomb \in BOOLEAN /\ mirrored \in BOOLEAN
    /\ complete \in BOOLEAN /\ acked \in BOOLEAN
    /\ queued \in BOOLEAN /\ gcQueued \in BOOLEAN
    /\ created \in {"NONE", "BEFORE", "AFTER"}
    /\ req \in {"idle", "commit", "record", "enqueue", "advance", "done", "refused"}
    /\ upload \in {"idle", "granting", "done"}
    /\ left \in 0..MaxRetries /\ gc \in {"idle", "rows"}
    /\ wpc \in {"idle", "record", "enter", "purge", "collect", "rows", "mark", "user"}
    /\ api \in {"idle", "jobs", "advance", "orphans"} /\ op \in {"idle", "write"}
    /\ backup \in {"idle", "dump", "mirror", "check", "done", "failed"}
    /\ restore \in {"up", "postgres", "minio", "refused", "check", "replay",
                   "delete", "jobs", "final"}
    /\ rest \in {"none", "exact", "other"}
    /\ disasters \in 0..MaxDisasters /\ faults \in 0..MaxFaults
    /\ ~Up => /\ Inline <=> wpc # "idle"
              /\ gc = "idle" /\ op = "idle" /\ api = "idle"

\* created_at fell before snapshot_at, the commit after the dump.
Straddles == complete /\ created = "BEFORE" /\ saved.job = "NONE"

\* A deletion answered with 202 is never undone, not by any restore, unless
\* it straddled the backup's snapshot.
DeletedStaysDeleted == Up /\ acked /\ ~Straddles => db.user # "ACTIVE"

\* docs/deployment/account-deletion-recovery-v1.md, without the exception: the
\* deletions after the backup's snapshot are found by their tombstones.
RestoreReplaysDeletions == Up /\ acked => db.user # "ACTIVE"

\* Nothing of an account is erased before the ledger can tell a restore so.
LedgerBeforeErasure == Up /\ db.user = "GONE" => tomb

\* What a complete backup holds belongs together, although the last check
\* compares the stores and not the copies: rows and object were copied with
\* no collection in between.
BackupPairsUp == complete => saved.doc = mirrored

\* A document somebody else may read keeps its row, and the object it has,
\* whatever the deletion, a late upload and a collection do.
SharedSurvives ==
    [][Up /\ Up' /\ db.other
       => (object => object') /\ (db.doc => db'.doc) /\ db'.other]_vars

\* Every deletion whose tombstone was written ends, once and for all, answered
\* or not, unless its request straddled the snapshot of a backup: the user is
\* gone, and so is the document nobody else may read.
Erased == db.user = "GONE" /\ db.job = "COMPLETED" /\ (db.other \/ ~(db.doc \/ object))
DeletionEnds == <>[](tomb /\ ~Straddles => Erased)

=============================================================================
