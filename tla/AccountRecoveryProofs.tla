------------------------- MODULE AccountRecoveryProofs -------------------------
(***************************************************************************)
(* Proofs about the deletion of an account and the disaster recovery, for  *)
(* any number of retries, faults and disasters: no restore undoes a        *)
(* deletion, nothing is erased before the ledger knows, what others may    *)
(* read survives, and a complete backup holds rows and object together.    *)
(*                                                                         *)
(* The argument.  A job row and an open account exclude each other, in the *)
(* database and in the dump (JobClosesAccount).  So a dump either holds    *)
(* the job, and restores a closed account, or the request was created      *)
(* after the snapshot and is found by its tombstone, which was written     *)
(* before the request was answered (RequestOrder) and before any worker    *)
(* step that erases (LedgerFirst); the rest is the exception Straddles.    *)
(* Rows and objects are kept apart by the barrier (Barrier, Paired), and a *)
(* row that is about to go is locked against new references (RowsLast).    *)
(***************************************************************************)
EXTENDS AccountRecovery, TLAPS

-----------------------------------------------------------------------------
(* The inductive invariant.                                                *)

Erasing == {"purge", "collect", "rows", "mark", "user"}

\* Who writes a status works on a job that exists; an account with a job is
\* closed, in the database as in the dump.
JobClosesAccount ==
    /\ wpc \in Erasing \/ op = "write" => db.job # "NONE"
    /\ db.job # "NONE" => db.user # "ACTIVE"
    /\ saved.job # "NONE" => saved.user # "ACTIVE"

\* created_at, then the ledger, then the answer.
RequestOrder ==
    /\ req = "idle" => created = "NONE"
    /\ req \in {"commit", "record", "enqueue", "advance"} => created # "NONE"
    /\ req \in {"enqueue", "advance"} => tomb
    /\ acked => req = "done" /\ tomb /\ created # "NONE"

\* A restore has a complete backup, no request survives the disaster, and
\* until the tombstones are replayed the database is the dump.
RestoredDump ==
    /\ complete => backup = "done"
    /\ ~Up => complete /\ req \in {"done", "refused"}
    /\ restore \in {"minio", "check", "replay"} =>
           db.job = saved.job /\ db.doc = saved.doc

\* A deletion that was committed is not undone, once its tombstone has been
\* replayed.
NotUndone ==
    /\ restore \in {"up", "delete", "jobs", "final"}
    /\ req \in {"record", "enqueue", "advance"} \/ acked
    /\ ~Straddles
    => db.user # "ACTIVE"

\* The ledger knows before a worker erases anything, and so of every account
\* that is gone.
LedgerFirst ==
    /\ wpc \notin {"idle", "record"} => tomb
    /\ db.user = "GONE" /\ restore # "postgres" => tomb
    /\ saved.user = "GONE" /\ backup \in {"mirror", "check", "done"} => tomb

\* The row goes after its object, and under a lock that keeps readers out.
RowsLast == wpc = "rows" \/ gc = "rows" => ~object /\ ~db.other

\* While the backup holds the barrier nobody erases, and what it has copied
\* is what the stores hold.
Barrier ==
    /\ BackupHolds => ~WorkerHolds
    /\ backup \in {"mirror", "check"} => saved.doc = db.doc
    /\ backup = "check" => mirrored = object

\* No object without its row, once a restore has brought back both.
Paired ==
    /\ BackupPairsUp
    /\ restore \notin {"postgres", "minio", "refused"} => (object => db.doc)

RecoveryInv ==
    /\ JobClosesAccount /\ RequestOrder /\ RestoredDump /\ NotUndone
    /\ LedgerFirst /\ RowsLast /\ Barrier /\ Paired

IInv == TypeOK /\ RecoveryInv

-----------------------------------------------------------------------------
USE DEF vars, requests, rq, collection, reconcilers, backups, counts

\* What the fields of a row range over.
Accounts == {"ACTIVE", "DELETING", "GONE"}
Jobs == DeletionStates \cup {"NONE"}
Refs == {"NONE", "PENDING", "FAILED", "DELETED", "RETAINED"}
Flag == BOOLEAN

LEMMA RowIs ==
    /\ Row = [user : Accounts, session : Flag, grant : Flag, other : Flag,
              doc : Flag, job : Jobs, ref : Refs]
    /\ "ACTIVE" \in Accounts /\ "DELETING" \in Accounts /\ "GONE" \in Accounts
    /\ TRUE \in Flag /\ FALSE \in Flag
    /\ "NONE" \in Jobs /\ "PENDING" \in Jobs /\ "QUEUED" \in Jobs
    /\ "RUNNING" \in Jobs /\ "FAILED" \in Jobs /\ "COMPLETED" \in Jobs
    /\ "NONE" \in Refs /\ "PENDING" \in Refs /\ "FAILED" \in Refs
    /\ "DELETED" \in Refs /\ "RETAINED" \in Refs
  BY DEF Row, Accounts, Jobs, Refs, Flag, DeletionStates

\* The account is closed: no session, a job, and a ref of every grant.
LEMMA DeletingRow ==
    ASSUME NEW r \in Row
    PROVE  /\ Deleting(r) \in Row
           /\ Deleting(r).user = "DELETING" /\ Deleting(r).job = "PENDING"
           /\ Deleting(r).doc = r.doc /\ Deleting(r).other = r.other
<1> DEFINE ref == IF r.grant THEN "PENDING" ELSE "NONE"
<1>1. Deleting(r) = [r EXCEPT !.user = "DELETING", !.session = FALSE,
                              !.job = "PENDING", !.ref = ref]
  BY DEF Deleting
<1>2. ref \in Refs
  BY RowIs
<1> HIDE DEF ref
<1> QED
  BY <1>1, <1>2, RowIs

\* The end of the account.
LEMMA GoneRow ==
    ASSUME NEW r \in Row,
           NEW s, s = [r EXCEPT !.user = "GONE", !.grant = FALSE,
                                !.session = FALSE, !.job = "COMPLETED"]
    PROVE  /\ s \in Row /\ s.user = "GONE" /\ s.job = "COMPLETED"
           /\ s.doc = r.doc /\ s.other = r.other
  BY RowIs

LEMMA RowTypes == ASSUME TypeOK, Next PROVE db' \in Row /\ saved' \in Row
<1> DEFINE goal == db' \in Row /\ saved' \in Row
<1>0. db \in Row /\ saved \in Row
  BY DEF TypeOK
<1> USE <1>0, RowIs
<1>1. CASE Login
  BY <1>1 DEF Login
<1>2. CASE UploadAuthenticate
  BY <1>2 DEF UploadAuthenticate
<1>3. CASE UploadGrant
  BY <1>3 DEF UploadGrant, BackupHolds, RowFree
<1>4. CASE Share
  BY <1>4 DEF Share, RowFree
<1>5. CASE RequestCreated
  BY <1>5 DEF RequestCreated
<1>6. CASE RequestCommit
  BY <1>6, DeletingRow DEF RequestCommit
<1>7. CASE RequestRecord
  BY <1>7 DEF RequestRecord, Fault
<1>8. CASE RequestEnqueue
  BY <1>8 DEF RequestEnqueue, Enqueue, Fault
<1>9. CASE RequestAdvance
  BY <1>9 DEF RequestAdvance, Advanced
<1>10. CASE WorkerStart
  BY <1>10 DEF WorkerStart, WorkerTo
<1>11. CASE WorkerRecord
  BY <1>11 DEF WorkerRecord, WorkerTo
<1>12. CASE WorkerEnter
  BY <1>12 DEF WorkerEnter, BackupHolds, WorkerEnds, WorkerTo
<1>13. CASE WorkerPurge
  BY <1>13 DEF WorkerPurge, WorkerTo
<1>14. CASE WorkerCollect
  BY <1>14 DEF WorkerCollect, WorkerTo, Referenced
<1>15. CASE WorkerRows
  <2>1. CASE wpc = "rows"
    BY <1>15, <2>1 DEF WorkerRows
  <2>2. CASE wpc = "mark"
    BY <1>15, <2>2 DEF WorkerRows
  <2> QED
    BY <1>15, <2>1, <2>2 DEF WorkerRows
<1>16. CASE WorkerUser
  BY <1>16, GoneRow DEF WorkerUser
<1>17. CASE WorkerFails
  <2>1. CASE wpc \in {"record", "enter"}
    BY <1>17, <2>1 DEF WorkerFails
  <2>2. CASE wpc \notin {"record", "enter"}
    <3> DEFINE ref == IF wpc \in {"collect", "rows", "mark"} /\ db.ref = "PENDING"
                      THEN "FAILED" ELSE db.ref
    <3>1. db' = [db EXCEPT !.job = "FAILED", !.ref = ref] /\ UNCHANGED saved
      BY <1>17, <2>2 DEF WorkerFails
    <3>2. ref \in Refs
      OBVIOUS
    <3> HIDE DEF ref
    <3> QED
      BY <3>1, <3>2
  <2> QED
    BY <2>1, <2>2
<1>18. CASE WorkerCrash
  BY <1>18 DEF WorkerCrash, Fault
<1>19. CASE GcStart
  BY <1>19 DEF GcStart, BackupHolds, Referenced
<1>20. CASE GcRows
  BY <1>20 DEF GcRows
<1>21. CASE GcFails
  BY <1>21 DEF GcFails, Fault
<1>22. CASE ApiRestart
  BY <1>22 DEF ApiRestart, Fault
<1>23. CASE StartupJobs
  BY <1>23 DEF StartupJobs, Enqueue
<1>24. CASE StartupAdvance
  BY <1>24 DEF StartupAdvance, Advanced
<1>25. CASE StartupOrphans
  BY <1>25 DEF StartupOrphans, Referenced
<1>26. CASE OperatorJobs
  BY <1>26 DEF OperatorJobs, Live, Requeues, Fault
<1>27. CASE OperatorWrite
  BY <1>27 DEF OperatorWrite
<1>28. CASE BackupBegin
  BY <1>28 DEF BackupBegin, WorkerHolds
<1>29. CASE BackupStep
  BY <1>29 DEF BackupStep
<1>30. CASE BackupFails
  BY <1>30 DEF BackupFails, BackupHolds, Fault
<1>31. CASE Disaster
  BY <1>31 DEF Disaster, NoRows
<1>32. CASE RestorePostgres
  BY <1>32 DEF RestorePostgres
<1>33. CASE RestoreMinio
  BY <1>33 DEF RestoreMinio, Empty, Exact
<1>34. CASE RestoreCheck
  BY <1>34 DEF RestoreCheck
<1>35. CASE RestoreReplay
  <2>1. CASE db.job = "NONE"
    BY <1>35, <2>1, DeletingRow DEF RestoreReplay
  <2>2. CASE db.job # "NONE"
    BY <1>35, <2>2 DEF RestoreReplay
  <2> QED
    BY <2>1, <2>2
<1>36. CASE RestoreJobs
  BY <1>36 DEF RestoreJobs, Requeues, Enqueue
<1>37. CASE RestoreFinal
  BY <1>37 DEF RestoreFinal
<1>38. CASE RestoreFails
  BY <1>38 DEF RestoreFails, Empty, Inline, Fault
<1>39. CASE EmptyBucket
  BY <1>39 DEF EmptyBucket
<1> QED
  BY <1>1, <1>2, <1>3, <1>4, <1>5, <1>6, <1>7, <1>8, <1>9, <1>10, <1>11,
     <1>12, <1>13, <1>14, <1>15, <1>16, <1>17, <1>18, <1>19, <1>20, <1>21,
     <1>22, <1>23, <1>24, <1>25, <1>26, <1>27, <1>28, <1>29, <1>30, <1>31,
     <1>32, <1>33, <1>34, <1>35, <1>36, <1>37, <1>38, <1>39
  DEF Next, RequestStep, WorkerStep, StartupStep, RestoreStep

\* A fault is one of MaxFaults.
LEMMA FaultCounts ==
    ASSUME TypeOK, Fault
    PROVE  faults' \in 0..MaxFaults /\ disasters' \in 0..MaxDisasters
  BY RecoveryAssumption DEF RecoveryAssumption, TypeOK, Fault

LEMMA EnqueueTypes ==
    ASSUME TypeOK, Enqueue PROVE queued' \in BOOLEAN /\ left' \in 0..MaxRetries
<1>1. CASE Live
  BY <1>1 DEF Enqueue, TypeOK
<1>2. CASE ~Live
  <2>1. left' \in 0..MaxRetries
    BY <1>2, RecoveryAssumption DEF RecoveryAssumption, Enqueue
  <2>2. queued' \in BOOLEAN
    BY <1>2, Zenon DEF Enqueue
  <2> QED
    BY <2>1, <2>2
<1> QED
  BY <1>1, <1>2

\* The flags of TypeOK.
Flags ==
    /\ object \in BOOLEAN /\ tomb \in BOOLEAN /\ mirrored \in BOOLEAN
    /\ complete \in BOOLEAN /\ acked \in BOOLEAN
    /\ queued \in BOOLEAN /\ gcQueued \in BOOLEAN

LEMMA FlagTypes == ASSUME TypeOK, Next PROVE Flags'
<1>0. Flags
  BY DEF Flags, TypeOK
<1> USE <1>0 DEF Flags
<1>1. CASE Login
  BY <1>1 DEF Login
<1>2. CASE UploadAuthenticate
  BY <1>2 DEF UploadAuthenticate
<1>3. CASE UploadGrant
  BY <1>3 DEF UploadGrant
<1>4. CASE Share
  BY <1>4 DEF Share
<1>5. CASE RequestCreated
  BY <1>5 DEF RequestCreated
<1>6. CASE RequestCommit
  BY <1>6 DEF RequestCommit
<1>7. CASE RequestRecord
  BY <1>7 DEF RequestRecord
<1>8. CASE RequestEnqueue
  BY <1>8, EnqueueTypes DEF RequestEnqueue
<1>9. CASE RequestAdvance
  BY <1>9 DEF RequestAdvance
<1>10. CASE WorkerStart
  BY <1>10 DEF WorkerStart
<1>11. CASE WorkerRecord
  BY <1>11 DEF WorkerRecord
<1>12. CASE WorkerEnter
  BY <1>12 DEF WorkerEnter
<1>13. CASE WorkerPurge
  BY <1>13 DEF WorkerPurge
<1>14. CASE WorkerCollect
  BY <1>14 DEF WorkerCollect
<1>15. CASE WorkerRows
  BY <1>15 DEF WorkerRows
<1>16. CASE WorkerUser
  BY <1>16 DEF WorkerUser
<1>17. CASE WorkerFails
  BY <1>17 DEF WorkerFails
<1>18. CASE WorkerCrash
  BY <1>18 DEF WorkerCrash
<1>19. CASE GcStart
  BY <1>19 DEF GcStart
<1>20. CASE GcRows
  BY <1>20 DEF GcRows
<1>21. CASE GcFails
  BY <1>21 DEF GcFails
<1>22. CASE ApiRestart
  BY <1>22 DEF ApiRestart
<1>23. CASE StartupJobs
  BY <1>23, EnqueueTypes DEF StartupJobs
<1>24. CASE StartupAdvance
  BY <1>24 DEF StartupAdvance
<1>25. CASE StartupOrphans
  BY <1>25 DEF StartupOrphans
<1>26. CASE OperatorJobs
  BY <1>26 DEF OperatorJobs
<1>27. CASE OperatorWrite
  BY <1>27 DEF OperatorWrite
<1>28. CASE BackupBegin
  BY <1>28 DEF BackupBegin
<1>29. CASE BackupStep
  BY <1>29 DEF BackupStep
<1>30. CASE BackupFails
  BY <1>30 DEF BackupFails
<1>31. CASE Disaster
  BY <1>31 DEF Disaster
<1>32. CASE RestorePostgres
  BY <1>32 DEF RestorePostgres
<1>33. CASE RestoreMinio
  BY <1>33 DEF RestoreMinio, Empty, Exact
<1>34. CASE RestoreCheck
  BY <1>34 DEF RestoreCheck
<1>35. CASE RestoreReplay
  BY <1>35 DEF RestoreReplay
<1>36. CASE RestoreJobs
  BY <1>36, EnqueueTypes DEF RestoreJobs
<1>37. CASE RestoreFinal
  BY <1>37 DEF RestoreFinal
<1>38. CASE RestoreFails
  BY <1>38 DEF RestoreFails
<1>39. CASE EmptyBucket
  BY <1>39 DEF EmptyBucket
<1> QED
  BY <1>1, <1>2, <1>3, <1>4, <1>5, <1>6, <1>7, <1>8, <1>9, <1>10, <1>11,
     <1>12, <1>13, <1>14, <1>15, <1>16, <1>17, <1>18, <1>19, <1>20, <1>21,
     <1>22, <1>23, <1>24, <1>25, <1>26, <1>27, <1>28, <1>29, <1>30, <1>31,
     <1>32, <1>33, <1>34, <1>35, <1>36, <1>37, <1>38, <1>39
  DEF Next, RequestStep, WorkerStep, StartupStep, RestoreStep

LEMMA TypeStep == ASSUME TypeOK, Next PROVE TypeOK'
<1>0. db' \in Row /\ saved' \in Row /\ Flags'
  BY RowTypes, FlagTypes
<1> USE <1>0 DEF Flags, TypeOK, Up, Inline
<1>1. CASE Login
  BY <1>1 DEF Login
<1>2. CASE UploadAuthenticate
  BY <1>2 DEF UploadAuthenticate
<1>3. CASE UploadGrant
  BY <1>3 DEF UploadGrant, BackupHolds, RowFree
<1>4. CASE Share
  BY <1>4 DEF Share, RowFree
<1>5. CASE RequestCreated
  BY <1>5 DEF RequestCreated
<1>6. CASE RequestCommit
  BY <1>6 DEF RequestCommit
<1>7. CASE RequestRecord
  BY <1>7, FaultCounts DEF RequestRecord
<1>8. CASE RequestEnqueue
  BY <1>8, FaultCounts, EnqueueTypes DEF RequestEnqueue
<1>9. CASE RequestAdvance
  BY <1>9 DEF RequestAdvance, Advanced
<1>10. CASE WorkerStart
  BY <1>10 DEF WorkerStart, WorkerTo
<1>11. CASE WorkerRecord
  BY <1>11 DEF WorkerRecord, WorkerTo
<1>12. CASE WorkerEnter
  BY <1>12 DEF WorkerEnter, BackupHolds, WorkerEnds, WorkerTo
<1>13. CASE WorkerPurge
  BY <1>13 DEF WorkerPurge, WorkerTo
<1>14. CASE WorkerCollect
  BY <1>14 DEF WorkerCollect, WorkerTo
<1>15. CASE WorkerRows
  BY <1>15 DEF WorkerRows, WorkerTo
<1>16. CASE WorkerUser
  BY <1>16 DEF WorkerUser, WorkerEnds
<1>17. CASE WorkerFails
  BY <1>17, FaultCounts, RecoveryAssumption
  DEF WorkerFails, Inline, RecoveryAssumption
<1>18. CASE WorkerCrash
  BY <1>18, FaultCounts DEF WorkerCrash
<1>19. CASE GcStart
  BY <1>19 DEF GcStart, BackupHolds
<1>20. CASE GcRows
  BY <1>20 DEF GcRows
<1>21. CASE GcFails
  BY <1>21, FaultCounts DEF GcFails
<1>22. CASE ApiRestart
  BY <1>22, FaultCounts DEF ApiRestart
<1>23. CASE StartupJobs
  BY <1>23, EnqueueTypes DEF StartupJobs
<1>24. CASE StartupAdvance
  BY <1>24 DEF StartupAdvance, Advanced
<1>25. CASE StartupOrphans
  BY <1>25 DEF StartupOrphans
<1>26. CASE OperatorJobs
  BY <1>26, FaultCounts, RecoveryAssumption
  DEF OperatorJobs, Live, RecoveryAssumption
<1>27. CASE OperatorWrite
  BY <1>27 DEF OperatorWrite
<1>28. CASE BackupBegin
  BY <1>28 DEF BackupBegin, WorkerHolds
<1>29. CASE BackupStep
  BY <1>29 DEF BackupStep
<1>30. CASE BackupFails
  BY <1>30, FaultCounts DEF BackupFails, BackupHolds
<1>31. CASE Disaster
  BY <1>31, RecoveryAssumption DEF Disaster, RecoveryAssumption
<1>32. CASE RestorePostgres
  BY <1>32 DEF RestorePostgres
<1>33. CASE RestoreMinio
  BY <1>33 DEF RestoreMinio, Empty, Exact
<1>34. CASE RestoreCheck
  BY <1>34 DEF RestoreCheck
<1>35. CASE RestoreReplay
  BY <1>35 DEF RestoreReplay
<1>36. CASE RestoreJobs
  BY <1>36, EnqueueTypes DEF RestoreJobs
<1>37. CASE RestoreFinal
  BY <1>37 DEF RestoreFinal
<1>38. CASE RestoreFails
  BY <1>38, FaultCounts, RecoveryAssumption
  DEF RestoreFails, Inline, RecoveryAssumption
<1>39. CASE EmptyBucket
  BY <1>39 DEF EmptyBucket
<1> QED
  BY <1>1, <1>2, <1>3, <1>4, <1>5, <1>6, <1>7, <1>8, <1>9, <1>10, <1>11,
     <1>12, <1>13, <1>14, <1>15, <1>16, <1>17, <1>18, <1>19, <1>20, <1>21,
     <1>22, <1>23, <1>24, <1>25, <1>26, <1>27, <1>28, <1>29, <1>30, <1>31,
     <1>32, <1>33, <1>34, <1>35, <1>36, <1>37, <1>38, <1>39
  DEF Next, RequestStep, WorkerStep, StartupStep, RestoreStep

\* Every step keeps what the properties rest on.
LEMMA RecoveryStep == ASSUME TypeOK, RecoveryInv, Next PROVE RecoveryInv'
<1>0. /\ db \in Row /\ saved \in Row
      /\ ~Up => (Inline <=> wpc # "idle") /\ gc = "idle" /\ op = "idle"
  BY DEF TypeOK
<1> USE <1>0, RowIs
    DEF RecoveryInv, JobClosesAccount, RequestOrder, RestoredDump, NotUndone,
        LedgerFirst, RowsLast, Barrier, Paired, Erasing, BackupPairsUp,
        Straddles, NoRows, Up, BackupHolds, WorkerHolds
<1>1. CASE Login
  BY <1>1 DEF Login
<1>2. CASE UploadAuthenticate
  BY <1>2 DEF UploadAuthenticate
<1>3. CASE UploadGrant
  BY <1>3 DEF UploadGrant, BackupHolds, RowFree
<1>4. CASE Share
  BY <1>4 DEF Share, RowFree
<1>5. CASE RequestCreated
  BY <1>5 DEF RequestCreated
<1>6. CASE RequestCommit
  BY <1>6 DEF RequestCommit, Deleting
<1>7. CASE RequestRecord
  BY <1>7 DEF RequestRecord, Fault
<1>8. CASE RequestEnqueue
  BY <1>8 DEF RequestEnqueue, Enqueue, Fault
<1>9. CASE RequestAdvance
  BY <1>9 DEF RequestAdvance, Advanced
<1>10. CASE WorkerStart
  BY <1>10 DEF WorkerStart, WorkerTo
<1>11. CASE WorkerRecord
  BY <1>11 DEF WorkerRecord, WorkerTo
<1>12. CASE WorkerEnter
  <2>1. CASE db.job \in {"NONE", "COMPLETED"}
    BY <1>12, <2>1 DEF WorkerEnter, WorkerEnds, Inline
  <2>2. CASE db.job \notin {"NONE", "COMPLETED"}
    <3>1. /\ db'.user = db.user /\ db'.doc = db.doc /\ db'.other = db.other
          /\ db'.job = "RUNNING"
      BY <1>12, <2>2 DEF WorkerEnter
    <3>2. /\ wpc = "enter" /\ wpc' = "purge" /\ ~BackupHolds
          /\ UNCHANGED <<object, tomb, created, requests, rq, collection,
                         reconcilers, backups, restore, counts>>
      BY <1>12, <2>2 DEF WorkerEnter, WorkerTo
    <3> QED
      BY <2>2, <3>1, <3>2 DEF Inline
  <2> QED
    BY <2>1, <2>2
<1>13. CASE WorkerPurge
  BY <1>13 DEF WorkerPurge, WorkerTo
<1>14. CASE WorkerCollect
  BY <1>14 DEF WorkerCollect, WorkerTo, Referenced
<1>15. CASE WorkerRows
  <2>0. UNCHANGED <<object, tomb, created, requests, rq, collection,
                    reconcilers, backups, restore, counts>>
    BY <1>15 DEF WorkerRows, WorkerTo
  <2>1. CASE wpc = "rows" /\ wpc' = "mark"
    <3>1. /\ db'.user = db.user /\ db'.job = db.job /\ db'.other = db.other
      BY <1>15, <2>1 DEF WorkerRows
    <3> QED
      BY <2>0, <2>1, <3>1 DEF Inline
  <2>2. CASE wpc = "mark" /\ wpc' = "user"
    <3>1. /\ db'.user = db.user /\ db'.job = db.job /\ db'.other = db.other
          /\ db'.doc = db.doc
      BY <1>15, <2>2 DEF WorkerRows
    <3> QED
      BY <2>0, <2>2, <3>1 DEF Inline
  <2> QED
    BY <1>15, <2>1, <2>2 DEF WorkerRows, WorkerTo
<1>16. CASE WorkerUser
  <2>1. /\ db'.user = "GONE" /\ db'.job = "COMPLETED"
        /\ db'.doc = db.doc /\ db'.other = db.other
    BY <1>16, GoneRow DEF WorkerUser
  <2>2. /\ wpc = "user" /\ wpc' = "idle"
        /\ restore' = IF Inline THEN "jobs" ELSE restore
        /\ UNCHANGED <<object, tomb, created, requests, rq, collection,
                       reconcilers, backups, counts>>
    BY <1>16 DEF WorkerUser, WorkerEnds
  <2> QED
    BY <2>1, <2>2 DEF Inline
<1>17. CASE WorkerFails
  <2>1. /\ db'.user = db.user /\ db'.doc = db.doc /\ db'.other = db.other
        /\ db'.job = IF wpc \in {"record", "enter"} THEN db.job ELSE "FAILED"
    BY <1>17 DEF WorkerFails
  <2>2. /\ wpc # "idle" /\ wpc' = "idle"
        /\ restore' = IF Inline THEN "postgres" ELSE restore
        /\ UNCHANGED <<object, tomb, created, requests, collection,
                       reconcilers, backups>>
    BY <1>17 DEF WorkerFails
  <2>3. wpc \in {"record", "enter"} \/ db.job # "NONE"
    BY <2>2 DEF TypeOK
  <2> QED
    BY <2>1, <2>2, <2>3 DEF Inline
<1>18. CASE WorkerCrash
  BY <1>18 DEF WorkerCrash, Fault
<1>19. CASE GcStart
  BY <1>19 DEF GcStart, BackupHolds, Referenced
<1>20. CASE GcRows
  <2>1. /\ db'.user = db.user /\ db'.job = db.job /\ db'.other = db.other
        /\ db'.doc = FALSE
    BY <1>20 DEF GcRows
  <2>2. /\ gc = "rows" /\ gc' = "idle"
        /\ UNCHANGED <<object, tomb, created, requests, rq, gcQueued, wpc,
                       reconcilers, backups, restore, counts>>
    BY <1>20 DEF GcRows
  <2> QED
    BY <2>1, <2>2
<1>21. CASE GcFails
  BY <1>21 DEF GcFails, Fault
<1>22. CASE ApiRestart
  BY <1>22 DEF ApiRestart, Fault
<1>23. CASE StartupJobs
  BY <1>23 DEF StartupJobs, Enqueue
<1>24. CASE StartupAdvance
  BY <1>24 DEF StartupAdvance, Advanced
<1>25. CASE StartupOrphans
  BY <1>25 DEF StartupOrphans, Referenced
<1>26. CASE OperatorJobs
  BY <1>26 DEF OperatorJobs, Live, Requeues, Fault
<1>27. CASE OperatorWrite
  BY <1>27 DEF OperatorWrite
<1>28. CASE BackupBegin
  BY <1>28 DEF BackupBegin, WorkerHolds
<1>29. CASE BackupStep
  <2>0. UNCHANGED <<db, object, tomb, created, requests, rq, collection, wpc,
                    reconcilers, restore, counts>>
    BY <1>29 DEF BackupStep
  <2>1. CASE backup = "dump"
    BY <1>29, <2>0, <2>1 DEF BackupStep
  <2>2. CASE backup = "mirror"
    BY <1>29, <2>0, <2>2 DEF BackupStep
  <2>3. CASE backup = "check"
    <3>1. db.doc \in BOOLEAN /\ object \in BOOLEAN
      BY DEF TypeOK, Row
    <3> QED
      BY <1>29, <2>0, <2>3, <3>1 DEF BackupStep
  <2> QED
    BY <1>29, <2>1, <2>2, <2>3 DEF BackupStep
<1>30. CASE BackupFails
  BY <1>30 DEF BackupFails, BackupHolds, Fault
<1>31. CASE Disaster
  BY <1>31 DEF Disaster
<1>32. CASE RestorePostgres
  <2>1. db' = saved /\ backup = "done" /\ wpc = "idle" /\ gc = "idle"
    BY <1>32 DEF RestorePostgres, Inline
  <2> QED
    BY <1>32, <2>1 DEF RestorePostgres
<1>33. CASE RestoreMinio
  <2>1. /\ saved.doc = mirrored /\ db.doc = saved.doc /\ backup = "done"
        /\ wpc = "idle" /\ gc = "idle"
    BY <1>33 DEF RestoreMinio, Inline
  <2> QED
    BY <1>33, <2>1 DEF RestoreMinio, Empty, Exact
<1>34. CASE RestoreCheck
  BY <1>34 DEF RestoreCheck
<1>35. CASE RestoreReplay
  <2>0. /\ wpc = "idle" /\ gc = "idle" /\ backup = "done" /\ complete
        /\ UNCHANGED <<object, tomb, created, requests, rq, collection,
                       reconcilers, backups, counts>>
    BY <1>35 DEF RestoreReplay, Inline
  <2>1. CASE tomb /\ created = "AFTER" /\ db.user # "GONE"
    <3>1. db'.user = "DELETING" /\ db'.doc = db.doc /\ db'.other = db.other
      <4>1. CASE db.job = "NONE"
        BY <1>35, <2>1, <4>1, DeletingRow DEF RestoreReplay
      <4>2. CASE db.job # "NONE"
        BY <1>35, <2>1, <4>2 DEF RestoreReplay
      <4> QED
        BY <4>1, <4>2
    <3>2. restore = "replay" /\ restore' = "delete" /\ wpc' = "enter"
      BY <1>35, <2>1 DEF RestoreReplay
    <3> QED
      BY <2>0, <2>1, <3>1, <3>2
  <2>2. CASE ~(tomb /\ created = "AFTER" /\ db.user # "GONE")
    <3>1. /\ restore = "replay" /\ restore' = "jobs" /\ UNCHANGED <<wpc, db>>
      BY <1>35, <2>2 DEF RestoreReplay
    <3>2. created \in {"NONE", "BEFORE", "AFTER"}
      BY DEF TypeOK
    <3>3. NotUndone'
      BY <2>0, <2>2, <3>1, <3>2
    <3> QED
      BY <2>0, <3>1, <3>3
  <2> QED
    BY <2>1, <2>2
<1>36. CASE RestoreJobs
  BY <1>36 DEF RestoreJobs, Requeues, Enqueue
<1>37. CASE RestoreFinal
  BY <1>37 DEF RestoreFinal
<1>38. CASE RestoreFails
  BY <1>38 DEF RestoreFails, Empty, Inline, Fault
<1>39. CASE EmptyBucket
  BY <1>39 DEF EmptyBucket
<1> QED
  BY <1>1, <1>2, <1>3, <1>4, <1>5, <1>6, <1>7, <1>8, <1>9, <1>10, <1>11,
     <1>12, <1>13, <1>14, <1>15, <1>16, <1>17, <1>18, <1>19, <1>20, <1>21,
     <1>22, <1>23, <1>24, <1>25, <1>26, <1>27, <1>28, <1>29, <1>30, <1>31,
     <1>32, <1>33, <1>34, <1>35, <1>36, <1>37, <1>38, <1>39
  DEF Next, RequestStep, WorkerStep, StartupStep, RestoreStep

LEMMA InitIInv == Init => IInv
<1> SUFFICES ASSUME Init PROVE IInv
  OBVIOUS
<1>0. PICK g \in BOOLEAN, o \in BOOLEAN :
         db = [NoRows EXCEPT !.user = "ACTIVE", !.session = TRUE,
                             !.grant = g, !.other = o, !.doc = g \/ o]
  BY DEF Init
<1>1. db = [user |-> "ACTIVE", session |-> TRUE, grant |-> g, other |-> o,
            doc |-> g \/ o, job |-> "NONE", ref |-> "NONE"]
  BY <1>0 DEF NoRows
<1>2. db \in Row /\ NoRows \in Row
  <2>1. (g \/ o) \in BOOLEAN
    OBVIOUS
  <2> QED
    BY <1>1, <2>1 DEF Row, NoRows
<1>3. Flags
  <2>1. object \in BOOLEAN
    BY <1>2 DEF Init, Row
  <2> QED
    BY <2>1, Zenon DEF Init, Flags
<1>4. TypeOK
  BY <1>2, <1>3, RecoveryAssumption
     DEF RecoveryAssumption, Init, TypeOK, Flags, Up, Inline
<1>5. RecoveryInv
  BY <1>1 DEF Init, RecoveryInv, JobClosesAccount, RequestOrder, RestoredDump,
     NotUndone, LedgerFirst, RowsLast, Barrier, Paired, Erasing, NoRows,
     BackupPairsUp, Up, BackupHolds
<1> QED
  BY <1>4, <1>5 DEF IInv

LEMMA StepIInv == IInv /\ [Next]_vars => IInv'
<1> SUFFICES ASSUME IInv, [Next]_vars PROVE IInv'
  OBVIOUS
<1>1. CASE Next
  BY <1>1, TypeStep, RecoveryStep DEF IInv
<1>2. CASE UNCHANGED vars
  <2>1. TypeOK'
    BY <1>2 DEF IInv, TypeOK, Up, Inline
  <2>2. RecoveryInv'
    BY <1>2 DEF IInv, RecoveryInv, JobClosesAccount, RequestOrder,
       RestoredDump, NotUndone, Straddles, LedgerFirst, RowsLast, Barrier,
       Paired, BackupPairsUp, Up, BackupHolds, WorkerHolds
  <2> QED
    BY <2>1, <2>2 DEF IInv
<1> QED
  BY <1>1, <1>2

\* The inductive invariant holds in every reachable state.
THEOREM InvariantHolds == Spec => []IInv
  BY InitIInv, StepIInv, PTL DEF Spec

\* Rows, ledger, tasks and the places of request, workers, backup and restore
\* only ever take the states the code gives them; a worker runs during a
\* restore only where the restore called it.
THEOREM TypesHold == Spec => []TypeOK
<1>1. IInv => TypeOK
  BY DEF IInv
<1> QED
  BY <1>1, InvariantHolds, PTL

\* A deletion answered with 202 stays one through any number of disasters,
\* failed restores and repeated ones, unless it straddled the snapshot.
THEOREM DeletionIsNeverUndone == Spec => []DeletedStaysDeleted
<1>1. IInv => DeletedStaysDeleted
  BY DEF IInv, RecoveryInv, NotUndone, DeletedStaysDeleted, Up
<1> QED
  BY <1>1, InvariantHolds, PTL

\* Whatever erases an account, the ledger outside both stores knows of it
\* before, so that a restore of either store can be told.
THEOREM LedgerComesFirst == Spec => []LedgerBeforeErasure
<1>1. IInv => LedgerBeforeErasure
  BY DEF IInv, RecoveryInv, LedgerFirst, LedgerBeforeErasure, Up
<1> QED
  BY <1>1, InvariantHolds, PTL

\* Rows and object of a complete backup were copied with no collection in
\* between, although its last check compares the stores and not the copies.
THEOREM BackupsPairUp == Spec => []BackupPairsUp
<1>1. IInv => BackupPairsUp
  BY DEF IInv, RecoveryInv, Paired
<1> QED
  BY <1>1, InvariantHolds, PTL

-----------------------------------------------------------------------------
(* What somebody else may read.                                            *)

LEMMA SharedStep ==
    ASSUME IInv, Next, Up, Up', db.other
    PROVE  (object => object') /\ (db.doc => db'.doc) /\ db'.other
<1> DEFINE goal == (object => object') /\ (db.doc => db'.doc) /\ db'.other
<1>0. db \in Row /\ wpc # "rows" /\ gc # "rows" /\ restore = "up"
  BY DEF IInv, TypeOK, RecoveryInv, RowsLast, Up
<1> USE <1>0, RowIs DEF Up
<1>1. CASE Login
  BY <1>1 DEF Login
<1>2. CASE UploadAuthenticate
  BY <1>2 DEF UploadAuthenticate
<1>3. CASE UploadGrant
  BY <1>3 DEF UploadGrant, BackupHolds, RowFree
<1>4. CASE Share
  BY <1>4 DEF Share, RowFree
<1>5. CASE RequestCreated
  BY <1>5 DEF RequestCreated
<1>6. CASE RequestCommit
  BY <1>6 DEF RequestCommit, Deleting
<1>7. CASE RequestRecord
  BY <1>7 DEF RequestRecord, Fault
<1>8. CASE RequestEnqueue
  BY <1>8 DEF RequestEnqueue, Enqueue, Fault
<1>9. CASE RequestAdvance
  BY <1>9 DEF RequestAdvance, Advanced
<1>10. CASE WorkerStart
  BY <1>10 DEF WorkerStart, WorkerTo
<1>11. CASE WorkerRecord
  BY <1>11 DEF WorkerRecord, WorkerTo
<1>12. CASE WorkerEnter
  BY <1>12 DEF WorkerEnter, BackupHolds, WorkerEnds, WorkerTo
<1>13. CASE WorkerPurge
  BY <1>13 DEF WorkerPurge, WorkerTo
<1>14. CASE WorkerCollect
  BY <1>14 DEF WorkerCollect, WorkerTo, Referenced
<1>15. CASE WorkerRows
  BY <1>15 DEF WorkerRows, WorkerTo
<1>16. CASE WorkerUser
  BY <1>16 DEF WorkerUser, WorkerEnds
<1>17. CASE WorkerFails
  BY <1>17 DEF WorkerFails, Fault, Inline
<1>18. CASE WorkerCrash
  BY <1>18 DEF WorkerCrash, Fault
<1>19. CASE GcStart
  BY <1>19 DEF GcStart, BackupHolds, Referenced
<1>20. CASE GcRows
  BY <1>20 DEF GcRows
<1>21. CASE GcFails
  BY <1>21 DEF GcFails, Fault
<1>22. CASE ApiRestart
  BY <1>22 DEF ApiRestart, Fault
<1>23. CASE StartupJobs
  BY <1>23 DEF StartupJobs, Enqueue
<1>24. CASE StartupAdvance
  BY <1>24 DEF StartupAdvance, Advanced
<1>25. CASE StartupOrphans
  BY <1>25 DEF StartupOrphans, Referenced
<1>26. CASE OperatorJobs
  BY <1>26 DEF OperatorJobs, Live, Requeues, Fault
<1>27. CASE OperatorWrite
  BY <1>27 DEF OperatorWrite
<1>28. CASE BackupBegin
  BY <1>28 DEF BackupBegin, WorkerHolds
<1>29. CASE BackupStep
  BY <1>29 DEF BackupStep
<1>30. CASE BackupFails
  BY <1>30 DEF BackupFails, BackupHolds, Fault
<1>31. CASE Disaster
  BY <1>31 DEF Disaster
<1>32. CASE RestorePostgres
  BY <1>32 DEF RestorePostgres
<1>33. CASE RestoreMinio
  BY <1>33 DEF RestoreMinio, Empty, Exact
<1>34. CASE RestoreCheck
  BY <1>34 DEF RestoreCheck
<1>35. CASE RestoreReplay
  BY <1>35 DEF RestoreReplay, Deleting
<1>36. CASE RestoreJobs
  BY <1>36 DEF RestoreJobs, Requeues, Enqueue
<1>37. CASE RestoreFinal
  BY <1>37 DEF RestoreFinal
<1>38. CASE RestoreFails
  BY <1>38 DEF RestoreFails, Empty, Inline, Fault
<1>39. CASE EmptyBucket
  BY <1>39 DEF EmptyBucket
<1> QED
  BY <1>1, <1>2, <1>3, <1>4, <1>5, <1>6, <1>7, <1>8, <1>9, <1>10, <1>11,
     <1>12, <1>13, <1>14, <1>15, <1>16, <1>17, <1>18, <1>19, <1>20, <1>21,
     <1>22, <1>23, <1>24, <1>25, <1>26, <1>27, <1>28, <1>29, <1>30, <1>31,
     <1>32, <1>33, <1>34, <1>35, <1>36, <1>37, <1>38, <1>39
  DEF Next, RequestStep, WorkerStep, StartupStep, RestoreStep

\* A document that somebody else may read keeps its row and its object: the
\* references are read again under the row's lock, which nobody can pass to
\* share the document before the row is gone.
THEOREM SharedDocumentSurvives == Spec => SharedSurvives
<1> DEFINE A == Up /\ Up' /\ db.other
                => (object => object') /\ (db.doc => db'.doc) /\ db'.other
<1>1. IInv /\ [Next]_vars => [A]_vars
  BY SharedStep
<1> QED
  BY <1>1, InvariantHolds, PTL DEF Spec, SharedSurvives
=============================================================================
