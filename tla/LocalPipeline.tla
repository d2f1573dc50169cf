--------------------------- MODULE LocalPipeline ---------------------------
(***************************************************************************)
(* The document pipeline of ZKD Compute (src/app/local_compute): a SQLite  *)
(* catalog of documents, jobs and artifacts, the managed file trees next   *)
(* to it, one worker thread that prepares and indexes documents, and the   *)
(* loopback API whose handlers run one at a time on the event loop.        *)
(*                                                                         *)
(* Every action is one durable step: what happens between two of them can  *)
(* interleave with the other thread, or be cut short by a crash.  Commits  *)
(* that nobody can tell apart (attaching an artifact id and the update     *)
(* that follows it, the progress updates of one stage) share an action.    *)
(*                                                                         *)
(* Abstracted: progress, stage texts, error codes, hashes and time.  The   *)
(* identifiers of jobs and artifacts (uuid4, never reused) are numbered in *)
(* the order of their creation.                                            *)
(***************************************************************************)
EXTENDS Naturals

CONSTANTS
    Docs,       \* document ids
    NoDoc,
    MaxArts,    \* bound: how many artifacts are ever named
    MaxJobs,    \* bound: how many PROCESS_DOCUMENT jobs are ever created
    NChunks,    \* chunks of a prepared artifact, indexed one batch each
    MaxCrashes  \* bound: how often the process dies

ASSUME ConstantsAssumption ==
    /\ NoDoc \notin Docs
    /\ MaxArts \in Nat \ {0}
    /\ MaxJobs \in Nat \ {0}
    /\ NChunks \in Nat \ {0}
    /\ MaxCrashes \in Nat

Jobs == 1..MaxJobs
NoJob == 0
Arts == 1..MaxArts
NoArt == 0

VARIABLES
    docState,   \* local_documents.preparation_state, "NONE" without a row
    docArt,     \* local_documents.active_artifact_id
    source,     \* does the directory documents/<id> exist
    tombstones, \* documents whose deletion is queued for the platform
    jobState,   \* local_jobs.state, "UNUSED" before and "GONE" after the row
    jobFlag,    \* local_jobs.cancellation_requested
    jobDoc,     \* local_jobs.document_id
    jobArt,     \* local_jobs.artifact_id
    artDoc,     \* the artifacts/<document id> directory the artifact is in
    artFile,    \* its directory: "unused", "named" (no files yet), "staging", "final" or "gone"
    artRow,     \* local_artifacts.state, "NONE" without a row
    idxMeta,    \* artifact_metadata.index_state inside the artifact database
    idxRows,    \* rows of chunk_embeddings and chunk_fts inside it
    lock,       \* LocalCatalog.document_lock: "free", "worker" or "api"
    wpc, wjob, wdoc, wstate, wart, whad, werr,  \* the worker thread
    apc, adoc, aforce,                          \* the handler on the loop
    up, crashes

docVars == <<docState, docArt, source, tombstones>>
jobVars == <<jobState, jobFlag, jobDoc, jobArt>>
artVars == <<artDoc, artFile, artRow, idxMeta, idxRows>>
workerVars == <<wpc, wjob, wdoc, wstate, wart, whad, werr>>
apiVars == <<apc, adoc, aforce>>
processVars == <<up, crashes>>
vars == <<docVars, jobVars, artVars, lock, workerVars, apiVars, processVars>>

PreparationStages == {"PROCESSING", "CHUNKING", "VALIDATING"}
DocStates == {"NONE", "ACCEPTED", "PREPARED_NOT_INDEXED", "INDEXING",
              "INDEX_READY", "FAILED"} \cup PreparationStages
Active == {"QUEUED", "RUNNING", "CANCEL_REQUESTED"}
Terminal == {"SUCCEEDED", "FAILED", "CANCELLED"}
JobStates == {"UNUSED", "GONE"} \cup Active \cup Terminal

\* Where the worker is inside prepare, and inside index_document, both of
\* which hold the document lock from their first to their last step.
PreparePcs == PreparationStages \cup {"promote", "register", "prepared"}
PrepareFailPcs == {"prep_failed", "prep_fail_doc"}
IndexPcs == {"index_load", "index_init", "index_batch", "publish", "succeed"}
IndexFailPcs == {"index_restore", "index_gate", "index_end"}
LockedPcs == PreparePcs \cup PrepareFailPcs \cup IndexPcs \cup IndexFailPcs
WorkerPcs == {"idle", "claimed", "decide", "prep_begin", "between",
              "index_begin", "escape"} \cup LockedPcs

ApiLockedPcs == {"enqueue_job", "delete_source", "delete_artifacts",
                 "delete_rows", "delete_tombstone"}
ApiPcs == {"idle", "accept_row", "enqueue", "delete"} \cup ApiLockedPcs

ArtsOf(d) == {a \in Arts : artDoc[a] = d}
JobsOf(d) == {j \in Jobs : jobDoc[j] = d}

\* LocalJobStore.update: an unconditional UPDATE, of no row if it is gone.
UpdateJob(j, s) ==
    jobState' = [jobState EXCEPT ![j] = IF @ = "GONE" THEN @ ELSE s]

UpdateDoc(d, s) ==
    docState' = [docState EXCEPT ![d] = IF @ = "NONE" THEN @ ELSE s]

\* LocalJobStore.is_cancel_requested: a row that is gone asks for nothing.
CancelRequested(j) == jobState[j] # "GONE" /\ jobFlag[j]

Init ==
    /\ docState = [d \in Docs |-> "NONE"]
    /\ docArt = [d \in Docs |-> NoArt]
    /\ source = [d \in Docs |-> FALSE]
    /\ tombstones = {}
    /\ jobState = [j \in Jobs |-> "UNUSED"]
    /\ jobFlag = [j \in Jobs |-> FALSE]
    /\ jobDoc = [j \in Jobs |-> NoDoc]
    /\ jobArt = [j \in Jobs |-> NoArt]
    /\ artDoc = [a \in Arts |-> NoDoc]
    /\ artFile = [a \in Arts |-> "unused"]
    /\ artRow = [a \in Arts |-> "NONE"]
    /\ idxMeta = [a \in Arts |-> "NONE"]
    /\ idxRows = [a \in Arts |-> 0]
    /\ lock = [d \in Docs |-> "free"]
    /\ wpc = "idle" /\ wjob = NoJob /\ wdoc = NoDoc /\ wstate = "NONE"
    /\ wart = NoArt /\ whad = FALSE /\ werr = "NONE"
    /\ apc = "idle" /\ adoc = NoDoc /\ aforce = FALSE
    /\ up = TRUE /\ crashes = 0

-----------------------------------------------------------------------------
(* The worker thread: claiming a job and choosing what is left to do.      *)

WorkerAt(pc) == up /\ wpc = pc

Goto(pc) == wpc' = pc /\ UNCHANGED <<wjob, wdoc, wstate, wart, whad, werr>>

Fail(pc, e) ==
    /\ wpc' = pc /\ werr' = e
    /\ UNCHANGED <<wjob, wdoc, wstate, wart, whad>>

WorkerIdle ==
    /\ wpc' = "idle" /\ wjob' = NoJob /\ wdoc' = NoDoc /\ wstate' = "NONE"
    /\ wart' = NoArt /\ whad' = FALSE /\ werr' = "NONE"

\* Mutant of Acquire: the critical section is entered without the lock.
AcquireNothing(d, who) == UNCHANGED lock

Acquire(d, who) == lock[d] = "free" /\ lock' = [lock EXCEPT ![d] = who]

Release(d) == lock' = [lock EXCEPT ![d] = "free"]

\* claim_next_pipeline: the oldest QUEUED job, in one BEGIN IMMEDIATE.
Claim ==
    /\ WorkerAt("idle")
    /\ \E j \in Jobs :
        /\ jobState[j] = "QUEUED"
        /\ \A k \in Jobs : jobState[k] = "QUEUED" => j <= k
        /\ jobState' = [jobState EXCEPT ![j] = "RUNNING"]
        /\ wjob' = j
        /\ wdoc' = jobDoc[j]
    /\ wpc' = "claimed"
    /\ UNCHANGED <<wstate, wart, whad, werr, jobFlag, jobDoc, jobArt,
                   docVars, artVars, lock, apiVars, processVars>>

\* The head of _process: the cancel flag, then the document row.  The row is
\* read without the document lock: what is decided from it may be stale.
Inspect ==
    /\ WorkerAt("claimed")
    /\ \/ /\ CancelRequested(wjob)
          /\ UpdateJob(wjob, "CANCELLED")
          /\ WorkerIdle
       \/ /\ ~CancelRequested(wjob)
          /\ docState[wdoc] = "NONE"
          /\ UpdateJob(wjob, "FAILED")
          /\ WorkerIdle
       \/ /\ ~CancelRequested(wjob)
          /\ docState[wdoc] # "NONE"
          /\ wpc' = "decide"
          /\ wstate' = docState[wdoc]
          /\ wart' = docArt[wdoc]
          /\ UNCHANGED <<jobState, wjob, wdoc, whad, werr>>
    /\ UNCHANGED <<jobFlag, jobDoc, jobArt, docVars, artVars, lock, apiVars,
                   processVars>>

AttachArtifact(j, a) ==
    jobArt' = [jobArt EXCEPT ![j] = IF jobState[j] = "GONE" THEN @ ELSE a]

\* Case 1: the document was INDEX_READY when it was read.
AlreadyReady ==
    /\ WorkerAt("decide")
    /\ wstate = "INDEX_READY" /\ wart # NoArt
    /\ AttachArtifact(wjob, wart)
    /\ UpdateJob(wjob, "SUCCEEDED")
    /\ WorkerIdle
    /\ UNCHANGED <<jobFlag, jobDoc, docVars, artVars, lock, apiVars,
                   processVars>>

\* Case 2: the document was INDEXING; its gate is reset, without the lock.
ReopenIndexing ==
    /\ WorkerAt("decide")
    /\ wstate = "INDEXING" /\ wart # NoArt
    /\ UpdateDoc(wdoc, "PREPARED_NOT_INDEXED")
    /\ wstate' = "PREPARED_NOT_INDEXED"
    /\ UNCHANGED <<wpc, wjob, wdoc, wart, whad, werr, docArt, source,
                   tombstones, jobVars, artVars, lock, apiVars, processVars>>

\* Case 3: preparation is durable, go on with indexing.
ResumePrepared ==
    /\ WorkerAt("decide")
    /\ wstate = "PREPARED_NOT_INDEXED" /\ wart # NoArt
    /\ AttachArtifact(wjob, wart)
    /\ Goto("index_begin")
    /\ UNCHANGED <<jobState, jobFlag, jobDoc, docVars, artVars, lock, apiVars,
                   processVars>>

\* Case 4: anything else is prepared from the source PDF.
StartPreparation ==
    /\ WorkerAt("decide")
    /\ \/ wart = NoArt
       \/ wstate \notin {"INDEX_READY", "INDEXING", "PREPARED_NOT_INDEXED"}
    /\ Goto("prep_begin")
    /\ UNCHANGED <<jobVars, docVars, artVars, lock, apiVars, processVars>>

-----------------------------------------------------------------------------
(* The worker thread: LocalPreparationService.prepare, under the document  *)
(* lock.                                                                   *)

\* Entry of _prepare_locked: refuse without a row, drop stale staging
\* directories, name a new artifact and attach it to the job.
PrepareBegin ==
    /\ WorkerAt("prep_begin")
    /\ lock[wdoc] = "free"
    /\ \/ /\ docState[wdoc] = "NONE" \/ jobState[wjob] = "GONE"
          /\ Fail("escape", "FAILED")
          /\ UNCHANGED <<lock, jobArt, artDoc, artFile>>
       \/ /\ docState[wdoc] # "NONE" /\ jobState[wjob] # "GONE"
          /\ \E a \in Arts :
              /\ artFile[a] = "unused"
              /\ \A b \in Arts : artFile[b] = "unused" => a <= b
              /\ artDoc' = [artDoc EXCEPT ![a] = wdoc]
              /\ artFile' = [b \in Arts |->
                    IF b = a THEN "named"
                    ELSE IF artDoc[b] = wdoc /\ artFile[b] = "staging"
                         THEN "gone" ELSE artFile[b]]
              /\ AttachArtifact(wjob, a)
              /\ wart' = a
          /\ Acquire(wdoc, "worker")
          /\ whad' = (docArt[wdoc] # NoArt)
          /\ wpc' = "PROCESSING"
          /\ UNCHANGED <<wjob, wdoc, wstate, werr>>
    /\ UNCHANGED <<docVars, jobState, jobFlag, jobDoc, artRow, idxMeta,
                   idxRows, apiVars, processVars>>

\* Mutant of StageAfter: the catalog points at the artifact before its
\* directory is in place.
StageWithoutPromotion(s) ==
    CASE s = "PROCESSING" -> "CHUNKING"
      [] s = "CHUNKING"   -> "VALIDATING"
      [] s = "VALIDATING" -> "register"

StageAfter(s) ==
    CASE s = "PROCESSING" -> "CHUNKING"
      [] s = "CHUNKING"   -> "VALIDATING"
      [] s = "VALIDATING" -> "promote"

\* _persist: everything the stages make goes to the staging directory.
FillStaging == artFile' = [artFile EXCEPT ![wart] = "staging"]

\* One stage: the document is marked, the job set RUNNING whatever its state
\* was, the work done in the staging directory, and the cancel flag polled.
PrepareStage ==
    /\ up /\ wpc \in PreparationStages
    /\ UpdateDoc(wdoc, wpc)
    /\ UpdateJob(wjob, "RUNNING")
    /\ FillStaging
    /\ IF CancelRequested(wjob)
       THEN Fail("prep_failed", "CANCELLED")
       ELSE Goto(StageAfter(wpc))
    /\ UNCHANGED <<docArt, source, tombstones, jobFlag, jobDoc, jobArt,
                   artDoc, artRow, idxMeta, idxRows, lock, apiVars,
                   processVars>>

\* os.replace(staging, final).
Promote ==
    /\ WorkerAt("promote")
    /\ artFile' = [artFile EXCEPT ![wart] = "final"]
    /\ Goto("register")
    /\ UNCHANGED <<docVars, jobVars, artDoc, artRow, idxMeta, idxRows, lock,
                   apiVars, processVars>>

\* The catalog transaction that makes the artifact the active one.
Register ==
    /\ WorkerAt("register")
    /\ artRow' = [artRow EXCEPT ![wart] = "PREPARED_NOT_INDEXED"]
    /\ docArt' = [docArt EXCEPT ![wdoc] = wart]
    /\ UpdateDoc(wdoc, "PREPARED_NOT_INDEXED")
    /\ Goto("prepared")
    /\ UNCHANGED <<source, tombstones, jobVars, artDoc, artFile, idxMeta,
                   idxRows, lock, apiVars, processVars>>

\* The last job update of prepare; leaving it releases the lock.
Prepared ==
    /\ WorkerAt("prepared")
    /\ UpdateJob(wjob, "RUNNING")
    /\ Release(wdoc)
    /\ Goto("between")
    /\ UNCHANGED <<docVars, jobFlag, jobDoc, jobArt, artVars, apiVars,
                   processVars>>

\* Extraction, tokenizer, validation, file system or SQLite errors.
PrepareFault ==
    /\ up /\ wpc \in PreparePcs
    /\ Fail("prep_failed", "FAILED")
    /\ UNCHANGED <<docVars, jobVars, artVars, lock, apiVars, processVars>>

\* The handlers of prepare: staging is removed and the job ended, then the
\* document is FAILED, unless it had an active artifact to begin with.
PrepareFailJob ==
    /\ WorkerAt("prep_failed")
    /\ artFile' = [artFile EXCEPT ![wart] = IF @ = "final" THEN @ ELSE "gone"]
    /\ UpdateJob(wjob, werr)
    /\ Goto("prep_fail_doc")
    /\ UNCHANGED <<docVars, jobFlag, jobDoc, jobArt, artDoc, artRow, idxMeta,
                   idxRows, lock, apiVars, processVars>>

PrepareFailDoc ==
    /\ WorkerAt("prep_fail_doc")
    /\ IF whad THEN UNCHANGED docState ELSE UpdateDoc(wdoc, "FAILED")
    /\ Release(wdoc)
    /\ WorkerIdle
    /\ UNCHANGED <<docArt, source, tombstones, jobVars, artVars, apiVars,
                   processVars>>

\* Back in _process between the phases: no lock is held here.
Between ==
    /\ WorkerAt("between")
    /\ \/ /\ CancelRequested(wjob)
          /\ Fail("escape", "CANCELLED")
          /\ UNCHANGED jobArt
       \/ /\ ~CancelRequested(wjob)
          /\ AttachArtifact(wjob, wart)
          /\ Goto("index_begin")
    /\ UNCHANGED <<docVars, jobState, jobFlag, jobDoc, artVars, lock, apiVars,
                   processVars>>

\* Mutant of Escape: the exception is swallowed, the job left as it is.
EscapeSilently ==
    /\ WorkerAt("escape")
    /\ WorkerIdle
    /\ UNCHANGED <<docVars, jobVars, artVars, lock, apiVars, processVars>>

\* An exception that no handler has turned into a job state yet.
Escape ==
    /\ WorkerAt("escape")
    /\ IF jobState[wjob] \in Active
       THEN UpdateJob(wjob, werr)
       ELSE UNCHANGED jobState
    /\ WorkerIdle
    /\ UNCHANGED <<docVars, jobFlag, jobDoc, jobArt, artVars, lock, apiVars,
                   processVars>>

-----------------------------------------------------------------------------
(* The worker thread: LocalIndexService.index_document, under the document *)
(* lock.                                                                   *)

Indexable(d) ==
    /\ docState[d] \in {"PREPARED_NOT_INDEXED", "INDEX_READY"}
    /\ docArt[d] # NoArt
    /\ artRow[docArt[d]] # "NONE" /\ artDoc[docArt[d]] = d

\* The checks of _index_document_locked; the document then turns INDEXING.
IndexBegin ==
    /\ WorkerAt("index_begin")
    /\ lock[wdoc] = "free"
    /\ \/ /\ ~Indexable(wdoc) \/ jobState[wjob] = "GONE"
          /\ Fail("escape", "FAILED")
          /\ UNCHANGED <<lock, jobArt, docState>>
       \/ /\ Indexable(wdoc) /\ jobState[wjob] # "GONE"
          /\ Acquire(wdoc, "worker")
          /\ AttachArtifact(wjob, docArt[wdoc])
          /\ UpdateDoc(wdoc, "INDEXING")
          /\ wpc' = "index_load"
          /\ wart' = docArt[wdoc]
          /\ UNCHANGED <<wjob, wdoc, wstate, whad, werr>>
    /\ UNCHANGED <<docArt, source, tombstones, jobState, jobFlag, jobDoc,
                   artVars, apiVars, processVars>>

\* Loading the embedding model, between two polls of the cancel flag.
IndexLoad ==
    /\ WorkerAt("index_load")
    /\ IF CancelRequested(wjob)
       THEN Fail("index_restore", "CANCELLED") /\ UNCHANGED jobState
       ELSE Goto("index_init") /\ UpdateJob(wjob, "RUNNING")
    /\ UNCHANGED <<docVars, jobFlag, jobDoc, jobArt, artVars, lock, apiVars,
                   processVars>>

\* _initialize_index_tables: whatever index the artifact had is deleted.
IndexInit ==
    /\ WorkerAt("index_init")
    /\ artFile[wart] = "final"
    /\ idxRows' = [idxRows EXCEPT ![wart] = 0]
    /\ idxMeta' = [idxMeta EXCEPT ![wart] = "INDEXING"]
    /\ Goto("index_batch")
    /\ UNCHANGED <<docVars, jobVars, artDoc, artFile, artRow, lock, apiVars,
                   processVars>>

\* One turn of the batch loop: progress update, cancel poll, one committed
\* batch of vectors and full-text rows.
IndexBatch ==
    /\ WorkerAt("index_batch")
    /\ idxRows[wart] < NChunks
    /\ UpdateJob(wjob, "RUNNING")
    /\ IF CancelRequested(wjob)
       THEN Fail("index_restore", "CANCELLED") /\ UNCHANGED idxRows
       ELSE /\ idxRows' = [idxRows EXCEPT ![wart] = @ + 1]
            /\ UNCHANGED workerVars
    /\ UNCHANGED <<docVars, jobFlag, jobDoc, jobArt, artDoc, artFile, artRow,
                   idxMeta, lock, apiVars, processVars>>

\* Mutant of IndexValidate: the counts are not validated.
IndexUnvalidated ==
    /\ WorkerAt("index_batch")
    /\ UpdateJob(wjob, "RUNNING")
    /\ idxMeta' = [idxMeta EXCEPT ![wart] = "INDEX_READY"]
    /\ Goto("publish")
    /\ UNCHANGED <<docVars, jobFlag, jobDoc, jobArt, artDoc, artFile, artRow,
                   idxRows, lock, apiVars, processVars>>

\* After the last batch: the last poll, _validate, and the mark inside the
\* artifact database.
IndexValidate ==
    /\ WorkerAt("index_batch")
    /\ idxRows[wart] = NChunks
    /\ UpdateJob(wjob, "RUNNING")
    /\ IF CancelRequested(wjob)
       THEN Fail("index_restore", "CANCELLED") /\ UNCHANGED idxMeta
       ELSE /\ idxMeta' = [idxMeta EXCEPT ![wart] = "INDEX_READY"]
            /\ Goto("publish")
    /\ UNCHANGED <<docVars, jobFlag, jobDoc, jobArt, artDoc, artFile, artRow,
                   idxRows, lock, apiVars, processVars>>

\* The catalog transaction that opens the queryability gate.
Publish ==
    /\ WorkerAt("publish")
    /\ artRow' = [artRow EXCEPT ![wart] = "INDEX_READY"]
    /\ docArt' = [docArt EXCEPT ![wdoc] = wart]
    /\ UpdateDoc(wdoc, "INDEX_READY")
    /\ Goto("succeed")
    /\ UNCHANGED <<source, tombstones, jobVars, artDoc, artFile, idxMeta,
                   idxRows, lock, apiVars, processVars>>

\* The job is SUCCEEDED even if it was asked to stop after the last poll.
Succeed ==
    /\ WorkerAt("succeed")
    /\ UpdateJob(wjob, "SUCCEEDED")
    /\ Release(wdoc)
    /\ WorkerIdle
    /\ UNCHANGED <<docVars, jobFlag, jobDoc, jobArt, artVars, apiVars,
                   processVars>>

\* Model, embedding, validation, file or SQLite errors.
IndexFault ==
    /\ up /\ wpc \in IndexPcs
    /\ Fail("index_restore", "FAILED")
    /\ UNCHANGED <<docVars, jobVars, artVars, lock, apiVars, processVars>>

\* Mutant of IndexRestore: the build is retried until it works.
IndexRetry ==
    /\ WorkerAt("index_restore")
    /\ Goto("index_load")
    /\ UNCHANGED <<docVars, jobVars, artVars, lock, apiVars, processVars>>

\* _restore_not_indexed: the mark in the artifact (best effort), then the
\* catalog; and the handler's last job update.
IndexRestore ==
    /\ WorkerAt("index_restore")
    /\ \/ /\ artFile[wart] = "final"
          /\ idxMeta' = [idxMeta EXCEPT ![wart] = "PREPARED_NOT_INDEXED"]
       \/ UNCHANGED idxMeta
    /\ Goto("index_gate")
    /\ UNCHANGED <<docVars, jobVars, artDoc, artFile, artRow, idxRows, lock,
                   apiVars, processVars>>

IndexGate ==
    /\ WorkerAt("index_gate")
    /\ UpdateDoc(wdoc, "PREPARED_NOT_INDEXED")
    /\ Goto("index_end")
    /\ UNCHANGED <<docArt, source, tombstones, jobVars, artVars, lock,
                   apiVars, processVars>>

IndexEnd ==
    /\ WorkerAt("index_end")
    /\ UpdateJob(wjob, werr)
    /\ Release(wdoc)
    /\ WorkerIdle
    /\ UNCHANGED <<docVars, jobFlag, jobDoc, jobArt, artVars, apiVars,
                   processVars>>

-----------------------------------------------------------------------------
(* The API: one handler at a time, from its first to its last step.  A     *)
(* handler that waits for a document lock keeps every other one waiting.   *)

ApiAt(pc) == up /\ apc = pc

Handle(pc, d) == apc' = pc /\ adoc' = d /\ UNCHANGED aforce
ApiGoto(pc) == apc' = pc /\ UNCHANGED <<adoc, aforce>>
ApiIdle == apc' = "idle" /\ adoc' = NoDoc /\ aforce' = FALSE

\* accept_document of an unknown id: the verified bytes are moved into a new
\* directory (mkdir with exist_ok=False), then the row is inserted.  Bytes of
\* a known id, or a directory in the way, change nothing.
AcceptSource(d) ==
    /\ ApiAt("idle")
    /\ docState[d] = "NONE" /\ ~source[d]
    /\ source' = [source EXCEPT ![d] = TRUE]
    /\ Handle("accept_row", d)
    /\ UNCHANGED <<docState, docArt, tombstones, jobVars, artVars, lock,
                   workerVars, processVars>>

AcceptRow ==
    /\ ApiAt("accept_row")
    /\ docState' = [docState EXCEPT ![adoc] = "ACCEPTED"]
    /\ docArt' = [docArt EXCEPT ![adoc] = NoArt]
    /\ ApiIdle
    /\ UNCHANGED <<source, tombstones, jobVars, artVars, lock, workerVars,
                   processVars>>

\* The managed copy does not verify, or the insert fails: only the temporary
\* file is removed.
AcceptFault ==
    /\ ApiAt("accept_row")
    /\ ApiIdle
    /\ UNCHANGED <<docVars, jobVars, artVars, lock, workerVars, processVars>>

\* Bound: requests are refused once MaxJobs jobs were created.
JobsLeft == \E j \in Jobs : jobState[j] = "UNUSED"

\* Mutant of ActiveJobOf: only a job that waits counts as active.
WaitingJobOf(d) == \E j \in JobsOf(d) : jobState[j] = "QUEUED"

ActiveJobOf(d) == \E j \in JobsOf(d) : jobState[j] \in Active

\* POST .../prepare (force = FALSE) and POST .../index (force = TRUE).
Enqueue(d, force) ==
    /\ ApiAt("idle")
    /\ apc' = "enqueue" /\ adoc' = d /\ aforce' = force
    /\ UNCHANGED <<docVars, jobVars, artVars, lock, workerVars, processVars>>

\* enqueue_document_pipeline once it has the lock: a missing row is refused,
\* a forced request closes the gate of an INDEX_READY document.
EnqueueLocked ==
    /\ ApiAt("enqueue")
    /\ lock[adoc] = "free"
    /\ \/ /\ \/ docState[adoc] = "NONE"
             \/ aforce /\ docState[adoc] = "INDEX_READY" /\ docArt[adoc] = NoArt
             \/ ~JobsLeft /\ ~ActiveJobOf(adoc)
          /\ ApiIdle
          /\ UNCHANGED <<docState, lock>>
       \/ /\ docState[adoc] # "NONE"
          /\ JobsLeft \/ ActiveJobOf(adoc)
          /\ IF aforce /\ docState[adoc] = "INDEX_READY"
             THEN docArt[adoc] # NoArt /\ UpdateDoc(adoc, "PREPARED_NOT_INDEXED")
             ELSE UNCHANGED docState
          /\ Acquire(adoc, "api")
          /\ ApiGoto("enqueue_job")
    /\ UNCHANGED <<docArt, source, tombstones, jobVars, artVars, workerVars,
                   processVars>>

\* enqueue_pipeline: the job already active for the document is returned, or
\* a new one inserted.  Only the document lock makes SELECT and INSERT one.
EnqueueJob ==
    /\ ApiAt("enqueue_job")
    /\ IF ActiveJobOf(adoc) \/ ~JobsLeft
       THEN UNCHANGED jobVars
       ELSE \E j \in Jobs :
            /\ jobState[j] = "UNUSED"
            /\ \A k \in Jobs : jobState[k] = "UNUSED" => j <= k
            /\ jobState' = [jobState EXCEPT ![j] = "QUEUED"]
            /\ jobDoc' = [jobDoc EXCEPT ![j] = adoc]
            /\ UNCHANGED <<jobFlag, jobArt>>
    /\ Release(adoc)
    /\ ApiIdle
    /\ UNCHANGED <<docVars, artVars, workerVars, processVars>>

Cancellable == {"QUEUED", "RUNNING"}

\* POST /v1/jobs/{id}:cancel takes no document lock.
Cancel(j) ==
    /\ ApiAt("idle")
    /\ jobState[j] \in Cancellable
    /\ jobState' = [jobState EXCEPT ![j] = "CANCEL_REQUESTED"]
    /\ jobFlag' = [jobFlag EXCEPT ![j] = TRUE]
    /\ UNCHANGED <<jobDoc, jobArt, docVars, artVars, lock, workerVars,
                   apiVars, processVars>>

Delete(d) ==
    /\ ApiAt("idle")
    /\ Handle("delete", d)
    /\ UNCHANGED <<docVars, jobVars, artVars, lock, workerVars, processVars>>

\* delete_document once it has the lock: cancel_for_document first.
DeleteLocked ==
    /\ ApiAt("delete")
    /\ lock[adoc] = "free"
    /\ IF docState[adoc] = "NONE"
       THEN ApiIdle /\ UNCHANGED <<jobState, jobFlag, lock>>
       ELSE LET hit == {j \in JobsOf(adoc) : jobState[j] \in Cancellable}
            IN  /\ jobState' = [j \in Jobs |-> IF j \in hit
                                    THEN "CANCEL_REQUESTED" ELSE jobState[j]]
                /\ jobFlag' = [j \in Jobs |-> j \in hit \/ jobFlag[j]]
                /\ Acquire(adoc, "api")
                /\ ApiGoto("delete_source")
    /\ UNCHANGED <<jobDoc, jobArt, docVars, artVars, workerVars, processVars>>

DeleteSource ==
    /\ ApiAt("delete_source")
    /\ source' = [source EXCEPT ![adoc] = FALSE]
    /\ ApiGoto("delete_artifacts")
    /\ UNCHANGED <<docState, docArt, tombstones, jobVars, artVars, lock,
                   workerVars, processVars>>

DeleteArtifacts ==
    /\ ApiAt("delete_artifacts")
    /\ artFile' = [a \in Arts |->
                      IF a \in ArtsOf(adoc) THEN "gone" ELSE artFile[a]]
    /\ ApiGoto("delete_rows")
    /\ UNCHANGED <<docVars, jobVars, artDoc, artRow, idxMeta, idxRows, lock,
                   workerVars, processVars>>

DeleteRows ==
    /\ ApiAt("delete_rows")
    /\ jobState' = [j \in Jobs |->
                       IF jobDoc[j] = adoc THEN "GONE" ELSE jobState[j]]
    /\ artRow' = [a \in Arts |-> IF a \in ArtsOf(adoc) THEN "NONE" ELSE artRow[a]]
    /\ docState' = [docState EXCEPT ![adoc] = "NONE"]
    /\ docArt' = [docArt EXCEPT ![adoc] = NoArt]
    /\ ApiGoto("delete_tombstone")
    /\ UNCHANGED <<source, tombstones, jobFlag, jobDoc, jobArt, artDoc,
                   artFile, idxMeta, idxRows, lock, workerVars, processVars>>

\* The tombstone is queued in a transaction of its own.
DeleteTombstone ==
    /\ ApiAt("delete_tombstone")
    /\ tombstones' = tombstones \cup {adoc}
    /\ Release(adoc)
    /\ ApiIdle
    /\ UNCHANGED <<docState, docArt, source, jobVars, artVars, workerVars,
                   processVars>>

\* A file that cannot be removed, or SQLite refusing: what was done so far
\* stays done, rmtree may have removed part of the artifacts.
DeleteFault ==
    /\ up /\ apc \in ApiLockedPcs \ {"enqueue_job"}
    /\ \E S \in SUBSET (IF apc = "delete_artifacts" THEN ArtsOf(adoc) ELSE {}) :
          artFile' = [a \in Arts |-> IF a \in S THEN "gone" ELSE artFile[a]]
    /\ Release(adoc)
    /\ ApiIdle
    /\ UNCHANGED <<docVars, jobVars, artDoc, artRow, idxMeta, idxRows,
                   workerVars, processVars>>

-----------------------------------------------------------------------------
(* The process: everything in memory is lost, the locks included.          *)

Crash ==
    /\ up /\ crashes < MaxCrashes
    /\ up' = FALSE
    /\ crashes' = crashes + 1
    /\ lock' = [d \in Docs |-> "free"]
    /\ WorkerIdle
    /\ ApiIdle
    /\ UNCHANGED <<docVars, jobVars, artVars>>

\* What reconcile_interrupted finds after a crash.
Interrupted(j) == jobState[j] \in {"RUNNING", "CANCEL_REQUESTED"}

\* Mutant of Restart: whatever was interrupted is queued again.
RestartForgetsFlags ==
    /\ ~up
    /\ up' = TRUE
    /\ jobState' = [j \in Jobs |->
            IF Interrupted(j) THEN "QUEUED" ELSE jobState[j]]
    /\ UNCHANGED <<jobFlag, jobDoc, jobArt, docVars, artVars, lock,
                   workerVars, apiVars, crashes>>

\* The process starts again: reconciliation first, then the worker thread.
Restart ==
    /\ ~up
    /\ up' = TRUE
    /\ jobState' = [j \in Jobs |->
            IF ~Interrupted(j) THEN jobState[j]
            ELSE IF jobFlag[j] THEN "CANCELLED" ELSE "QUEUED"]
    /\ UNCHANGED <<jobFlag, jobDoc, jobArt, docVars, artVars, lock,
                   workerVars, apiVars, crashes>>

-----------------------------------------------------------------------------
LockWait == PrepareBegin \/ IndexBegin

WorkerStep ==
    \/ Claim \/ Inspect \/ AlreadyReady \/ ReopenIndexing \/ ResumePrepared
    \/ StartPreparation \/ PrepareStage \/ Promote \/ Register \/ Prepared
    \/ PrepareFault \/ PrepareFailJob \/ PrepareFailDoc \/ Between \/ Escape
    \/ IndexLoad \/ IndexInit \/ IndexBatch \/ IndexValidate \/ Publish
    \/ Succeed \/ IndexFault \/ IndexRestore \/ IndexGate \/ IndexEnd

\* What a handler does once its request has arrived.
HandlerStep ==
    \/ AcceptRow \/ AcceptFault \/ EnqueueLocked \/ EnqueueJob
    \/ DeleteLocked \/ DeleteSource \/ DeleteArtifacts \/ DeleteRows
    \/ DeleteTombstone \/ DeleteFault

Request ==
    \/ \E d \in Docs : AcceptSource(d) \/ Delete(d)
    \/ \E d \in Docs, force \in BOOLEAN : Enqueue(d, force)
    \/ \E j \in Jobs : Cancel(j)

Next == WorkerStep \/ LockWait \/ HandlerStep \/ Request \/ Crash \/ Restart

Spec == Init /\ [][Next]_vars

\* The thread and a handler go on while the process lives; a dead process is
\* started again; and the worker, which sleeps on the lock, gets it in the
\* end although handlers take it again and again.
Fairness ==
    /\ WF_vars(WorkerStep)
    /\ SF_vars(LockWait)
    /\ WF_vars(HandlerStep)
    /\ WF_vars(Restart)

FairSpec == Spec /\ Fairness

-----------------------------------------------------------------------------
(* Properties.                                                             *)

DocTypeOK ==
    /\ docState \in [Docs -> DocStates]
    /\ docArt \in [Docs -> Arts \cup {NoArt}]
    /\ source \in [Docs -> BOOLEAN]
    /\ tombstones \in SUBSET Docs

JobTypeOK ==
    /\ jobState \in [Jobs -> JobStates]
    /\ jobFlag \in [Jobs -> BOOLEAN]
    /\ jobDoc \in [Jobs -> Docs \cup {NoDoc}]
    /\ jobArt \in [Jobs -> Arts \cup {NoArt}]

ArtTypeOK ==
    /\ artDoc \in [Arts -> Docs \cup {NoDoc}]
    /\ artFile \in [Arts -> {"unused", "named", "staging", "final", "gone"}]
    /\ artRow \in [Arts -> {"NONE", "PREPARED_NOT_INDEXED", "INDEX_READY"}]
    /\ idxMeta \in [Arts -> {"NONE", "INDEXING", "PREPARED_NOT_INDEXED",
                             "INDEX_READY"}]
    /\ idxRows \in [Arts -> 0..NChunks]

WorkerTypeOK ==
    /\ wpc \in WorkerPcs
    /\ wjob \in Jobs \cup {NoJob} /\ wdoc \in Docs \cup {NoDoc}
    /\ wstate \in DocStates /\ wart \in Arts \cup {NoArt}
    /\ whad \in BOOLEAN /\ werr \in {"NONE", "FAILED", "CANCELLED"}

ProcessTypeOK ==
    /\ lock \in [Docs -> {"free", "worker", "api"}]
    /\ apc \in ApiPcs /\ adoc \in Docs \cup {NoDoc} /\ aforce \in BOOLEAN
    /\ up \in BOOLEAN /\ crashes \in 0..MaxCrashes

TypeOK == DocTypeOK /\ JobTypeOK /\ ArtTypeOK /\ WorkerTypeOK /\ ProcessTypeOK

\* Repeated clicks, restarts and deletions never leave two pipeline jobs
\* competing for one document (jobs.py, enqueue_pipeline: idempotent while a
\* pipeline is active), although its SELECT and INSERT are two statements.
OneActiveJob ==
    \A j, k \in Jobs :
        jobState[j] \in Active /\ jobState[k] \in Active
            /\ jobDoc[j] = jobDoc[k] => j = k

\* The gate the catalog is: a document that is INDEX_READY and whose files
\* exist has every chunk of its active artifact in the index, whatever was
\* interrupted, cancelled, retried or rebuilt before.
ReadyIsComplete ==
    \A d \in Docs :
        docState[d] = "INDEX_READY" /\ artFile[docArt[d]] = "final" =>
            idxRows[docArt[d]] = NChunks /\ artRow[docArt[d]] = "INDEX_READY"

\* A cancellation, once accepted, survives the RUNNING updates that overwrite
\* CANCEL_REQUESTED and a crash after them: reconcile_interrupted never gives
\* the job back to the queue.  And no job is CANCELLED that nobody cancelled.
CancelSurvives ==
    \A j \in Jobs :
        /\ jobState[j] = "QUEUED" => ~jobFlag[j]
        /\ jobState[j] \in {"CANCEL_REQUESTED", "CANCELLED"} => jobFlag[j]

\* delete_document, complete or cut short anywhere: when the document has no
\* row, no job, no artifact row and no artifact directory of it is left that
\* a later preparation, a query or reconciliation could find.
NothingLeftOfDeleted ==
    \A d \in Docs : docState[d] = "NONE" =>
        /\ \A j \in JobsOf(d) : jobState[j] = "GONE"
        /\ \A a \in ArtsOf(d) : artRow[a] = "NONE" /\ artFile[a] = "gone"

\* The active artifact is registered for this very document, and its files
\* are promoted, unless a deletion has begun to remove them.
ActiveArtifactIsOwned ==
    \A d \in Docs : docArt[d] # NoArt =>
        /\ artDoc[docArt[d]] = d
        /\ artRow[docArt[d]] # "NONE"
        /\ artFile[docArt[d]] \in {"final", "gone"}

\* Terminal job states are immutable: updates are unconditional, so only the
\* order of the worker's steps and the queries of the API keep it.
TerminalIsImmutable ==
    [][\A j \in Jobs : jobState[j] \in Terminal =>
           jobState'[j] \in {jobState[j], "GONE"}]_vars

\* A READY document stays so while nobody holds its lock, except that a
\* handler takes the lock in that step: the worker's unlocked write of Case 2
\* and the reconciliation after a crash never close the gate.
ReadyIsStable ==
    [][\A d \in Docs : docState[d] = "INDEX_READY" /\ lock[d] = "free" =>
           docState'[d] = "INDEX_READY" \/ lock'[d] # "free"]_vars

Ended(j) == jobState[j] \in Terminal \cup {"GONE"}

\* A claimed job ends, or a restart returns it to the queue.
RunningJobEnds ==
    \A j \in Jobs : jobState[j] = "RUNNING" ~> Ended(j) \/ jobState[j] = "QUEUED"

\* No handler waits for ever, nor keeps the event loop from the next one.
HandlerEnds == apc # "idle" ~> apc = "idle"

\* The job table as the browser polls it, under every interleaving of worker,
\* handlers, deletions and crashes, behaves as JobContract says.
Contract == INSTANCE JobContract
    WITH state <- jobState, flag <- jobFlag, owner <- jobDoc

ImplementsJobContract == Contract!ContractSpec

-----------------------------------------------------------------------------
(* Why the job properties hold: the facts about worker and handler that    *)
(* make them inductive.                                                    *)

\* The worker's job is of the worker's document.
WorkerHasJob ==
    wpc # "idle" =>
        /\ up /\ wjob \in Jobs /\ wdoc \in Docs
        /\ jobState[wjob] # "UNUSED" /\ jobDoc[wjob] = wdoc

\* As long as the worker may still write to its job, nobody has ended it;
\* only the handlers of prepare go on after the end of the job.
WorkerJobIsOpen ==
    /\ wpc \notin {"idle", "prep_fail_doc"} =>
           jobState[wjob] \in {"RUNNING", "CANCEL_REQUESTED", "GONE"}
    /\ wpc = "prep_fail_doc" => jobState[wjob] \in Terminal \cup {"GONE"}

\* In a live process whatever is RUNNING is the worker's.
OnlyWorkerRuns ==
    up => \A j \in Jobs :
        jobState[j] = "RUNNING" => wpc # "idle" /\ j = wjob

\* An exception on its way is a failure, or a cancellation that was asked for.
ExceptionHasCause ==
    wpc \in {"prep_failed", "escape"} \cup IndexFailPcs =>
        werr = "FAILED" \/ (werr = "CANCELLED" /\ jobFlag[wjob])

HandlerHasDoc == apc # "idle" => adoc \in Docs

JobHasDoc ==
    \A j \in Jobs :
        IF jobState[j] = "UNUSED" THEN ~jobFlag[j] ELSE jobDoc[j] \in Docs

\* The inductive invariant of the job table: no step of the worker writes to
\* a job that has ended, and cancellation flags are where they belong.
JobInv ==
    /\ WorkerHasJob /\ WorkerJobIsOpen /\ OnlyWorkerRuns /\ ExceptionHasCause
    /\ HandlerHasDoc /\ JobHasDoc
    /\ OneActiveJob /\ CancelSurvives

-----------------------------------------------------------------------------
(* What contracts and comments say and the code does not do; the README    *)
(* tells the counterexamples.                                              *)

\* "Idempotent cancellation request/status" resolved at a safe boundary
\* (BROWSER_COMPUTE_PROTOCOL_V1, sections 9 and 10): every job asked to
\* cancel ends.  A job cancelled in the queue is never claimed again.
CancelRequestIsServed ==
    \A j \in Jobs : jobState[j] = "CANCEL_REQUESTED" ~> Ended(j)

\* A job SUCCEEDED at stage INDEX_READY because "the previous worker finished
\* everything" (pipeline.py, Case 1): its document is INDEX_READY.  The row
\* was read before, without the lock.
SuccessMeansReady ==
    [][\A j \in Jobs :
        jobState[j] # "SUCCEEDED" /\ jobState'[j] = "SUCCEEDED" =>
            docState'[jobDoc[j]] = "INDEX_READY"]_vars
=============================================================================
