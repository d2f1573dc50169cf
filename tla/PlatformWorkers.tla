--------------------------- MODULE PlatformWorkers ---------------------------
(***************************************************************************)
(* One document of the platform's own deployment: the requests that upload *)
(* it, the four RQ workers (ingestion, processing, indexing, collection),  *)
(* PostgreSQL, the object store and Redis, which share no transaction.     *)
(* RQ delivers a task, repeats it while retries are left, and may lose it  *)
(* with the worker that ran it.                                            *)
(***************************************************************************)
EXTENDS Integers

CONSTANTS
    Users,        \* each uploads the same file, at most one request at a time
    IndexJobs,    \* rows of indexing_jobs; one that has ended is used again
    NoJob,
    MaxRetries,   \* RQ's Retry(max=...)
    MaxFaults     \* failing calls (MinIO, Redis, database), dying or slow processes

ASSUME PlatformAssumption ==
    /\ NoJob \notin IndexJobs
    /\ IndexJobs \cap {"ingest", "process", "gc"} = {}    \* a task has one name
    /\ MaxRetries \in Nat /\ MaxFaults \in Nat

VARIABLES
    doc,        \* documents.status, ABSENT before and COLLECTED after the row
    uri,        \* documents.storage_uri is set
    grants,     \* document_access_grants
    ing, proc,  \* status of its ingestion job and of its processing job
    idx,        \* status of its indexing jobs
    chunks, indexed,    \* it has chunks; index rows of the present ones
    object,     \* original.pdf is in MinIO
    queued, left,               \* RQ: tasks waiting, retries left of each
    upload,     \* where the request of a user is
    pc, job,    \* where a worker is, and the indexing job it works on or made
    replaced,   \* the chunks the indexing worker loaded were replaced
    unindexed,  \* the last processing ended without handing over to indexing
    cut,        \* a collection ended between the object and the rows
    faults

docVars == <<doc, uri, grants, chunks, indexed, object>>
jobVars == <<ing, proc, idx>>
rqVars == <<queued, left>>
history == <<replaced, unindexed, cut>>
vars == <<docVars, jobVars, rqVars, upload, pc, job, history, faults>>

Workers == {"ingest", "process", "index", "gc"}
Tasks == {"ingest", "process", "gc"} \cup IndexJobs
Open == {"PENDING", "PROCESSING"}
Restartable == {"PENDING", "FAILED", "PROCESSING"}
Existing == Restartable \cup {"COMPLETED"}

DocExists == doc \notin {"ABSENT", "COLLECTED"}
\* SELECT ... FOR UPDATE of the document: only the collection holds it across
\* steps; every write to the row, and every insert that refers to it, waits.
RowFree == pc["gc"] # "rows"

Running(t) ==
    IF t \in IndexJobs THEN pc["index"] # "idle" /\ job["index"] = t
    ELSE pc[t] # "idle"
\* RQ's queued, scheduled and started
Live(t) == t \in queued \/ Running(t)

Enqueue(t) == queued' = queued \cup {t} /\ left' = [left EXCEPT ![t] = MaxRetries]
\* enqueue_document_gc: a task of that name that is live stands for this one
EnqueueGc == IF Live("gc") THEN UNCHANGED rqVars ELSE Enqueue("gc")
Fault == faults < MaxFaults /\ faults' = faults + 1
Finish(w) == pc' = [pc EXCEPT ![w] = "idle"] /\ job' = [job EXCEPT ![w] = NoJob]
To(w, step) == pc' = [pc EXCEPT ![w] = step] /\ UNCHANGED job
SetDoc(s) == doc' = IF DocExists THEN s ELSE doc
SetIng(s) == ing' = IF ing # "NONE" THEN s ELSE ing
\* ProcessingJobRepository: every update names the states it is made from.
SetProc(from, s) == proc' = IF proc \in from THEN s ELSE proc
\* IndexingJobRepository: only the start of a job asks for its state.
SetIdx(i, from, s) == idx' = IF idx[i] \in from THEN [idx EXCEPT ![i] = s] ELSE idx
\* JobRepository.mark_failed takes the document along.
FailIngestion == SetIng("FAILED") /\ IF ing # "NONE" THEN SetDoc("FAILED") ELSE UNCHANGED doc

Init ==
    /\ doc = "ABSENT" /\ uri = FALSE /\ grants = {} /\ object = FALSE
    /\ chunks = FALSE /\ indexed = FALSE
    /\ ing = "NONE" /\ proc = "NONE" /\ idx = [i \in IndexJobs |-> "NONE"]
    /\ queued = {} /\ left = [t \in Tasks |-> 0]
    /\ upload = [u \in Users |-> "idle"]
    /\ pc = [w \in Workers |-> "idle"] /\ job = [w \in Workers |-> NoJob]
    /\ replaced = FALSE /\ unindexed = FALSE /\ cut = FALSE
    /\ faults = 0

(***************************************************************************)
(* POST /documents, process_upload                                         *)
(***************************************************************************)
At(u, from, to) == upload[u] = from /\ upload' = [upload EXCEPT ![u] = to]
workers == <<pc, job, history>>
rows == <<grants, chunks, indexed>>

\* get_by_sha256.  A file that was collected would be a new document.
Lookup(u) ==
    /\ doc # "COLLECTED"
    /\ At(u, "idle", IF DocExists THEN "grant_known" ELSE "create")
    /\ UNCHANGED <<docVars, jobVars, rqVars, workers, faults>>

\* The loser of a race on the unique sha256 goes on with the winner's row.
CreateDocument(u) ==
    /\ IF doc = "ABSENT"
       THEN doc' = "UPLOADING" /\ At(u, "create", "grant_new")
       ELSE doc' = doc /\ At(u, "create", IF DocExists THEN "grant_known" ELSE "idle")
    /\ UNCHANGED <<rows, uri, object, jobVars, rqVars, workers, faults>>

\* grant_private under the lock of the row; 404 if the document is gone.
Grant(u) ==
    /\ RowFree
    /\ grants' = IF DocExists THEN grants \cup {u} ELSE grants
    /\ \/ At(u, "grant_known", "idle")
       \/ At(u, "grant_new", IF DocExists THEN "store" ELSE "idle")
    /\ UNCHANGED <<doc, uri, chunks, indexed, object, jobVars, rqVars, workers, faults>>

PutObject(u) ==
    /\ At(u, "store", "uri") /\ object' = TRUE
    /\ UNCHANGED <<doc, uri, rows, jobVars, rqVars, workers, faults>>

SetUri(u) ==
    /\ RowFree /\ At(u, "uri", "job") /\ uri' = DocExists
    /\ UNCHANGED <<doc, rows, object, jobVars, rqVars, workers, faults>>

CreateIngestionJob(u) ==
    /\ RowFree
    /\ IF DocExists THEN ing' = "UPLOADING" /\ At(u, "job", "enqueue")
                    ELSE ing' = ing /\ At(u, "job", "failed")
    /\ UNCHANGED <<docVars, proc, idx, rqVars, workers, faults>>

EnqueueIngestion(u) ==
    \/ /\ At(u, "enqueue", "look") /\ Enqueue("ingest")
       /\ UNCHANGED <<docVars, jobVars, workers, faults>>
    \/ /\ RowFree /\ Fault /\ At(u, "enqueue", "failed") /\ FailIngestion
       /\ UNCHANGED <<rows, uri, object, proc, idx, rqVars, workers>>

\* transition_to_pending reads the job with status UPLOADING ...
LookUploading(u) ==
    /\ At(u, "look", IF ing = "UPLOADING" THEN "pending" ELSE "idle")
    /\ UNCHANGED <<docVars, jobVars, rqVars, workers, faults>>

\* ... and writes it by its key alone, whatever the worker did meanwhile.
SetPending(u) ==
    /\ RowFree
    /\ At(u, "pending", IF ing = "NONE" THEN "failed" ELSE "idle")
    /\ SetIng("PENDING") /\ SetDoc("PENDING")
    /\ UNCHANGED <<rows, uri, object, proc, idx, rqVars, workers, faults>>

UploadFault(u) ==
    /\ upload[u] \in {"store", "uri", "job"} /\ Fault
    /\ upload' = [upload EXCEPT ![u] = "failed"]
    /\ UNCHANGED <<docVars, jobVars, rqVars, workers>>

\* The handler of process_upload; grants and object stay.
UploadFailed(u) ==
    /\ RowFree /\ At(u, "failed", "idle") /\ SetDoc("FAILED")
    /\ UNCHANGED <<rows, uri, object, jobVars, rqVars, workers, faults>>

UploadStep(u) ==
    \/ CreateDocument(u) \/ Grant(u) \/ PutObject(u) \/ SetUri(u)
    \/ CreateIngestionJob(u) \/ EnqueueIngestion(u) \/ LookUploading(u)
    \/ SetPending(u) \/ UploadFailed(u)

(***************************************************************************)
(* The other requests                                                      *)
(***************************************************************************)
\* The route queues the collection after the commit: a failure, or the end of
\* the process, in between goes unnoticed.
NoticeOrphan == (EnqueueGc /\ UNCHANGED faults) \/ (Fault /\ UNCHANGED rqVars)

\* DELETE /documents/{id}
RemoveAccess(u) ==
    /\ RowFree /\ DocExists /\ u \in grants
    /\ grants' = grants \ {u}
    /\ IF grants' = {}
       THEN NoticeOrphan
       ELSE UNCHANGED <<rqVars, faults>>
    /\ UNCHANGED <<doc, uri, chunks, indexed, object, jobVars, upload, workers>>

\* A row for a new indexing job: the model's bound is on those that are open.
Free(i) == idx[i] \notin Open /\ ~Live(i)

\* POST /documents/{id}/index, whatever has been processed so far.
RequestIndex(u, i) ==
    /\ RowFree /\ u \in grants /\ Free(i)
    /\ \/ /\ idx' = [idx EXCEPT ![i] = "PENDING"] /\ Enqueue(i)
          /\ UNCHANGED faults
       \/ /\ Fault /\ idx' = [idx EXCEPT ![i] = "FAILED"]
          /\ UNCHANGED rqVars
    /\ UNCHANGED <<docVars, ing, proc, upload, workers>>

\* Mutant of ApiStartup: documents without a file are not looked at.
StartupNeedsObject ==
    /\ DocExists /\ object /\ grants = {} /\ ~Live("gc") /\ EnqueueGc
    /\ UNCHANGED <<docVars, jobVars, upload, workers, faults>>

\* reconcile_durable_cleanup_intents, whenever an API process starts.
ApiStartup ==
    /\ DocExists /\ grants = {} /\ ~Live("gc") /\ EnqueueGc
    /\ UNCHANGED <<docVars, jobVars, upload, workers, faults>>

ApiCrash ==
    /\ Fault
    /\ \E u \in Users : upload[u] # "idle"
    /\ upload' = [u \in Users |-> "idle"]
    /\ UNCHANGED <<docVars, jobVars, rqVars, workers>>

(***************************************************************************)
(* What every worker shares                                                *)
(***************************************************************************)
ended == <<upload, faults>>

\* RQ's side of an exception: repeat the task, or put it away for good.
Raise(w, t) ==
    /\ Finish(w)
    /\ IF left[t] > 0 THEN queued' = queued \cup {t} /\ left' = [left EXCEPT ![t] = @ - 1]
                      ELSE UNCHANGED rqVars

\* "Terminal failure": retries_left = 0 before the exception is raised again.
GiveUp(w, t) == Finish(w) /\ left' = [left EXCEPT ![t] = 0] /\ UNCHANGED queued

TaskOf(w) == IF w = "index" THEN job[w] ELSE w

WorkerFault(w) ==
    /\ pc[w] \notin {"idle", "failed", "retry", "finishing"} /\ Fault
    /\ To(w, "retry")
    /\ cut' = (cut \/ (w = "gc" /\ pc[w] = "rows"))
    /\ UNCHANGED <<docVars, jobVars, rqVars, upload, replaced, unindexed>>

\* RQ repeats the task of a dead worker, or loses it.
WorkerCrash(w) ==
    /\ Fault
    /\ pc[w] # "idle"
    /\ \/ Raise(w, TaskOf(w))
       \/ Finish(w) /\ UNCHANGED rqVars
    /\ unindexed' = (unindexed \/ (w = "process" /\ proc = "COMPLETED"))
    /\ cut' = (cut \/ (w = "gc" /\ pc[w] = "rows"))
    /\ UNCHANGED <<docVars, jobVars, upload, replaced>>

(***************************************************************************)
(* process_ingestion                                                       *)
(***************************************************************************)
IngestStart ==
    /\ pc["ingest"] = "idle" /\ "ingest" \in queued
    /\ queued' = queued \ {"ingest"}
    /\ SetIng("PROCESSING")
    /\ To("ingest", IF ing = "NONE" THEN "retry" ELSE "status")
    /\ UNCHANGED <<docVars, proc, idx, left, history, ended>>

IngestStatus ==
    /\ pc["ingest"] = "status" /\ RowFree /\ SetDoc("PROCESSING")
    /\ To("ingest", "download")
    /\ UNCHANGED <<rows, uri, object, jobVars, rqVars, history, ended>>

IngestDownload ==
    /\ pc["ingest"] = "download"
    /\ To("ingest", IF object THEN "pages" ELSE "retry")
    /\ UNCHANGED <<docVars, jobVars, rqVars, history, ended>>

\* The pages refer to the document: without it the insert is refused.
IngestPages ==
    /\ pc["ingest"] = "pages" /\ RowFree
    /\ To("ingest", IF DocExists THEN "complete" ELSE "retry")
    /\ UNCHANGED <<docVars, jobVars, rqVars, history, ended>>

IngestComplete ==
    /\ pc["ingest"] = "complete" /\ RowFree
    /\ SetIng("COMPLETED") /\ SetDoc("COMPLETED")
    /\ To("ingest", IF DocExists THEN "hook" ELSE "retry")
    /\ UNCHANGED <<rows, uri, object, proc, idx, rqVars, history, ended>>

\* "Block 2 Integration Hook": get or create the processing job ...
IngestHook ==
    /\ pc["ingest"] = "hook" /\ RowFree
    /\ proc' = IF DocExists /\ proc = "NONE" THEN "PENDING" ELSE proc
    /\ To("ingest", IF DocExists THEN "forward" ELSE "retry")
    /\ UNCHANGED <<docVars, ing, idx, rqVars, history, ended>>

\* ... and queue it, unless it runs or is done.
IngestForward ==
    /\ pc["ingest"] = "forward"
    /\ \/ /\ proc \in {"PENDING", "FAILED"} /\ Enqueue("process")
          /\ Finish("ingest")
       \/ /\ proc \in {"PROCESSING", "COMPLETED"} /\ Finish("ingest")
          /\ UNCHANGED rqVars
       \/ /\ proc = "NONE" /\ To("ingest", "retry") /\ UNCHANGED rqVars
    /\ UNCHANGED <<docVars, jobVars, history, ended>>

\* The job is only marked once no retry is left.
IngestFailed ==
    /\ pc["ingest"] = "retry" /\ RowFree
    /\ IF left["ingest"] = 0 THEN FailIngestion ELSE UNCHANGED <<ing, doc>>
    /\ Raise("ingest", "ingest")
    /\ UNCHANGED <<rows, uri, object, proc, idx, history, ended>>

(***************************************************************************)
(* process_document                                                        *)
(***************************************************************************)
ProcessStart ==
    /\ pc["process"] = "idle" /\ "process" \in queued
    /\ queued' = queued \ {"process"}
    /\ SetProc(Restartable, "PROCESSING")
    /\ \/ proc \in Restartable /\ To("process", "work")
       \/ proc \notin Restartable /\ ~DocExists /\ Finish("process")
       \/ proc \notin Restartable /\ DocExists /\ To("process", "failed")
    /\ UNCHANGED <<docVars, ing, idx, left, history, ended>>

\* The stages up to PERSISTENCE, each behind _continue_processing.
ProcessWork ==
    /\ pc["process"] = "work"
    /\ \/ proc = "PROCESSING" /\ To("process", "save")
       \/ proc # "PROCESSING" /\ ~DocExists /\ Finish("process")
       \/ proc # "PROCESSING" /\ DocExists /\ To("process", "failed")
    /\ UNCHANGED <<docVars, jobVars, rqVars, history, ended>>

\* save_processing_results: chunks are replaced, and their index rows go with
\* them; the job ends in the same transaction.
ProcessSave ==
    /\ pc["process"] = "save" /\ RowFree
    /\ IF DocExists /\ proc = "PROCESSING"
       THEN /\ chunks' = TRUE /\ indexed' = FALSE
            /\ SetProc({"PROCESSING"}, "COMPLETED")
            /\ replaced' = (pc["index"] = "upsert") /\ unindexed' = (grants = {})
            /\ IF grants # {} THEN To("process", "handoff") ELSE Finish("process")
       ELSE /\ IF DocExists THEN To("process", "failed") ELSE Finish("process")
            /\ UNCHANGED <<chunks, indexed, proc, replaced, unindexed>>
    /\ UNCHANGED <<doc, uri, grants, object, ing, idx, rqVars, cut, ended>>

\* Mutant of ProcessHandoff: an open indexing job makes a new one superfluous.
HandoffReuses ==
    /\ pc["process"] = "handoff" /\ RowFree
    /\ \/ \E i \in IndexJobs :
            /\ DocExists /\ \A j \in IndexJobs : idx[j] \notin Open
            /\ idx' = [idx EXCEPT ![i] = "PENDING"]
            /\ pc' = [pc EXCEPT !["process"] = "enqueue"]
            /\ job' = [job EXCEPT !["process"] = i]
       \/ /\ ~DocExists \/ \E j \in IndexJobs : idx[j] \in Open
          /\ idx' = idx /\ Finish("process")
    /\ UNCHANGED <<docVars, ing, proc, rqVars, history, ended>>

\* enqueue_canonical_indexing: the job is committed before it is queued.
ProcessHandoff ==
    /\ pc["process"] = "handoff" /\ RowFree
    /\ \/ \E i \in IndexJobs :
            /\ DocExists /\ Free(i)
            /\ idx' = [idx EXCEPT ![i] = "PENDING"]
            /\ pc' = [pc EXCEPT !["process"] = "enqueue"]
            /\ job' = [job EXCEPT !["process"] = i]
       \/ ~DocExists /\ idx' = idx /\ Finish("process")
    /\ UNCHANGED <<docVars, ing, proc, rqVars, history, ended>>

\* QueueError is not one of the exceptions that are retried.
ProcessEnqueue ==
    /\ pc["process"] = "enqueue"
    /\ \/ Enqueue(job["process"]) /\ Finish("process") /\ UNCHANGED faults
       \/ Fault /\ To("process", "failed") /\ UNCHANGED rqVars
    /\ UNCHANGED <<docVars, jobVars, history, upload>>

\* A job that has failed for good is marked, completed or not.
ProcessFailed ==
    \/ /\ pc["process"] = "retry" /\ left["process"] > 0
       /\ Raise("process", "process")
       /\ UNCHANGED <<docVars, jobVars, history, ended>>
    \/ /\ \/ pc["process"] = "failed"
          \/ pc["process"] = "retry" /\ left["process"] = 0
       /\ SetProc(Existing, "FAILED")
       /\ GiveUp("process", "process")
       /\ UNCHANGED <<docVars, ing, idx, history, ended>>

(***************************************************************************)
(* process_indexing                                                        *)
(***************************************************************************)
IndexStart(i) ==
    /\ pc["index"] = "idle" /\ i \in queued
    /\ queued' = queued \ {i}
    /\ SetIdx(i, Restartable, "PROCESSING")
    /\ IF idx[i] = "COMPLETED" THEN Finish("index")
       ELSE /\ pc' = [pc EXCEPT !["index"] = IF idx[i] = "NONE" THEN "failed" ELSE "load"]
            /\ job' = [job EXCEPT !["index"] = i]
    /\ UNCHANGED <<docVars, ing, proc, left, history, ended>>

IndexLoad ==
    /\ pc["index"] = "load"
    /\ To("index", IF chunks THEN "upsert" ELSE "failed")
    /\ UNCHANGED <<docVars, jobVars, rqVars, history, ended>>

\* The embeddings refer to the chunks that were loaded.
IndexUpsert ==
    /\ pc["index"] = "upsert" /\ RowFree /\ replaced' = FALSE
    /\ indexed' = (indexed \/ (chunks /\ ~replaced))
    /\ To("index", IF chunks /\ ~replaced THEN "validate" ELSE "failed")
    /\ UNCHANGED <<doc, uri, grants, chunks, object, jobVars, rqVars, unindexed, cut, ended>>

IndexValidate ==
    /\ pc["index"] = "validate"
    /\ To("index", IF indexed THEN "mark" ELSE "failed")
    /\ UNCHANGED <<docVars, jobVars, rqVars, history, ended>>

IndexMark ==
    /\ pc["index"] = "mark" /\ SetIdx(job["index"], Existing, "COMPLETED") /\ Finish("index")
    /\ UNCHANGED <<docVars, ing, proc, rqVars, history, ended>>

IndexFailed ==
    \/ /\ pc["index"] = "retry" /\ left[job["index"]] > 0
       /\ Raise("index", job["index"])
       /\ UNCHANGED <<docVars, jobVars, history, ended>>
    \/ /\ \/ pc["index"] = "failed"
          \/ pc["index"] = "retry" /\ left[job["index"]] = 0
       /\ SetIdx(job["index"], Existing, "FAILED") /\ GiveUp("index", job["index"])
       /\ UNCHANGED <<docVars, ing, proc, history, ended>>

(***************************************************************************)
(* process_document_gc                                                     *)
(***************************************************************************)
\* Lock the document, look for references, remove the object.
GcCheck ==
    /\ pc["gc"] = "idle" /\ "gc" \in queued
    /\ queued' = queued \ {"gc"}
    /\ LET orphan == DocExists /\ grants = {} IN
       /\ object' = (object /\ ~orphan)
       /\ To("gc", IF orphan THEN "rows" ELSE "finishing")
    /\ UNCHANGED <<doc, uri, rows, jobVars, left, history, ended>>

\* The rows, in one transaction that ends with the lock.
GcRows ==
    /\ pc["gc"] = "rows"
    /\ doc' = "COLLECTED" /\ uri' = FALSE /\ grants' = {}
    /\ chunks' = FALSE /\ indexed' = FALSE
    /\ ing' = "NONE" /\ proc' = "NONE" /\ idx' = [i \in IndexJobs |-> "NONE"]
    /\ To("gc", "finishing")
    /\ UNCHANGED <<object, rqVars, history, ended>>

\* Until RQ has put the finished task away it is live for enqueue_document_gc.
GcFinish ==
    /\ pc["gc"] = "finishing" /\ Finish("gc")
    /\ UNCHANGED <<docVars, jobVars, rqVars, history, ended>>

GcFailed ==
    /\ pc["gc"] = "retry" /\ Raise("gc", "gc")
    /\ UNCHANGED <<docVars, jobVars, history, ended>>

(***************************************************************************)
(* reconcile_durable_jobs                                                  *)
(***************************************************************************)
Status(t) == CASE t = "ingest" -> ing [] t = "process" -> proc [] OTHER -> idx[t]

\* Mutant of Requeue: a job RQ has ever known is left to RQ.
RequeueUnknown(t) ==
    /\ Status(t) = "PENDING" /\ ~Live(t) /\ left[t] = 0 /\ Enqueue(t)
    /\ UNCHANGED <<docVars, jobVars, upload, workers, faults>>

\* A PENDING job that RQ does not hold, or no longer, is queued again.
Requeue(t) ==
    /\ Status(t) = "PENDING" /\ ~Live(t) /\ Enqueue(t)
    /\ UNCHANGED <<docVars, jobVars, upload, workers, faults>>

\* A PROCESSING job older than RECOVERY_JOB_STALE_SECONDS is failed and its
\* task discarded, even if a worker is at it: one that slow counts as a fault.
FailStale(t) ==
    /\ RowFree /\ Status(t) = "PROCESSING"
    /\ IF Live(t) THEN Fault ELSE UNCHANGED faults
    /\ queued' = queued \ {t}
    /\ IF t = "ingest" THEN FailIngestion ELSE UNCHANGED <<ing, doc>>
    /\ proc' = IF t = "process" THEN "FAILED" ELSE proc
    /\ idx' = IF t \in IndexJobs THEN [idx EXCEPT ![t] = "FAILED"] ELSE idx
    /\ UNCHANGED <<rows, uri, object, left, upload, workers>>

(***************************************************************************)
(* Specification                                                           *)
(***************************************************************************)
IngestStep ==
    \/ IngestStart \/ IngestStatus \/ IngestDownload \/ IngestPages
    \/ IngestComplete \/ IngestHook \/ IngestForward \/ IngestFailed
ProcessStep ==
    \/ ProcessStart \/ ProcessWork \/ ProcessSave \/ ProcessHandoff
    \/ ProcessEnqueue \/ ProcessFailed
IndexStep ==
    \/ \E i \in IndexJobs : IndexStart(i)
    \/ IndexLoad \/ IndexUpsert \/ IndexValidate \/ IndexMark \/ IndexFailed
GcStep == GcCheck \/ GcRows \/ GcFinish \/ GcFailed

Next ==
    \/ \E u \in Users :
        \/ Lookup(u) \/ UploadStep(u) \/ UploadFault(u) \/ RemoveAccess(u)
        \/ \E i \in IndexJobs : RequestIndex(u, i)
    \/ ApiStartup \/ ApiCrash
    \/ IngestStep \/ ProcessStep \/ IndexStep \/ GcStep
    \/ \E w \in Workers : WorkerFault(w) \/ WorkerCrash(w)
    \/ \E t \in Tasks \ {"gc"} : Requeue(t) \/ FailStale(t)

Spec == Init /\ [][Next]_vars

\* Workers and requests run; API processes are started and the operator
\* reconciles again and again.  Nothing else has to happen.
Fairness ==
    /\ \A u \in Users : WF_vars(UploadStep(u))
    /\ WF_vars(IngestStep) /\ WF_vars(ProcessStep)
    /\ WF_vars(IndexStep) /\ WF_vars(GcStep)
    /\ WF_vars(ApiStartup)
    /\ \A t \in Tasks \ {"gc"} : WF_vars(Requeue(t)) /\ WF_vars(~Live(t) /\ FailStale(t))
FairSpec == Spec /\ Fairness

(***************************************************************************)
(* Properties                                                              *)
(***************************************************************************)
JobStates == {"NONE", "PENDING", "PROCESSING", "COMPLETED", "FAILED"}

\* The domains of all variables.
TypeOK ==
    /\ doc \in {"ABSENT", "UPLOADING", "COLLECTED"} \cup (JobStates \ {"NONE"})
    /\ grants \subseteq Users /\ queued \subseteq Tasks
    /\ ing \in JobStates \cup {"UPLOADING"} /\ proc \in JobStates
    /\ idx \in [IndexJobs -> JobStates]
    /\ {uri, chunks, indexed, object, replaced, unindexed, cut} \subseteq BOOLEAN
    /\ left \in [Tasks -> 0..MaxRetries]
    /\ job \in [Workers -> IndexJobs \cup {NoJob}]
    /\ faults \in 0..MaxFaults

\* A document somebody may read whose chunks are not indexed has a job that
\* says so, open or FAILED, unless processing ended while nobody had access
\* or its worker died after its commit: whichever way tasks are retried,
\* repeated, discarded or run at the same time.
NoSilentGap ==
    grants # {} /\ chunks /\ ~indexed /\ ~unindexed =>
        \/ proc # "COMPLETED"
        \/ Live("process")
        \/ \E i \in IndexJobs : idx[i] \in Open \cup {"FAILED"}

\* What a row with an address refers to is in the object store, unless a
\* collection was cut short between its two halves: uploads that race with
\* each other and with collections never leave a readable document empty.
AddressIsValid == DocExists /\ uri => object \/ cut \/ pc["gc"] = "rows"

\* What a reader of a document relies on: its file is there, and its chunks
\* are indexed or a job says why not.
ReadersAreServed == NoSilentGap /\ AddressIsValid

\* Every job that was handed to a queue is settled in the end: completed,
\* failed or collected, with any task lost or repeated.
JobsSettle ==
    /\ ing \in Open ~> ing \notin Open
    /\ proc \in Open ~> proc \notin Open
    /\ \A i \in IndexJobs : idx[i] \in Open ~> idx[i] \notin Open

\* A document nobody has is collected, or somebody has it again, although the
\* request to collect it may be lost, or be taken for one that has just looked.
OrphanIsCollected == DocExists /\ grants = {} ~> ~DocExists \/ grants # {}

\* "Atomic transition to prevent race condition: only update if it is
\* UPLOADING" (job_repo.py:27).  The code violates it.
OnlyUploadingBecomesPending ==
    [][ing' = "PENDING" /\ ing # ing' => ing = "UPLOADING"]_vars
=============================================================================
