------------------------- MODULE PlatformWorkersProofs -------------------------
(***************************************************************************)
(* Proofs about the platform's upload, workers and collection, for any     *)
(* number of users, indexing jobs, retries and faults: a document that can *)
(* be read has its file, and its chunks are indexed or a job says why not; *)
(* a collection takes away nothing that anybody may read.                  *)
(*                                                                         *)
(* The argument.  The file: an upload that is about to write the address   *)
(* has stored the object, and only a collection removes it, which either   *)
(* still holds the row or has erased it or was cut short (UploadStored);   *)
(* while it holds the row nobody can be granted access (OrphanLocked).     *)
(* The index: what save_processing_results leaves without an index is in   *)
(* the hands of the processing worker, until it has committed an indexing  *)
(* job that stands for it.  An indexing worker that has validated rows     *)
(* which are gone by now will mark its own job COMPLETED: so the job that  *)
(* stands for the gap is another one (Witnesses), as a new job is never    *)
(* the one a worker is at (Free).                                          *)
(***************************************************************************)
EXTENDS PlatformWorkers, TLAPS

-----------------------------------------------------------------------------
(* The inductive invariant.                                                *)

Steps == {"idle", "status", "download", "pages", "complete", "hook", "forward", "work",
          "save", "handoff", "enqueue", "load", "upsert", "validate", "mark", "rows",
          "finishing", "failed", "retry"}

\* Where requests and workers can be.
Places ==
    /\ upload \in [Users -> {"idle", "create", "grant_known", "grant_new", "store",
                             "uri", "job", "enqueue", "look", "pending", "failed"}]
    /\ pc \in [Workers -> Steps]
    /\ pc["ingest"] \in {"idle", "status", "download", "pages", "complete", "hook",
                         "forward", "retry"}
    /\ pc["process"] \in {"idle", "work", "save", "handoff", "enqueue", "failed", "retry"}
    /\ pc["index"] \in {"idle", "load", "upsert", "validate", "mark", "failed", "retry"}
    /\ pc["gc"] \in {"idle", "rows", "finishing", "retry"}

\* A worker that writes to an indexing job has one.
JobsAtHand ==
    /\ pc["index"] # "idle" => job["index"] \in IndexJobs
    /\ pc["process"] = "enqueue" => job["process"] \in IndexJobs

Typing == TypeOK /\ Places /\ JobsAtHand

\* Chunks and addresses are those of a document that was created.
RowsOfADocument ==
    /\ chunks => DocExists
    /\ uri => doc # "ABSENT"
    /\ \A u \in Users : upload[u] \notin {"idle", "create"} => doc # "ABSENT"

\* put_object comes before set_storage_uri.
HasObject == DocExists => object \/ cut \/ pc["gc"] = "rows"
UploadStored == \A u \in Users : upload[u] = "uri" => HasObject

\* What the collection has found under the lock stays so while it holds it.
OrphanLocked == pc["gc"] = "rows" => DocExists /\ grants = {}

StoreInv == RowsOfADocument /\ UploadStored /\ AddressIsValid /\ OrphanLocked

\* Chunks that were saved, and have no index.
Gap == chunks /\ ~indexed /\ ~unindexed /\ proc = "COMPLETED"

\* The processing task will hand them over, or its job will be FAILED.
Handing == "process" \in queued \/ pc["process"] \notin {"idle", "enqueue"}

\* Jobs that no worker is about to mark as COMPLETED.
Witnesses == {i \in IndexJobs : pc["index"] \in {"validate", "mark"} => i # job["index"]}

GapIsCovered ==
    Gap => Handing \/ \E i \in Witnesses : idx[i] \in Open \cup {"FAILED"}

IInv == Typing /\ StoreInv /\ GapIsCovered

-----------------------------------------------------------------------------
(* Types.                                                                  *)

QueueOK == queued \subseteq Tasks /\ left \in [Tasks -> 0..MaxRetries]

LEMMA TaskIs ==
    /\ "ingest" \in Tasks /\ "process" \in Tasks /\ "gc" \in Tasks
    /\ \A i \in IndexJobs : i \in Tasks /\ i \notin {"ingest", "process", "gc"}
  BY PlatformAssumption DEF Tasks

\* What RQ does with a task leaves its registries well-formed.
LEMMA QueueTypes ==
    ASSUME Typing, NEW t \in Tasks, NEW w \in Workers
    PROVE  /\ UNCHANGED rqVars => QueueOK'
           /\ queued' = queued \ {t} /\ left' = left => QueueOK'
           /\ Enqueue(t) \/ EnqueueGc \/ Raise(w, t) \/ GiveUp(w, t) => QueueOK'
  BY PlatformAssumption, TaskIs
     DEF Typing, TypeOK, Enqueue, EnqueueGc, Raise, GiveUp, rqVars, QueueOK

USE DEF docVars, jobVars, rqVars, history, vars, workers, rows, ended, Workers

\* What a user asks for.
Request(u) ==
    \/ Lookup(u) \/ UploadStep(u) \/ UploadFault(u) \/ RemoveAccess(u)
    \/ \E i \in IndexJobs : RequestIndex(u, i)

LEMMA RequestTypes ==
    ASSUME Typing, NEW u \in Users, Request(u)
    PROVE  Typing'
<1> USE PlatformAssumption DEF Typing, TypeOK, Places, JobsAtHand, Steps, JobStates
<1>1. CASE Lookup(u)
  <2>1. QueueOK'
    BY <1>1, QueueTypes, TaskIs DEF Lookup
  <2> QED
    BY <1>1, <2>1 DEF Lookup, QueueOK, At, DocExists
<1>2. CASE CreateDocument(u)
  <2>1. QueueOK'
    BY <1>2, QueueTypes, TaskIs DEF CreateDocument
  <2> QED
    BY <1>2, <2>1 DEF CreateDocument, QueueOK, At, DocExists
<1>3. CASE Grant(u)
  <2>1. QueueOK'
    BY <1>3, QueueTypes, TaskIs DEF Grant
  <2> QED
    BY <1>3, <2>1 DEF Grant, QueueOK, At, DocExists
<1>4. CASE PutObject(u)
  <2>1. QueueOK'
    BY <1>4, QueueTypes, TaskIs DEF PutObject
  <2> QED
    BY <1>4, <2>1 DEF PutObject, QueueOK, At
<1>5. CASE SetUri(u)
  <2>1. QueueOK'
    BY <1>5, QueueTypes, TaskIs DEF SetUri
  <2> QED
    BY <1>5, <2>1 DEF SetUri, QueueOK, At, DocExists
<1>6. CASE CreateIngestionJob(u)
  <2>1. QueueOK'
    BY <1>6, QueueTypes, TaskIs DEF CreateIngestionJob
  <2> QED
    BY <1>6, <2>1 DEF CreateIngestionJob, QueueOK, At, DocExists
<1>7. CASE EnqueueIngestion(u)
  <2>1. QueueOK'
    BY <1>7, QueueTypes, TaskIs DEF EnqueueIngestion
  <2> QED
    BY <1>7, <2>1 DEF EnqueueIngestion, QueueOK, At, Enqueue, Fault, FailIngestion,
                      SetIng, SetDoc, DocExists
<1>8. CASE LookUploading(u)
  <2>1. QueueOK'
    BY <1>8, QueueTypes, TaskIs DEF LookUploading
  <2> QED
    BY <1>8, <2>1 DEF LookUploading, QueueOK, At
<1>9. CASE SetPending(u)
  <2>1. QueueOK'
    BY <1>9, QueueTypes, TaskIs DEF SetPending
  <2> QED
    BY <1>9, <2>1 DEF SetPending, QueueOK, At, SetIng, SetDoc, DocExists
<1>10. CASE UploadFailed(u)
  <2>1. QueueOK'
    BY <1>10, QueueTypes, TaskIs DEF UploadFailed
  <2> QED
    BY <1>10, <2>1 DEF UploadFailed, QueueOK, At, SetDoc, DocExists
<1>11. CASE UploadFault(u)
  <2>1. QueueOK'
    BY <1>11, QueueTypes, TaskIs DEF UploadFault
  <2> QED
    BY <1>11, <2>1 DEF UploadFault, QueueOK, Fault
<1>12. CASE RemoveAccess(u)
  <2>1. QueueOK'
    BY <1>12, QueueTypes, TaskIs DEF RemoveAccess, NoticeOrphan
  <2> QED
    BY <1>12, <2>1 DEF RemoveAccess, QueueOK, NoticeOrphan, Fault
<1>13. ASSUME NEW i \in IndexJobs, RequestIndex(u, i)
       PROVE  Typing'
  <2>1. QueueOK'
    BY <1>13, QueueTypes, TaskIs DEF RequestIndex
  <2> QED
    BY <1>13, <2>1 DEF RequestIndex, QueueOK, Fault
<1> QED
  BY <1>1, <1>2, <1>3, <1>4, <1>5, <1>6, <1>7, <1>8, <1>9, <1>10, <1>11, <1>12,
             <1>13 DEF Request, UploadStep

LEMMA IngestTypes ==
    ASSUME Typing, IngestStep
    PROVE  Typing'
<1> USE PlatformAssumption DEF Typing, TypeOK, Places, JobsAtHand, Steps, JobStates
<1>1. CASE IngestStart
  <2>1. QueueOK'
    BY <1>1, QueueTypes, TaskIs DEF IngestStart
  <2> QED
    BY <1>1, <2>1 DEF IngestStart, QueueOK, To, SetIng
<1>2. CASE IngestStatus
  <2>1. QueueOK'
    BY <1>2, QueueTypes, TaskIs DEF IngestStatus
  <2> QED
    BY <1>2, <2>1 DEF IngestStatus, QueueOK, To, SetDoc, DocExists
<1>3. CASE IngestDownload
  <2>1. QueueOK'
    BY <1>3, QueueTypes, TaskIs DEF IngestDownload
  <2> QED
    BY <1>3, <2>1 DEF IngestDownload, QueueOK, To
<1>4. CASE IngestPages
  <2>1. QueueOK'
    BY <1>4, QueueTypes, TaskIs DEF IngestPages
  <2> QED
    BY <1>4, <2>1 DEF IngestPages, QueueOK, To
<1>5. CASE IngestComplete
  <2>1. QueueOK'
    BY <1>5, QueueTypes, TaskIs DEF IngestComplete
  <2> QED
    BY <1>5, <2>1 DEF IngestComplete, QueueOK, To, SetIng, SetDoc, DocExists
<1>6. CASE IngestHook
  <2>1. QueueOK'
    BY <1>6, QueueTypes, TaskIs DEF IngestHook
  <2> QED
    BY <1>6, <2>1 DEF IngestHook, QueueOK, To
<1>7. CASE IngestForward
  <2>1. QueueOK'
    BY <1>7, QueueTypes, TaskIs DEF IngestForward
  <2> QED
    BY <1>7, <2>1 DEF IngestForward, QueueOK, To, Finish
<1>8. CASE IngestFailed
  <2>1. QueueOK'
    BY <1>8, QueueTypes, TaskIs DEF IngestFailed
  <2> QED
    BY <1>8, <2>1 DEF IngestFailed, QueueOK, Raise, Finish, FailIngestion, SetIng,
                      SetDoc, DocExists
<1> QED
  BY <1>1, <1>2, <1>3, <1>4, <1>5, <1>6, <1>7, <1>8 DEF IngestStep

LEMMA ProcessTypes ==
    ASSUME Typing, ProcessStep
    PROVE  Typing'
<1> USE PlatformAssumption DEF Typing, TypeOK, Places, JobsAtHand, Steps, JobStates
<1>1. CASE ProcessStart
  <2>1. QueueOK'
    BY <1>1, QueueTypes, TaskIs DEF ProcessStart
  <2> QED
    BY <1>1, <2>1 DEF ProcessStart, QueueOK, To, Finish, SetProc, Restartable
<1>2. CASE ProcessWork
  <2>1. QueueOK'
    BY <1>2, QueueTypes, TaskIs DEF ProcessWork
  <2> QED
    BY <1>2, <2>1 DEF ProcessWork, QueueOK, To, Finish
<1>3. CASE ProcessSave
  <2>1. QueueOK'
    BY <1>3, QueueTypes, TaskIs DEF ProcessSave
  <2>2. {chunks, indexed, replaced, unindexed}' \subseteq BOOLEAN
    BY <1>3 DEF ProcessSave
  <2>3. proc' \in JobStates
    BY <1>3 DEF ProcessSave, SetProc
  <2>4. Places' /\ JobsAtHand' /\ job' \in [Workers -> IndexJobs \cup {NoJob}]
    BY <1>3 DEF ProcessSave, To, Finish
  <2> QED
    BY <1>3, <2>1, <2>2, <2>3, <2>4 DEF ProcessSave, QueueOK
<1>4. CASE ProcessHandoff
  <2>1. QueueOK'
    BY <1>4, QueueTypes, TaskIs DEF ProcessHandoff
  <2> QED
    BY <1>4, <2>1 DEF ProcessHandoff, QueueOK, Finish
<1>5. CASE ProcessEnqueue
  <2>1. QueueOK'
    BY <1>5, QueueTypes, TaskIs DEF ProcessEnqueue
  <2> QED
    BY <1>5, <2>1 DEF ProcessEnqueue, QueueOK, To, Finish, Fault
<1>6. CASE ProcessFailed
  <2>1. QueueOK'
    BY <1>6, QueueTypes, TaskIs DEF ProcessFailed
  <2> QED
    BY <1>6, <2>1 DEF ProcessFailed, QueueOK, Raise, GiveUp, Finish, SetProc
<1> QED
  BY <1>1, <1>2, <1>3, <1>4, <1>5, <1>6 DEF ProcessStep

LEMMA IndexTypes ==
    ASSUME Typing, IndexStep
    PROVE  Typing'
<1> USE PlatformAssumption DEF Typing, TypeOK, Places, JobsAtHand, Steps, JobStates
<1>1. ASSUME NEW i \in IndexJobs, IndexStart(i)
      PROVE  Typing'
  <2>1. QueueOK'
    BY <1>1, QueueTypes, TaskIs DEF IndexStart
  <2> QED
    BY <1>1, <2>1 DEF IndexStart, QueueOK, Finish, SetIdx
<1>2. CASE IndexLoad
  <2>1. QueueOK'
    BY <1>2, QueueTypes, TaskIs DEF IndexLoad
  <2> QED
    BY <1>2, <2>1 DEF IndexLoad, QueueOK, To
<1>3. CASE IndexUpsert
  <2>1. QueueOK'
    BY <1>3, QueueTypes, TaskIs DEF IndexUpsert
  <2> QED
    BY <1>3, <2>1 DEF IndexUpsert, QueueOK, To
<1>4. CASE IndexValidate
  <2>1. QueueOK'
    BY <1>4, QueueTypes, TaskIs DEF IndexValidate
  <2> QED
    BY <1>4, <2>1 DEF IndexValidate, QueueOK, To
<1>5. CASE IndexMark
  <2>1. QueueOK'
    BY <1>5, QueueTypes, TaskIs DEF IndexMark
  <2> QED
    BY <1>5, <2>1 DEF IndexMark, QueueOK, Finish, SetIdx
<1>6. CASE IndexFailed
  <2>1. QueueOK'
    BY <1>6, QueueTypes, TaskIs DEF IndexFailed
  <2> QED
    BY <1>6, <2>1 DEF IndexFailed, QueueOK, Raise, GiveUp, Finish, SetIdx
<1> QED
  BY <1>1, <1>2, <1>3, <1>4, <1>5, <1>6 DEF IndexStep

LEMMA GcTypes ==
    ASSUME Typing, GcStep
    PROVE  Typing'
<1> USE PlatformAssumption DEF Typing, TypeOK, Places, JobsAtHand, Steps, JobStates
<1>1. CASE GcCheck
  <2>1. QueueOK'
    BY <1>1, QueueTypes, TaskIs DEF GcCheck
  <2> QED
    BY <1>1, <2>1 DEF GcCheck, QueueOK, To, DocExists
<1>2. CASE GcRows
  <2>1. QueueOK'
    BY <1>2, QueueTypes, TaskIs DEF GcRows
  <2> QED
    BY <1>2, <2>1 DEF GcRows, QueueOK, To
<1>3. CASE GcFinish
  <2>1. QueueOK'
    BY <1>3, QueueTypes, TaskIs DEF GcFinish
  <2> QED
    BY <1>3, <2>1 DEF GcFinish, QueueOK, Finish
<1>4. CASE GcFailed
  <2>1. QueueOK'
    BY <1>4, QueueTypes, TaskIs DEF GcFailed
  <2> QED
    BY <1>4, <2>1 DEF GcFailed, QueueOK, Raise, Finish
<1> QED
  BY <1>1, <1>2, <1>3, <1>4 DEF GcStep

LEMMA FaultTypes ==
    ASSUME Typing, NEW w \in Workers, WorkerFault(w) \/ WorkerCrash(w)
    PROVE  Typing'
<1> USE PlatformAssumption DEF Typing, TypeOK, Places, JobsAtHand, Steps, JobStates
<1>1. CASE WorkerFault(w)
  <2>1. QueueOK'
    BY <1>1, QueueTypes, TaskIs DEF WorkerFault
  <2> QED
    BY <1>1, <2>1 DEF WorkerFault, QueueOK, To, Fault
<1>2. CASE WorkerCrash(w)
  <2>1. QueueOK'
    BY <1>2, QueueTypes, TaskIs DEF WorkerCrash, TaskOf
  <2> QED
    BY <1>2, <2>1 DEF WorkerCrash, QueueOK, Raise, Finish, Fault
<1> QED
  BY <1>1, <1>2

LEMMA RecoveryTypes ==
    ASSUME Typing, NEW t \in Tasks \ {"gc"}, Requeue(t) \/ FailStale(t)
    PROVE  Typing'
<1> USE PlatformAssumption DEF Typing, TypeOK, Places, JobsAtHand, Steps, JobStates
<1>1. CASE Requeue(t)
  <2>1. QueueOK'
    BY <1>1, QueueTypes, TaskIs DEF Requeue
  <2> QED
    BY <1>1, <2>1 DEF Requeue, QueueOK
<1>2. CASE FailStale(t)
  <2>1. QueueOK'
    BY <1>2, QueueTypes, TaskIs DEF FailStale
  <2> QED
    BY <1>2, <2>1 DEF FailStale, QueueOK, Fault, FailIngestion, SetIng, SetDoc, DocExists
<1> QED
  BY <1>1, <1>2

LEMMA ApiTypes ==
    ASSUME Typing, ApiStartup \/ ApiCrash
    PROVE  Typing'
<1> USE PlatformAssumption DEF Typing, TypeOK, Places, JobsAtHand, Steps, JobStates
<1>1. CASE ApiStartup
  <2>1. QueueOK'
    BY <1>1, QueueTypes, TaskIs DEF ApiStartup
  <2> QED
    BY <1>1, <2>1 DEF ApiStartup, QueueOK
<1>2. CASE ApiCrash
  <2>1. QueueOK'
    BY <1>2, QueueTypes, TaskIs DEF ApiCrash
  <2> QED
    BY <1>2, <2>1 DEF ApiCrash, QueueOK, Fault
<1> QED
  BY <1>1, <1>2

-----------------------------------------------------------------------------
(* The file of a document.                                                 *)

LEMMA RequestKeepsStore ==
    ASSUME Typing, StoreInv, NEW u \in Users, Request(u)
    PROVE  StoreInv'
<1> USE DEF Typing, TypeOK, Places, StoreInv, RowsOfADocument, UploadStored,
            HasObject, AddressIsValid, OrphanLocked, DocExists, At, RowFree, SetDoc
<1>1. CASE Lookup(u)
  BY <1>1 DEF Lookup
<1>2. CASE CreateDocument(u)
  BY <1>2 DEF CreateDocument
<1>3. CASE Grant(u)
  BY <1>3 DEF Grant
<1>4. CASE PutObject(u)
  BY <1>4 DEF PutObject
<1>5. CASE SetUri(u)
  BY <1>5 DEF SetUri
<1>6. CASE CreateIngestionJob(u)
  BY <1>6 DEF CreateIngestionJob
<1>7. CASE EnqueueIngestion(u)
  BY <1>7 DEF EnqueueIngestion, FailIngestion
<1>8. CASE LookUploading(u)
  BY <1>8 DEF LookUploading
<1>9. CASE SetPending(u)
  BY <1>9 DEF SetPending
<1>10. CASE UploadFailed(u)
  BY <1>10 DEF UploadFailed
<1>11. CASE UploadFault(u)
  BY <1>11 DEF UploadFault
<1>12. CASE RemoveAccess(u)
  BY <1>12 DEF RemoveAccess
<1>13. ASSUME NEW i \in IndexJobs, RequestIndex(u, i)
       PROVE  StoreInv'
  BY <1>13 DEF RequestIndex
<1> QED
  BY <1>1, <1>2, <1>3, <1>4, <1>5, <1>6, <1>7, <1>8, <1>9, <1>10, <1>11, <1>12,
     <1>13 DEF Request, UploadStep

\* A step that creates no document, ends none, and stores or removes nothing;
\* a collection it ends has been cut short.
LEMMA StoreStands ==
    ASSUME StoreInv, UNCHANGED <<uri, grants, object, upload>>,
           chunks' => chunks \/ DocExists, cut => cut',
           \/ doc' = doc
           \/ {doc, doc'} \cap {"ABSENT", "COLLECTED"} = {},
           \/ pc'["gc"] = pc["gc"]
           \/ pc'["gc"] # "rows" /\ (cut' \/ pc["gc"] # "rows")
    PROVE  StoreInv'
  BY DEF StoreInv, RowsOfADocument, UploadStored, HasObject, AddressIsValid,
         OrphanLocked, DocExists

LEMMA WorkerKeepsStore ==
    ASSUME Typing, StoreInv,
           \/ IngestStep \/ ProcessStep \/ IndexStep \/ ApiStartup
           \/ \E w \in Workers : WorkerFault(w) \/ WorkerCrash(w)
           \/ \E t \in Tasks \ {"gc"} : Requeue(t) \/ FailStale(t)
    PROVE  StoreInv'
<1> USE StoreStands DEF Typing, Places, To, Finish, SetDoc, DocExists
<1>1. CASE IngestStep
  BY <1>1 DEF IngestStep, IngestStart, IngestStatus, IngestDownload, IngestPages,
              IngestComplete, IngestHook, IngestForward, IngestFailed,
              FailIngestion, Raise
<1>2. CASE ProcessStep
  BY <1>2 DEF ProcessStep, ProcessStart, ProcessWork, ProcessSave, ProcessHandoff,
              ProcessEnqueue, ProcessFailed, Raise, GiveUp
<1>3. CASE IndexStep
  BY <1>3 DEF IndexStep, IndexStart, IndexLoad, IndexUpsert, IndexValidate,
              IndexMark, IndexFailed, Raise, GiveUp
<1>4. CASE ApiStartup
  BY <1>4 DEF ApiStartup
<1>5. ASSUME NEW w \in Workers, WorkerFault(w)
      PROVE  StoreInv'
  BY <1>5 DEF WorkerFault
<1>6. ASSUME NEW w \in Workers, WorkerCrash(w)
      PROVE  StoreInv'
  BY <1>6 DEF WorkerCrash, Raise
<1>7. ASSUME NEW t \in Tasks \ {"gc"}, Requeue(t) \/ FailStale(t)
      PROVE  StoreInv'
  BY <1>7 DEF Requeue, FailStale, FailIngestion
<1> QED
  BY <1>1, <1>2, <1>3, <1>4, <1>5, <1>6, <1>7

LEMMA GcKeepsStore ==
    ASSUME Typing, StoreInv, GcStep \/ ApiCrash
    PROVE  StoreInv'
<1> USE DEF Typing, TypeOK, Places, StoreInv, RowsOfADocument, UploadStored,
            HasObject, AddressIsValid, OrphanLocked, DocExists, To, Finish
<1>1. CASE GcCheck
  BY <1>1 DEF GcCheck
<1>2. CASE GcRows
  BY <1>2 DEF GcRows
<1>3. CASE GcFinish
  BY <1>3 DEF GcFinish
<1>4. CASE GcFailed
  BY <1>4 DEF GcFailed, Raise
<1>5. CASE ApiCrash
  BY <1>5 DEF ApiCrash
<1> QED
  BY <1>1, <1>2, <1>3, <1>4, <1>5 DEF GcStep

-----------------------------------------------------------------------------
(* Chunks without an index.                                                *)

\* A step that is no business of the gap.
LEMMA GapStands ==
    ASSUME GapIsCovered, UNCHANGED <<chunks, indexed, unindexed, proc>>,
           "process" \in queued => "process" \in queued',
           pc'["process"] = pc["process"],
           \A i \in IndexJobs :
               idx[i] \in Open \cup {"FAILED"} => idx'[i] \in Open \cup {"FAILED"},
           pc'["index"] \in {"validate", "mark"} =>
               pc'["index"] = pc["index"] /\ job'["index"] = job["index"]
    PROVE  GapIsCovered'
  BY DEF GapIsCovered, Gap, Handing, Witnesses

LEMMA RequestKeepsCover ==
    ASSUME Typing, GapIsCovered, NEW u \in Users, Request(u)
    PROVE  GapIsCovered'
<1>1. CASE Lookup(u) \/ UploadFault(u)
  BY <1>1, GapStands DEF Lookup, UploadFault
<1>2. CASE UploadStep(u)
  BY <1>2, GapStands
     DEF UploadStep, CreateDocument, Grant, PutObject, SetUri, CreateIngestionJob,
         EnqueueIngestion, Enqueue, FailIngestion, LookUploading, SetPending,
         UploadFailed
<1>3. CASE RemoveAccess(u)
  BY <1>3, GapStands DEF RemoveAccess, NoticeOrphan, EnqueueGc, Enqueue
<1>4. ASSUME NEW i \in IndexJobs, RequestIndex(u, i)
      PROVE  GapIsCovered'
  BY <1>4, GapStands DEF RequestIndex, Enqueue, Open, Typing, TypeOK
<1> QED
  BY <1>1, <1>2, <1>3, <1>4 DEF Request

LEMMA IngestKeepsCover ==
    ASSUME Typing, GapIsCovered, IngestStep
    PROVE  GapIsCovered'
<1> USE GapStands DEF Typing, TypeOK, Places, To, Finish
<1>1. CASE IngestStart
  BY <1>1 DEF IngestStart
<1>2. CASE IngestStatus \/ IngestDownload \/ IngestPages \/ IngestComplete
  BY <1>2 DEF IngestStatus, IngestDownload, IngestPages, IngestComplete
<1>3. CASE IngestHook
  BY <1>3 DEF IngestHook, GapIsCovered, Gap, Handing, Witnesses
<1>4. CASE IngestForward
  BY <1>4 DEF IngestForward, Enqueue
<1>5. CASE IngestFailed
  BY <1>5 DEF IngestFailed, Raise
<1> QED
  BY <1>1, <1>2, <1>3, <1>4, <1>5 DEF IngestStep

\* The worker leaves the gap to a job that is not at hand, to a FAILED job of
\* its own, or to the next delivery of its task.
LEMMA ProcessKeepsCover ==
    ASSUME Typing, RowsOfADocument, GapIsCovered, ProcessStep
    PROVE  GapIsCovered'
<1> USE DEF Typing, TypeOK, Places, To, Finish, GapIsCovered, Gap, Handing,
            Witnesses, RowsOfADocument, SetProc, Restartable
<1>1. CASE ProcessStart
  BY <1>1 DEF ProcessStart
<1>2. CASE ProcessWork
  BY <1>2 DEF ProcessWork
<1>3. CASE ProcessSave
  BY <1>3 DEF ProcessSave
<1>4. CASE ProcessHandoff
  BY <1>4 DEF ProcessHandoff, Free, Live, Running, Open
<1>5. CASE ProcessEnqueue
  BY <1>5 DEF ProcessEnqueue, Enqueue
<1>6. CASE ProcessFailed
  BY <1>6 DEF ProcessFailed, Raise, GiveUp, Existing
<1> QED
  BY <1>1, <1>2, <1>3, <1>4, <1>5, <1>6 DEF ProcessStep

LEMMA IndexKeepsCover ==
    ASSUME Typing, GapIsCovered, IndexStep
    PROVE  GapIsCovered'
<1> USE TaskIs DEF Typing, TypeOK, Places, JobsAtHand, To, Finish, SetIdx,
                   Restartable, Existing, Open
<1>1. ASSUME NEW i \in IndexJobs, IndexStart(i)
      PROVE  GapIsCovered'
  BY <1>1, GapStands DEF IndexStart
<1>2. CASE IndexLoad
  BY <1>2, GapStands DEF IndexLoad
<1>3. CASE IndexUpsert
  BY <1>3 DEF IndexUpsert, GapIsCovered, Gap, Handing, Witnesses
<1>4. CASE IndexValidate
  BY <1>4 DEF IndexValidate, GapIsCovered, Gap, Handing, Witnesses
<1>5. CASE IndexMark
  BY <1>5 DEF IndexMark, GapIsCovered, Gap, Handing, Witnesses
<1>6. CASE IndexFailed
  BY <1>6, GapStands DEF IndexFailed, Raise, GiveUp
<1> QED
  BY <1>1, <1>2, <1>3, <1>4, <1>5, <1>6 DEF IndexStep

LEMMA GcKeepsCover ==
    ASSUME Typing, GapIsCovered, GcStep \/ ApiStartup \/ ApiCrash
    PROVE  GapIsCovered'
<1> USE GapStands DEF Typing, TypeOK, Places, To, Finish
<1>1. CASE GcCheck \/ GcFinish
  BY <1>1 DEF GcCheck, GcFinish
<1>2. CASE GcRows
  BY <1>2 DEF GcRows, GapIsCovered, Gap
<1>3. CASE GcFailed
  BY <1>3 DEF GcFailed, Raise
<1>4. CASE ApiStartup \/ ApiCrash
  BY <1>4 DEF ApiStartup, ApiCrash, EnqueueGc, Enqueue
<1> QED
  BY <1>1, <1>2, <1>3, <1>4 DEF GcStep

\* A processing worker that dies after its commit is what unindexed records.
LEMMA FaultKeepsCover ==
    ASSUME Typing, GapIsCovered, NEW w \in Workers, WorkerFault(w) \/ WorkerCrash(w)
    PROVE  GapIsCovered'
<1> USE DEF Typing, TypeOK, Places, To, Finish
<1>1. CASE WorkerFault(w)
  BY <1>1 DEF WorkerFault, GapIsCovered, Gap, Handing, Witnesses
<1>2. CASE WorkerCrash(w) /\ w = "process"
  BY <1>2 DEF WorkerCrash, GapIsCovered, Gap
<1>3. CASE WorkerCrash(w) /\ w # "process"
  BY <1>3, GapStands DEF WorkerCrash, Raise
<1> QED
  BY <1>1, <1>2, <1>3

LEMMA RecoveryKeepsCover ==
    ASSUME Typing, GapIsCovered, NEW t \in Tasks \ {"gc"}, Requeue(t) \/ FailStale(t)
    PROVE  GapIsCovered'
<1>1. CASE Requeue(t)
  BY <1>1, GapStands DEF Requeue, Enqueue
<1>2. CASE FailStale(t) /\ t = "process"
  BY <1>2 DEF FailStale, GapIsCovered, Gap
<1>3. CASE FailStale(t) /\ t # "process"
  BY <1>3, GapStands DEF FailStale, Typing, TypeOK
<1> QED
  BY <1>1, <1>2, <1>3

-----------------------------------------------------------------------------
(* The theorems.                                                           *)

LEMMA InitHolds == Init => IInv
<1> SUFFICES ASSUME Init
             PROVE  IInv
  OBVIOUS
<1>1. TypeOK
  <2>1. left \in [Tasks -> 0..MaxRetries] /\ faults \in 0..MaxFaults
    BY PlatformAssumption DEF Init
  <2>2. idx \in [IndexJobs -> JobStates] /\ job \in [Workers -> IndexJobs \cup {NoJob}]
    BY DEF Init, JobStates
  <2> QED
    BY <2>1, <2>2 DEF Init, TypeOK, JobStates
<1>2. Places /\ JobsAtHand
  BY DEF Init, Places, JobsAtHand, Steps
<1>3. StoreInv
  BY DEF Init, StoreInv, RowsOfADocument, UploadStored, AddressIsValid, OrphanLocked,
         DocExists
<1>4. GapIsCovered
  BY DEF Init, GapIsCovered, Gap
<1> QED
  BY <1>1, <1>2, <1>3, <1>4 DEF IInv, Typing

LEMMA NextHolds == IInv /\ [Next]_vars => IInv'
<1> SUFFICES ASSUME Typing, StoreInv, GapIsCovered, [Next]_vars
             PROVE  Typing' /\ StoreInv' /\ GapIsCovered'
  BY DEF IInv
<1>1. RowsOfADocument
  BY DEF StoreInv
<1>2. ASSUME NEW u \in Users, Request(u)
      PROVE  Typing' /\ StoreInv' /\ GapIsCovered'
  BY <1>2, RequestTypes, RequestKeepsStore, RequestKeepsCover
<1>3. CASE ApiStartup \/ ApiCrash
  BY <1>3, ApiTypes, WorkerKeepsStore, GcKeepsStore, GcKeepsCover
<1>4. CASE IngestStep
  BY <1>4, IngestTypes, WorkerKeepsStore, IngestKeepsCover
<1>5. CASE ProcessStep
  BY <1>5, <1>1, ProcessTypes, WorkerKeepsStore, ProcessKeepsCover
<1>6. CASE IndexStep
  BY <1>6, IndexTypes, WorkerKeepsStore, IndexKeepsCover
<1>7. CASE GcStep
  BY <1>7, GcTypes, GcKeepsStore, GcKeepsCover
<1>8. ASSUME NEW w \in Workers, WorkerFault(w) \/ WorkerCrash(w)
      PROVE  Typing' /\ StoreInv' /\ GapIsCovered'
  BY <1>8, FaultTypes, WorkerKeepsStore, FaultKeepsCover
<1>9. ASSUME NEW t \in Tasks \ {"gc"}, Requeue(t) \/ FailStale(t)
      PROVE  Typing' /\ StoreInv' /\ GapIsCovered'
  BY <1>9, RecoveryTypes, WorkerKeepsStore, RecoveryKeepsCover
<1>10. CASE UNCHANGED vars
  BY <1>10
     DEF Typing, TypeOK, Places, JobsAtHand, StoreInv, RowsOfADocument, UploadStored,
         HasObject, AddressIsValid, OrphanLocked, DocExists, GapIsCovered, Gap,
         Handing, Witnesses
<1> QED
  BY <1>2, <1>3, <1>4, <1>5, <1>6, <1>7, <1>8, <1>9, <1>10 DEF Next, Request

\* The inductive invariant holds in every reachable state.
THEOREM InvariantHolds == Spec => []IInv
<1>1. Init => IInv
  BY InitHolds
<1>2. IInv /\ [Next]_vars => IInv'
  BY NextHolds
<1> QED
  BY <1>1, <1>2, PTL DEF Spec

\* Every variable keeps its domain: retries never pass the limit of
\* Retry(max=...), and no state of a job is one the repositories do not know.
THEOREM TypesHold == Spec => []TypeOK
<1>1. IInv => TypeOK
  BY DEF IInv, Typing
<1> QED
  BY <1>1, InvariantHolds, PTL

\* A reader of a document finds its file, and its chunks are indexed or a job
\* says why not: whichever worker dies (process_document, process_indexing),
\* whichever task is repeated, lost or discarded by reconcile_durable_jobs, and
\* however uploads race with each other and with process_document_gc.
THEOREM ReadersAreServedHolds == Spec => []ReadersAreServed
<1>1. IInv => NoSilentGap
  <2> SUFFICES ASSUME IInv, Gap
               PROVE  \/ Live("process")
                      \/ \E i \in IndexJobs : idx[i] \in Open \cup {"FAILED"}
    BY DEF NoSilentGap, Gap
  <2>1. CASE Handing
    BY <2>1, TaskIs DEF Handing, Live, Running
  <2>2. CASE ~Handing
    BY <2>2 DEF IInv, GapIsCovered, Witnesses
  <2> QED
    BY <2>1, <2>2
<1>2. IInv => AddressIsValid
  BY DEF IInv, StoreInv
<1>3. IInv => ReadersAreServed
  BY <1>1, <1>2 DEF ReadersAreServed
<1> QED
  BY <1>3, InvariantHolds, PTL

\* What a collection takes is nobody's: from the lock of the row to the commit
\* of process_document_gc no upload can grant access to the document.
CollectionTakesOrphans ==
    [][doc' = "COLLECTED" /\ doc # "COLLECTED" => grants = {}]_vars

\* A user who has a document keeps it until the user gives it up: nothing
\* but DELETE /documents/{id} of that user takes a grant away.
OnlyTheUserGivesUp ==
    [][\A u \in grants : u \in grants' \/ RemoveAccess(u)]_vars

LEMMA GrantsStep ==
    ASSUME IInv, Next
    PROVE  /\ doc' = "COLLECTED" /\ doc # "COLLECTED" => grants = {}
           /\ \A v \in grants : v \in grants' \/ RemoveAccess(v)
<1> USE DEF SetDoc, DocExists
<1>1. ASSUME NEW u \in Users, Request(u), ~RemoveAccess(u)
      PROVE  grants \subseteq grants' /\ (doc' = "COLLECTED" => doc = "COLLECTED")
  BY <1>1 DEF Request, Lookup, UploadFault, RequestIndex, UploadStep, CreateDocument,
              Grant, PutObject, SetUri, CreateIngestionJob, EnqueueIngestion,
              FailIngestion, LookUploading, SetPending, UploadFailed
<1>2. ASSUME NEW u \in Users, RemoveAccess(u)
      PROVE  grants' = grants \ {u} /\ doc' = doc
  BY <1>2 DEF RemoveAccess
<1>3. CASE IngestStep
  BY <1>3 DEF IngestStep, IngestStart, IngestStatus, IngestDownload, IngestPages,
              IngestComplete, IngestHook, IngestForward, IngestFailed, FailIngestion
<1>4. CASE ProcessStep
  BY <1>4 DEF ProcessStep, ProcessStart, ProcessWork, ProcessSave, ProcessHandoff,
              ProcessEnqueue, ProcessFailed
<1>5. CASE IndexStep
  BY <1>5 DEF IndexStep, IndexStart, IndexLoad, IndexUpsert, IndexValidate,
              IndexMark, IndexFailed
<1>6. CASE GcCheck \/ GcFinish \/ GcFailed
  BY <1>6 DEF GcCheck, GcFinish, GcFailed
<1>7. CASE GcRows
  BY <1>7 DEF GcRows, IInv, StoreInv, OrphanLocked
<1>8. CASE ApiStartup \/ ApiCrash
  BY <1>8 DEF ApiStartup, ApiCrash
<1>9. ASSUME NEW w \in Workers, WorkerFault(w) \/ WorkerCrash(w)
      PROVE  grants' = grants /\ doc' = doc
  BY <1>9 DEF WorkerFault, WorkerCrash
<1>10. ASSUME NEW t \in Tasks \ {"gc"}, Requeue(t) \/ FailStale(t)
       PROVE  grants' = grants /\ (doc' = "COLLECTED" => doc = "COLLECTED")
  BY <1>10 DEF Requeue, FailStale, FailIngestion
<1> QED
  BY <1>1, <1>2, <1>3, <1>4, <1>5, <1>6, <1>7, <1>8, <1>9, <1>10
     DEF Next, Request, GcStep

\* A collection never takes away a document that somebody has (gc_worker's
\* query for references under FOR UPDATE, and the row it deletes later).
THEOREM CollectionsTakeOrphans == Spec => CollectionTakesOrphans
<1>1. IInv /\ [Next]_vars => [doc' = "COLLECTED" /\ doc # "COLLECTED" => grants = {}]_vars
  BY GrantsStep
<1> QED
  BY <1>1, InvariantHolds, PTL DEF Spec, CollectionTakesOrphans

\* No worker, no restart and no other user takes a grant away.
THEOREM GrantsAreTheUsers == Spec => OnlyTheUserGivesUp
<1>1. IInv /\ [Next]_vars => [\A u \in grants : u \in grants' \/ RemoveAccess(u)]_vars
  BY GrantsStep
<1> QED
  BY <1>1, InvariantHolds, PTL DEF Spec, OnlyTheUserGivesUp
=============================================================================
