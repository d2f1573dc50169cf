------------------------- MODULE LocalPipelineProofs -------------------------
(***************************************************************************)
(* Proofs about the document pipeline and what a query may rely on, for    *)
(* any set of documents and any number of jobs, artifacts, chunks and      *)
(* crashes: its types, the job table's invariants, that the job table      *)
(* implements JobContract, the gate of the catalog, and the query that     *)
(* passes it.                                                              *)
(*                                                                         *)
(* The argument, first part.  The worker's updates of its job are          *)
(* unconditional (LocalJobStore.update), so what protects a job is where   *)
(* the worker is: JobInv says that between claim and last update the job   *)
(* is open, that it is the only RUNNING one, and that a CANCELLED on its   *)
(* way was asked for.  JobInv needs the types (an update must hit the      *)
(* function's domain) and the types need JobInv (the worker's job is a     *)
(* job), so the two are proved inductive together.                         *)
(*                                                                         *)
(* Second part.  From the first to the last step of a locked section the   *)
(* document's row, its active artifact and its files are changed by the    *)
(* holder of the document lock alone (LockIsHeld, RowsOutliveLocks), so    *)
(* the artifact the worker builds stays the document's own (WorkerBuilds,  *)
(* WorkerIndexes) until the catalog points at it.  What is decided without *)
(* the lock may be stale, but never opens the gate.                        *)
(***************************************************************************)
EXTENDS LocalQuery, TLAPS

USE DEF WorkerAt, ApiAt, docVars, jobVars, artVars, workerVars, apiVars,
        processVars

IInv == TypeOK /\ JobInv

-----------------------------------------------------------------------------
(* Type correctness.                                                       *)

\* A crash spends one of MaxCrashes and forgets every lock.
LEMMA CrashKeepsProcessTypes ==
    ASSUME TypeOK, Crash PROVE ProcessTypeOK'
<1>1. crashes' \in 0..MaxCrashes
  BY ConstantsAssumption
     DEF ConstantsAssumption, TypeOK, ProcessTypeOK, Crash
<1>2. lock' \in [Docs -> {"free", "worker", "api"}]
  BY DEF Crash
<1> QED
  BY <1>1, <1>2 DEF Crash, ApiIdle, ProcessTypeOK, ApiPcs

\* cancel_for_document, as the one update of the job table it is.
LEMMA DeleteLockedCancels ==
    ASSUME DeleteLocked, docState[adoc] # "NONE",
           NEW hit, hit = {j \in JobsOf(adoc) : jobState[j] \in Cancellable}
    PROVE  /\ jobState' = [j \in Jobs |-> IF j \in hit
                              THEN "CANCEL_REQUESTED" ELSE jobState[j]]
           /\ jobFlag' = [j \in Jobs |-> j \in hit \/ jobFlag[j]]
           /\ adoc' = adoc
           /\ UNCHANGED <<jobDoc, jobArt>>
  BY DEF DeleteLocked, ApiGoto

LEMMA DeleteLockedKeepsJobTypes ==
    ASSUME TypeOK, DeleteLocked PROVE JobTypeOK'
<1>1. CASE docState[adoc] = "NONE"
  BY <1>1 DEF DeleteLocked, TypeOK, JobTypeOK
<1>2. CASE docState[adoc] # "NONE"
  <2> DEFINE hit == {j \in JobsOf(adoc) : jobState[j] \in Cancellable}
  <2>1. /\ jobState' = [j \in Jobs |-> IF j \in hit
                           THEN "CANCEL_REQUESTED" ELSE jobState[j]]
        /\ jobFlag' = [j \in Jobs |-> j \in hit \/ jobFlag[j]]
        /\ UNCHANGED <<jobDoc, jobArt>>
    BY <1>2, DeleteLockedCancels
  <2> HIDE DEF hit
  <2>2. jobState' \in [Jobs -> JobStates]
    BY <2>1 DEF TypeOK, JobTypeOK, JobStates, Active
  <2>3. jobFlag' \in [Jobs -> BOOLEAN]
    BY <2>1 DEF TypeOK, JobTypeOK
  <2> QED
    BY <2>1, <2>2, <2>3 DEF TypeOK, JobTypeOK
<1> QED
  BY <1>1, <1>2

LEMMA PrepareBeginKeepsDocTypes ==
    ASSUME TypeOK, PrepareBegin PROVE DocTypeOK'
<1>1. UNCHANGED docVars
  BY DEF PrepareBegin
<1> QED
  BY <1>1 DEF TypeOK, DocTypeOK, docVars

LEMMA PrepareBeginKeepsArtTypes ==
    ASSUME TypeOK, PrepareBegin PROVE ArtTypeOK'
<1>1. UNCHANGED <<artRow, idxMeta, idxRows>>
  BY DEF PrepareBegin
<1>2. \/ UNCHANGED <<artDoc, artFile>>
      \/ \E a \in Arts :
            /\ artDoc' = [artDoc EXCEPT ![a] = wdoc]
            /\ artFile' = [b \in Arts |->
                  IF b = a THEN "named"
                  ELSE IF artDoc[b] = wdoc /\ artFile[b] = "staging"
                       THEN "gone" ELSE artFile[b]]
  <2>1. CASE docState[wdoc] = "NONE" \/ jobState[wjob] = "GONE"
    BY <2>1 DEF PrepareBegin
  <2>2. CASE docState[wdoc] # "NONE" /\ jobState[wjob] # "GONE"
    BY <2>2 DEF PrepareBegin
  <2> QED
    BY <2>1, <2>2
<1>3. artDoc' \in [Arts -> Docs \cup {NoDoc}]
  BY <1>2 DEF TypeOK, ArtTypeOK, WorkerTypeOK
<1>4. artFile' \in [Arts -> {"unused", "named", "staging", "final", "gone"}]
  BY <1>2 DEF TypeOK, ArtTypeOK
<1> QED
  BY <1>1, <1>3, <1>4 DEF TypeOK, ArtTypeOK

LEMMA EnqueueLockedKeepsDocTypes ==
    ASSUME TypeOK, EnqueueLocked PROVE DocTypeOK'
<1>1. \/ docState' = docState
      \/ docState' = [docState EXCEPT ![adoc] = "PREPARED_NOT_INDEXED"]
  BY DEF EnqueueLocked, UpdateDoc, TypeOK, DocTypeOK
<1>2. docState' \in [Docs -> DocStates]
  BY <1>1 DEF TypeOK, DocTypeOK, DocStates
<1> QED
  BY <1>2 DEF EnqueueLocked, TypeOK, DocTypeOK

LEMMA IndexBeginKeepsDocTypes ==
    ASSUME TypeOK, IndexBegin PROVE DocTypeOK'
<1>1. docState' = docState \/ docState' = [docState EXCEPT ![wdoc] = "INDEXING"]
  BY DEF IndexBegin, UpdateDoc, TypeOK, DocTypeOK
<1>2. docState' \in [Docs -> DocStates]
  BY <1>1 DEF TypeOK, DocTypeOK, DocStates
<1> QED
  BY <1>2 DEF IndexBegin, TypeOK, DocTypeOK

LEMMA IndexInitKeepsArtTypes ==
    ASSUME TypeOK, IndexInit PROVE ArtTypeOK'
<1>1. 0 \in 0..NChunks
  BY ConstantsAssumption DEF ConstantsAssumption
<1>2. idxRows' \in [Arts -> 0..NChunks]
  BY <1>1 DEF IndexInit, TypeOK, ArtTypeOK
<1>3. idxMeta' \in [Arts -> {"NONE", "INDEXING", "PREPARED_NOT_INDEXED",
                             "INDEX_READY"}]
  BY DEF IndexInit, TypeOK, ArtTypeOK
<1> QED
  BY <1>2, <1>3 DEF IndexInit, TypeOK, ArtTypeOK

LEMMA InspectKeepsWorkerTypes ==
    ASSUME TypeOK, JobInv, Inspect PROVE WorkerTypeOK'
<1>1. wdoc \in Docs /\ wjob \in Jobs
  BY DEF Inspect, JobInv, WorkerHasJob
<1>2. CASE WorkerIdle
  BY <1>2 DEF WorkerIdle, WorkerTypeOK, WorkerPcs, DocStates
<1>3. CASE ~WorkerIdle
  <2>1. /\ wpc' = "decide" /\ wstate' = docState[wdoc] /\ wart' = docArt[wdoc]
        /\ UNCHANGED <<wjob, wdoc, whad, werr>>
    BY <1>3 DEF Inspect
  <2> QED
    BY <1>1, <2>1 DEF TypeOK, DocTypeOK, WorkerTypeOK, WorkerPcs
<1> QED
  BY <1>2, <1>3

\* Every step keeps the types, given that the worker's job and the handler's
\* document exist.
LEMMA TypeStep == ASSUME TypeOK, JobInv, Next PROVE TypeOK'
<1> USE ConstantsAssumption DEF ConstantsAssumption, TypeOK, DocTypeOK,
        JobTypeOK, ArtTypeOK, WorkerTypeOK, ProcessTypeOK, JobInv,
        WorkerHasJob, ExceptionHasCause, HandlerHasDoc, DocStates, JobStates,
        PreparationStages, Active, Terminal, WorkerPcs, LockedPcs, PreparePcs,
        PrepareFailPcs, IndexPcs, IndexFailPcs, ApiPcs, ApiLockedPcs, Jobs,
        NoJob, Arts, NoArt
<1>1. CASE WorkerStep
  <2>1. CASE Claim
    <3>1. DocTypeOK'
      BY <2>1 DEF Claim
    <3>2. JobTypeOK'
      BY <2>1 DEF Claim
    <3>3. ArtTypeOK'
      BY <2>1 DEF Claim
    <3>4. WorkerTypeOK'
      BY <2>1 DEF Claim
    <3>5. ProcessTypeOK'
      BY <2>1 DEF Claim
    <3> QED
      BY <3>1, <3>2, <3>3, <3>4, <3>5 DEF TypeOK
  <2>2. CASE Inspect
    <3>1. DocTypeOK'
      BY <2>2 DEF Inspect, UpdateJob, WorkerIdle, CancelRequested
    <3>2. JobTypeOK'
      BY <2>2 DEF Inspect, UpdateJob, WorkerIdle, CancelRequested
    <3>3. ArtTypeOK'
      BY <2>2 DEF Inspect, UpdateJob, WorkerIdle, CancelRequested
    <3>4. WorkerTypeOK'
      BY <2>2, InspectKeepsWorkerTypes
    <3>5. ProcessTypeOK'
      BY <2>2 DEF Inspect, UpdateJob, WorkerIdle, CancelRequested
    <3> QED
      BY <3>1, <3>2, <3>3, <3>4, <3>5 DEF TypeOK
  <2>3. CASE AlreadyReady
    <3>1. DocTypeOK'
      BY <2>3 DEF AlreadyReady, AttachArtifact, UpdateJob, WorkerIdle
    <3>2. JobTypeOK'
      BY <2>3 DEF AlreadyReady, AttachArtifact, UpdateJob, WorkerIdle
    <3>3. ArtTypeOK'
      BY <2>3 DEF AlreadyReady, AttachArtifact, UpdateJob, WorkerIdle
    <3>4. WorkerTypeOK'
      BY <2>3 DEF AlreadyReady, AttachArtifact, UpdateJob, WorkerIdle
    <3>5. ProcessTypeOK'
      BY <2>3 DEF AlreadyReady, AttachArtifact, UpdateJob, WorkerIdle
    <3> QED
      BY <3>1, <3>2, <3>3, <3>4, <3>5 DEF TypeOK
  <2>4. CASE ReopenIndexing
    <3>1. DocTypeOK'
      BY <2>4 DEF ReopenIndexing, UpdateDoc
    <3>2. JobTypeOK'
      BY <2>4 DEF ReopenIndexing, UpdateDoc
    <3>3. ArtTypeOK'
      BY <2>4 DEF ReopenIndexing, UpdateDoc
    <3>4. WorkerTypeOK'
      BY <2>4 DEF ReopenIndexing, UpdateDoc
    <3>5. ProcessTypeOK'
      BY <2>4 DEF ReopenIndexing, UpdateDoc
    <3> QED
      BY <3>1, <3>2, <3>3, <3>4, <3>5 DEF TypeOK
  <2>5. CASE ResumePrepared
    <3>1. DocTypeOK'
      BY <2>5 DEF ResumePrepared, AttachArtifact, Goto
    <3>2. JobTypeOK'
      BY <2>5 DEF ResumePrepared, AttachArtifact, Goto
    <3>3. ArtTypeOK'
      BY <2>5 DEF ResumePrepared, AttachArtifact, Goto
    <3>4. WorkerTypeOK'
      BY <2>5 DEF ResumePrepared, AttachArtifact, Goto
    <3>5. ProcessTypeOK'
      BY <2>5 DEF ResumePrepared, AttachArtifact, Goto
    <3> QED
      BY <3>1, <3>2, <3>3, <3>4, <3>5 DEF TypeOK
  <2>6. CASE StartPreparation
    <3>1. DocTypeOK'
      BY <2>6 DEF StartPreparation, Goto
    <3>2. JobTypeOK'
      BY <2>6 DEF StartPreparation, Goto
    <3>3. ArtTypeOK'
      BY <2>6 DEF StartPreparation, Goto
    <3>4. WorkerTypeOK'
      BY <2>6 DEF StartPreparation, Goto
    <3>5. ProcessTypeOK'
      BY <2>6 DEF StartPreparation, Goto
    <3> QED
      BY <3>1, <3>2, <3>3, <3>4, <3>5 DEF TypeOK
  <2>7. CASE PrepareStage
    <3>1. DocTypeOK'
      BY <2>7 DEF PrepareStage, FillStaging, UpdateDoc, UpdateJob, CancelRequested, Fail,
         Goto, StageAfter
    <3>2. JobTypeOK'
      BY <2>7 DEF PrepareStage, FillStaging, UpdateDoc, UpdateJob, CancelRequested, Fail,
         Goto, StageAfter
    <3>3. ArtTypeOK'
      BY <2>7 DEF PrepareStage, FillStaging, UpdateDoc, UpdateJob, CancelRequested, Fail,
         Goto, StageAfter
    <3>4. WorkerTypeOK'
      BY <2>7 DEF PrepareStage, FillStaging, UpdateDoc, UpdateJob, CancelRequested, Fail,
         Goto, StageAfter
    <3>5. ProcessTypeOK'
      BY <2>7 DEF PrepareStage, FillStaging, UpdateDoc, UpdateJob, CancelRequested, Fail,
         Goto, StageAfter
    <3> QED
      BY <3>1, <3>2, <3>3, <3>4, <3>5 DEF TypeOK
  <2>8. CASE Promote
    <3>1. DocTypeOK'
      BY <2>8 DEF Promote, Goto
    <3>2. JobTypeOK'
      BY <2>8 DEF Promote, Goto
    <3>3. ArtTypeOK'
      BY <2>8 DEF Promote, Goto
    <3>4. WorkerTypeOK'
      BY <2>8 DEF Promote, Goto
    <3>5. ProcessTypeOK'
      BY <2>8 DEF Promote, Goto
    <3> QED
      BY <3>1, <3>2, <3>3, <3>4, <3>5 DEF TypeOK
  <2>9. CASE Register
    <3>1. DocTypeOK'
      BY <2>9 DEF Register, UpdateDoc, Goto
    <3>2. JobTypeOK'
      BY <2>9 DEF Register, UpdateDoc, Goto
    <3>3. ArtTypeOK'
      BY <2>9 DEF Register, UpdateDoc, Goto
    <3>4. WorkerTypeOK'
      BY <2>9 DEF Register, UpdateDoc, Goto
    <3>5. ProcessTypeOK'
      BY <2>9 DEF Register, UpdateDoc, Goto
    <3> QED
      BY <3>1, <3>2, <3>3, <3>4, <3>5 DEF TypeOK
  <2>10. CASE Prepared
    <3>1. DocTypeOK'
      BY <2>10 DEF Prepared, UpdateJob, Release, Goto
    <3>2. JobTypeOK'
      BY <2>10 DEF Prepared, UpdateJob, Release, Goto
    <3>3. ArtTypeOK'
      BY <2>10 DEF Prepared, UpdateJob, Release, Goto
    <3>4. WorkerTypeOK'
      BY <2>10 DEF Prepared, UpdateJob, Release, Goto
    <3>5. ProcessTypeOK'
      BY <2>10 DEF Prepared, UpdateJob, Release, Goto
    <3> QED
      BY <3>1, <3>2, <3>3, <3>4, <3>5 DEF TypeOK
  <2>11. CASE PrepareFault
    <3>1. DocTypeOK'
      BY <2>11 DEF PrepareFault, Fail
    <3>2. JobTypeOK'
      BY <2>11 DEF PrepareFault, Fail
    <3>3. ArtTypeOK'
      BY <2>11 DEF PrepareFault, Fail
    <3>4. WorkerTypeOK'
      BY <2>11 DEF PrepareFault, Fail
    <3>5. ProcessTypeOK'
      BY <2>11 DEF PrepareFault, Fail
    <3> QED
      BY <3>1, <3>2, <3>3, <3>4, <3>5 DEF TypeOK
  <2>12. CASE PrepareFailJob
    <3>1. DocTypeOK'
      BY <2>12 DEF PrepareFailJob, UpdateJob, Goto
    <3>2. JobTypeOK'
      BY <2>12 DEF PrepareFailJob, UpdateJob, Goto
    <3>3. ArtTypeOK'
      BY <2>12 DEF PrepareFailJob, UpdateJob, Goto
    <3>4. WorkerTypeOK'
      BY <2>12 DEF PrepareFailJob, UpdateJob, Goto
    <3>5. ProcessTypeOK'
      BY <2>12 DEF PrepareFailJob, UpdateJob, Goto
    <3> QED
      BY <3>1, <3>2, <3>3, <3>4, <3>5 DEF TypeOK
  <2>13. CASE PrepareFailDoc
    <3>1. DocTypeOK'
      BY <2>13 DEF PrepareFailDoc, UpdateDoc, Release, WorkerIdle
    <3>2. JobTypeOK'
      BY <2>13 DEF PrepareFailDoc, UpdateDoc, Release, WorkerIdle
    <3>3. ArtTypeOK'
      BY <2>13 DEF PrepareFailDoc, UpdateDoc, Release, WorkerIdle
    <3>4. WorkerTypeOK'
      BY <2>13 DEF PrepareFailDoc, UpdateDoc, Release, WorkerIdle
    <3>5. ProcessTypeOK'
      BY <2>13 DEF PrepareFailDoc, UpdateDoc, Release, WorkerIdle
    <3> QED
      BY <3>1, <3>2, <3>3, <3>4, <3>5 DEF TypeOK
  <2>14. CASE Between
    <3>1. DocTypeOK'
      BY <2>14 DEF Between, CancelRequested, Fail, AttachArtifact, Goto
    <3>2. JobTypeOK'
      BY <2>14 DEF Between, CancelRequested, Fail, AttachArtifact, Goto
    <3>3. ArtTypeOK'
      BY <2>14 DEF Between, CancelRequested, Fail, AttachArtifact, Goto
    <3>4. WorkerTypeOK'
      BY <2>14 DEF Between, CancelRequested, Fail, AttachArtifact, Goto
    <3>5. ProcessTypeOK'
      BY <2>14 DEF Between, CancelRequested, Fail, AttachArtifact, Goto
    <3> QED
      BY <3>1, <3>2, <3>3, <3>4, <3>5 DEF TypeOK
  <2>15. CASE Escape
    <3>1. DocTypeOK'
      BY <2>15 DEF Escape, UpdateJob, WorkerIdle
    <3>2. JobTypeOK'
      BY <2>15 DEF Escape, UpdateJob, WorkerIdle
    <3>3. ArtTypeOK'
      BY <2>15 DEF Escape, UpdateJob, WorkerIdle
    <3>4. WorkerTypeOK'
      BY <2>15 DEF Escape, UpdateJob, WorkerIdle
    <3>5. ProcessTypeOK'
      BY <2>15 DEF Escape, UpdateJob, WorkerIdle
    <3> QED
      BY <3>1, <3>2, <3>3, <3>4, <3>5 DEF TypeOK
  <2>16. CASE IndexLoad
    <3>1. DocTypeOK'
      BY <2>16 DEF IndexLoad, CancelRequested, Fail, Goto, UpdateJob
    <3>2. JobTypeOK'
      BY <2>16 DEF IndexLoad, CancelRequested, Fail, Goto, UpdateJob
    <3>3. ArtTypeOK'
      BY <2>16 DEF IndexLoad, CancelRequested, Fail, Goto, UpdateJob
    <3>4. WorkerTypeOK'
      BY <2>16 DEF IndexLoad, CancelRequested, Fail, Goto, UpdateJob
    <3>5. ProcessTypeOK'
      BY <2>16 DEF IndexLoad, CancelRequested, Fail, Goto, UpdateJob
    <3> QED
      BY <3>1, <3>2, <3>3, <3>4, <3>5 DEF TypeOK
  <2>17. CASE IndexInit
    <3>1. DocTypeOK'
      BY <2>17 DEF IndexInit, Goto
    <3>2. JobTypeOK'
      BY <2>17 DEF IndexInit, Goto
    <3>3. ArtTypeOK'
      BY <2>17, IndexInitKeepsArtTypes
    <3>4. WorkerTypeOK'
      BY <2>17 DEF IndexInit, Goto
    <3>5. ProcessTypeOK'
      BY <2>17 DEF IndexInit, Goto
    <3> QED
      BY <3>1, <3>2, <3>3, <3>4, <3>5 DEF TypeOK
  <2>18. CASE IndexBatch
    <3>1. DocTypeOK'
      BY <2>18 DEF IndexBatch, UpdateJob, CancelRequested, Fail
    <3>2. JobTypeOK'
      BY <2>18 DEF IndexBatch, UpdateJob, CancelRequested, Fail
    <3>3. ArtTypeOK'
      BY <2>18 DEF IndexBatch, UpdateJob, CancelRequested, Fail
    <3>4. WorkerTypeOK'
      BY <2>18 DEF IndexBatch, UpdateJob, CancelRequested, Fail
    <3>5. ProcessTypeOK'
      BY <2>18 DEF IndexBatch, UpdateJob, CancelRequested, Fail
    <3> QED
      BY <3>1, <3>2, <3>3, <3>4, <3>5 DEF TypeOK
  <2>19. CASE IndexValidate
    <3>1. DocTypeOK'
      BY <2>19 DEF IndexValidate, UpdateJob, CancelRequested, Fail, Goto
    <3>2. JobTypeOK'
      BY <2>19 DEF IndexValidate, UpdateJob, CancelRequested, Fail, Goto
    <3>3. ArtTypeOK'
      BY <2>19 DEF IndexValidate, UpdateJob, CancelRequested, Fail, Goto
    <3>4. WorkerTypeOK'
      BY <2>19 DEF IndexValidate, UpdateJob, CancelRequested, Fail, Goto
    <3>5. ProcessTypeOK'
      BY <2>19 DEF IndexValidate, UpdateJob, CancelRequested, Fail, Goto
    <3> QED
      BY <3>1, <3>2, <3>3, <3>4, <3>5 DEF TypeOK
  <2>20. CASE Publish
    <3>1. DocTypeOK'
      BY <2>20 DEF Publish, UpdateDoc, Goto
    <3>2. JobTypeOK'
      BY <2>20 DEF Publish, UpdateDoc, Goto
    <3>3. ArtTypeOK'
      BY <2>20 DEF Publish, UpdateDoc, Goto
    <3>4. WorkerTypeOK'
      BY <2>20 DEF Publish, UpdateDoc, Goto
    <3>5. ProcessTypeOK'
      BY <2>20 DEF Publish, UpdateDoc, Goto
    <3> QED
      BY <3>1, <3>2, <3>3, <3>4, <3>5 DEF TypeOK
  <2>21. CASE Succeed
    <3>1. DocTypeOK'
      BY <2>21 DEF Succeed, UpdateJob, Release, WorkerIdle
    <3>2. JobTypeOK'
      BY <2>21 DEF Succeed, UpdateJob, Release, WorkerIdle
    <3>3. ArtTypeOK'
      BY <2>21 DEF Succeed, UpdateJob, Release, WorkerIdle
    <3>4. WorkerTypeOK'
      BY <2>21 DEF Succeed, UpdateJob, Release, WorkerIdle
    <3>5. ProcessTypeOK'
      BY <2>21 DEF Succeed, UpdateJob, Release, WorkerIdle
    <3> QED
      BY <3>1, <3>2, <3>3, <3>4, <3>5 DEF TypeOK
  <2>22. CASE IndexFault
    <3>1. DocTypeOK'
      BY <2>22 DEF IndexFault, Fail
    <3>2. JobTypeOK'
      BY <2>22 DEF IndexFault, Fail
    <3>3. ArtTypeOK'
      BY <2>22 DEF IndexFault, Fail
    <3>4. WorkerTypeOK'
      BY <2>22 DEF IndexFault, Fail
    <3>5. ProcessTypeOK'
      BY <2>22 DEF IndexFault, Fail
    <3> QED
      BY <3>1, <3>2, <3>3, <3>4, <3>5 DEF TypeOK
  <2>23. CASE IndexRestore
    <3>1. DocTypeOK'
      BY <2>23 DEF IndexRestore, Goto
    <3>2. JobTypeOK'
      BY <2>23 DEF IndexRestore, Goto
    <3>3. ArtTypeOK'
      BY <2>23 DEF IndexRestore, Goto
    <3>4. WorkerTypeOK'
      BY <2>23 DEF IndexRestore, Goto
    <3>5. ProcessTypeOK'
      BY <2>23 DEF IndexRestore, Goto
    <3> QED
      BY <3>1, <3>2, <3>3, <3>4, <3>5 DEF TypeOK
  <2>24. CASE IndexGate
    <3>1. DocTypeOK'
      BY <2>24 DEF IndexGate, UpdateDoc, Goto
    <3>2. JobTypeOK'
      BY <2>24 DEF IndexGate, UpdateDoc, Goto
    <3>3. ArtTypeOK'
      BY <2>24 DEF IndexGate, UpdateDoc, Goto
    <3>4. WorkerTypeOK'
      BY <2>24 DEF IndexGate, UpdateDoc, Goto
    <3>5. ProcessTypeOK'
      BY <2>24 DEF IndexGate, UpdateDoc, Goto
    <3> QED
      BY <3>1, <3>2, <3>3, <3>4, <3>5 DEF TypeOK
  <2>25. CASE IndexEnd
    <3>1. DocTypeOK'
      BY <2>25 DEF IndexEnd, UpdateJob, Release, WorkerIdle
    <3>2. JobTypeOK'
      BY <2>25 DEF IndexEnd, UpdateJob, Release, WorkerIdle
    <3>3. ArtTypeOK'
      BY <2>25 DEF IndexEnd, UpdateJob, Release, WorkerIdle
    <3>4. WorkerTypeOK'
      BY <2>25 DEF IndexEnd, UpdateJob, Release, WorkerIdle
    <3>5. ProcessTypeOK'
      BY <2>25 DEF IndexEnd, UpdateJob, Release, WorkerIdle
    <3> QED
      BY <3>1, <3>2, <3>3, <3>4, <3>5 DEF TypeOK
  <2> QED
    BY <1>1, <2>1, <2>2, <2>3, <2>4, <2>5, <2>6, <2>7, <2>8, <2>9, <2>10,
       <2>11, <2>12, <2>13, <2>14, <2>15, <2>16, <2>17, <2>18, <2>19, <2>20,
       <2>21, <2>22, <2>23, <2>24, <2>25 DEF WorkerStep
<1>2. CASE LockWait
  <2>1. CASE PrepareBegin
    <3>1. DocTypeOK'
      BY <2>1, PrepareBeginKeepsDocTypes
    <3>2. JobTypeOK'
      BY <2>1 DEF PrepareBegin, Fail, Acquire, AttachArtifact
    <3>3. ArtTypeOK'
      BY <2>1, PrepareBeginKeepsArtTypes
    <3>4. WorkerTypeOK'
      BY <2>1 DEF PrepareBegin, Fail, Acquire, AttachArtifact
    <3>5. ProcessTypeOK'
      BY <2>1 DEF PrepareBegin, Fail, Acquire, AttachArtifact
    <3> QED
      BY <3>1, <3>2, <3>3, <3>4, <3>5 DEF TypeOK
  <2>2. CASE IndexBegin
    <3>1. DocTypeOK'
      BY <2>2, IndexBeginKeepsDocTypes
    <3>2. JobTypeOK'
      BY <2>2 DEF IndexBegin, Indexable, Fail, Acquire, AttachArtifact,
         UpdateDoc
    <3>3. ArtTypeOK'
      BY <2>2 DEF IndexBegin, Indexable, Fail, Acquire, AttachArtifact,
         UpdateDoc
    <3>4. WorkerTypeOK'
      BY <2>2 DEF IndexBegin, Indexable, Fail, Acquire, AttachArtifact,
         UpdateDoc
    <3>5. ProcessTypeOK'
      BY <2>2 DEF IndexBegin, Indexable, Fail, Acquire, AttachArtifact,
         UpdateDoc
    <3> QED
      BY <3>1, <3>2, <3>3, <3>4, <3>5 DEF TypeOK
  <2> QED
    BY <1>2, <2>1, <2>2 DEF LockWait
<1>3. CASE HandlerStep
  <2>1. CASE AcceptRow
    <3>1. DocTypeOK'
      BY <2>1 DEF AcceptRow, ApiIdle
    <3>2. JobTypeOK'
      BY <2>1 DEF AcceptRow, ApiIdle
    <3>3. ArtTypeOK'
      BY <2>1 DEF AcceptRow, ApiIdle
    <3>4. WorkerTypeOK'
      BY <2>1 DEF AcceptRow, ApiIdle
    <3>5. ProcessTypeOK'
      BY <2>1 DEF AcceptRow, ApiIdle
    <3> QED
      BY <3>1, <3>2, <3>3, <3>4, <3>5 DEF TypeOK
  <2>2. CASE AcceptFault
    <3>1. DocTypeOK'
      BY <2>2 DEF AcceptFault, ApiIdle
    <3>2. JobTypeOK'
      BY <2>2 DEF AcceptFault, ApiIdle
    <3>3. ArtTypeOK'
      BY <2>2 DEF AcceptFault, ApiIdle
    <3>4. WorkerTypeOK'
      BY <2>2 DEF AcceptFault, ApiIdle
    <3>5. ProcessTypeOK'
      BY <2>2 DEF AcceptFault, ApiIdle
    <3> QED
      BY <3>1, <3>2, <3>3, <3>4, <3>5 DEF TypeOK
  <2>3. CASE EnqueueLocked
    <3>1. DocTypeOK'
      BY <2>3, EnqueueLockedKeepsDocTypes
    <3>2. JobTypeOK'
      BY <2>3 DEF EnqueueLocked, ApiIdle, UpdateDoc, Acquire, ApiGoto
    <3>3. ArtTypeOK'
      BY <2>3 DEF EnqueueLocked, ApiIdle, UpdateDoc, Acquire, ApiGoto
    <3>4. WorkerTypeOK'
      BY <2>3 DEF EnqueueLocked, ApiIdle, UpdateDoc, Acquire, ApiGoto
    <3>5. ProcessTypeOK'
      BY <2>3 DEF EnqueueLocked, ApiIdle, UpdateDoc, Acquire, ApiGoto
    <3> QED
      BY <3>1, <3>2, <3>3, <3>4, <3>5 DEF TypeOK
  <2>4. CASE EnqueueJob
    <3>1. DocTypeOK'
      BY <2>4 DEF EnqueueJob, ActiveJobOf, JobsLeft, JobsOf, Release, ApiIdle
    <3>2. JobTypeOK'
      BY <2>4 DEF EnqueueJob, ActiveJobOf, JobsLeft, JobsOf, Release, ApiIdle
    <3>3. ArtTypeOK'
      BY <2>4 DEF EnqueueJob, ActiveJobOf, JobsLeft, JobsOf, Release, ApiIdle
    <3>4. WorkerTypeOK'
      BY <2>4 DEF EnqueueJob, ActiveJobOf, JobsLeft, JobsOf, Release, ApiIdle
    <3>5. ProcessTypeOK'
      BY <2>4 DEF EnqueueJob, ActiveJobOf, JobsLeft, JobsOf, Release, ApiIdle
    <3> QED
      BY <3>1, <3>2, <3>3, <3>4, <3>5 DEF TypeOK
  <2>5. CASE DeleteLocked
    <3>1. DocTypeOK'
      BY <2>5 DEF DeleteLocked, ApiIdle, Acquire, ApiGoto, JobsOf
    <3>2. JobTypeOK'
      BY <2>5, DeleteLockedKeepsJobTypes
    <3>3. ArtTypeOK'
      BY <2>5 DEF DeleteLocked, ApiIdle, Acquire, ApiGoto, JobsOf
    <3>4. WorkerTypeOK'
      BY <2>5 DEF DeleteLocked, ApiIdle, Acquire, ApiGoto, JobsOf
    <3>5. ProcessTypeOK'
      BY <2>5 DEF DeleteLocked, ApiIdle, Acquire, ApiGoto, JobsOf
    <3> QED
      BY <3>1, <3>2, <3>3, <3>4, <3>5 DEF TypeOK
  <2>6. CASE DeleteSource
    <3>1. DocTypeOK'
      BY <2>6 DEF DeleteSource, ApiGoto
    <3>2. JobTypeOK'
      BY <2>6 DEF DeleteSource, ApiGoto
    <3>3. ArtTypeOK'
      BY <2>6 DEF DeleteSource, ApiGoto
    <3>4. WorkerTypeOK'
      BY <2>6 DEF DeleteSource, ApiGoto
    <3>5. ProcessTypeOK'
      BY <2>6 DEF DeleteSource, ApiGoto
    <3> QED
      BY <3>1, <3>2, <3>3, <3>4, <3>5 DEF TypeOK
  <2>7. CASE DeleteArtifacts
    <3>1. DocTypeOK'
      BY <2>7 DEF DeleteArtifacts, ArtsOf, ApiGoto
    <3>2. JobTypeOK'
      BY <2>7 DEF DeleteArtifacts, ArtsOf, ApiGoto
    <3>3. ArtTypeOK'
      BY <2>7 DEF DeleteArtifacts, ArtsOf, ApiGoto
    <3>4. WorkerTypeOK'
      BY <2>7 DEF DeleteArtifacts, ArtsOf, ApiGoto
    <3>5. ProcessTypeOK'
      BY <2>7 DEF DeleteArtifacts, ArtsOf, ApiGoto
    <3> QED
      BY <3>1, <3>2, <3>3, <3>4, <3>5 DEF TypeOK
  <2>8. CASE DeleteRows
    <3>1. DocTypeOK'
      BY <2>8 DEF DeleteRows, ArtsOf, ApiGoto
    <3>2. JobTypeOK'
      BY <2>8 DEF DeleteRows, ArtsOf, ApiGoto
    <3>3. ArtTypeOK'
      BY <2>8 DEF DeleteRows, ArtsOf, ApiGoto
    <3>4. WorkerTypeOK'
      BY <2>8 DEF DeleteRows, ArtsOf, ApiGoto
    <3>5. ProcessTypeOK'
      BY <2>8 DEF DeleteRows, ArtsOf, ApiGoto
    <3> QED
      BY <3>1, <3>2, <3>3, <3>4, <3>5 DEF TypeOK
  <2>9. CASE DeleteTombstone
    <3>1. DocTypeOK'
      BY <2>9 DEF DeleteTombstone, Release, ApiIdle
    <3>2. JobTypeOK'
      BY <2>9 DEF DeleteTombstone, Release, ApiIdle
    <3>3. ArtTypeOK'
      BY <2>9 DEF DeleteTombstone, Release, ApiIdle
    <3>4. WorkerTypeOK'
      BY <2>9 DEF DeleteTombstone, Release, ApiIdle
    <3>5. ProcessTypeOK'
      BY <2>9 DEF DeleteTombstone, Release, ApiIdle
    <3> QED
      BY <3>1, <3>2, <3>3, <3>4, <3>5 DEF TypeOK
  <2>10. CASE DeleteFault
    <3>1. DocTypeOK'
      BY <2>10 DEF DeleteFault, Release, ApiIdle, ArtsOf
    <3>2. JobTypeOK'
      BY <2>10 DEF DeleteFault, Release, ApiIdle, ArtsOf
    <3>3. ArtTypeOK'
      BY <2>10 DEF DeleteFault, Release, ApiIdle, ArtsOf
    <3>4. WorkerTypeOK'
      BY <2>10 DEF DeleteFault, Release, ApiIdle, ArtsOf
    <3>5. ProcessTypeOK'
      BY <2>10 DEF DeleteFault, Release, ApiIdle, ArtsOf
    <3> QED
      BY <3>1, <3>2, <3>3, <3>4, <3>5 DEF TypeOK
  <2> QED
    BY <1>3, <2>1, <2>2, <2>3, <2>4, <2>5, <2>6, <2>7, <2>8, <2>9, <2>10 DEF
       HandlerStep
<1>4. CASE Request
  <2>1. ASSUME NEW d \in Docs, AcceptSource(d)
       PROVE  TypeOK'
    <3>1. DocTypeOK'
      BY <2>1 DEF AcceptSource, Handle
    <3>2. JobTypeOK'
      BY <2>1 DEF AcceptSource, Handle
    <3>3. ArtTypeOK'
      BY <2>1 DEF AcceptSource, Handle
    <3>4. WorkerTypeOK'
      BY <2>1 DEF AcceptSource, Handle
    <3>5. ProcessTypeOK'
      BY <2>1 DEF AcceptSource, Handle
    <3> QED
      BY <3>1, <3>2, <3>3, <3>4, <3>5 DEF TypeOK
  <2>2. ASSUME NEW d \in Docs, Delete(d)
       PROVE  TypeOK'
    <3>1. DocTypeOK'
      BY <2>2 DEF Delete, Handle
    <3>2. JobTypeOK'
      BY <2>2 DEF Delete, Handle
    <3>3. ArtTypeOK'
      BY <2>2 DEF Delete, Handle
    <3>4. WorkerTypeOK'
      BY <2>2 DEF Delete, Handle
    <3>5. ProcessTypeOK'
      BY <2>2 DEF Delete, Handle
    <3> QED
      BY <3>1, <3>2, <3>3, <3>4, <3>5 DEF TypeOK
  <2>3. ASSUME NEW d \in Docs, NEW force \in BOOLEAN, Enqueue(d, force)
       PROVE  TypeOK'
    <3>1. DocTypeOK'
      BY <2>3 DEF Enqueue
    <3>2. JobTypeOK'
      BY <2>3 DEF Enqueue
    <3>3. ArtTypeOK'
      BY <2>3 DEF Enqueue
    <3>4. WorkerTypeOK'
      BY <2>3 DEF Enqueue
    <3>5. ProcessTypeOK'
      BY <2>3 DEF Enqueue
    <3> QED
      BY <3>1, <3>2, <3>3, <3>4, <3>5 DEF TypeOK
  <2>4. ASSUME NEW j \in Jobs, Cancel(j)
       PROVE  TypeOK'
    <3>1. DocTypeOK'
      BY <2>4 DEF Cancel, Cancellable
    <3>2. JobTypeOK'
      BY <2>4 DEF Cancel, Cancellable
    <3>3. ArtTypeOK'
      BY <2>4 DEF Cancel, Cancellable
    <3>4. WorkerTypeOK'
      BY <2>4 DEF Cancel, Cancellable
    <3>5. ProcessTypeOK'
      BY <2>4 DEF Cancel, Cancellable
    <3> QED
      BY <3>1, <3>2, <3>3, <3>4, <3>5 DEF TypeOK
  <2> QED
    BY <1>4, <2>1, <2>2, <2>3, <2>4 DEF Request
<1>5. CASE Crash
  <2>1. DocTypeOK'
    BY <1>5 DEF Crash, WorkerIdle, ApiIdle
  <2>2. JobTypeOK'
    BY <1>5 DEF Crash, WorkerIdle, ApiIdle
  <2>3. ArtTypeOK'
    BY <1>5 DEF Crash, WorkerIdle, ApiIdle
  <2>4. WorkerTypeOK'
    BY <1>5 DEF Crash, WorkerIdle, ApiIdle
  <2>5. ProcessTypeOK'
    BY <1>5, CrashKeepsProcessTypes
  <2> QED
    BY <2>1, <2>2, <2>3, <2>4, <2>5 DEF TypeOK
<1>6. CASE Restart
  <2>1. DocTypeOK'
    BY <1>6 DEF Restart, Interrupted
  <2>2. JobTypeOK'
    BY <1>6 DEF Restart, Interrupted
  <2>3. ArtTypeOK'
    BY <1>6 DEF Restart, Interrupted
  <2>4. WorkerTypeOK'
    BY <1>6 DEF Restart, Interrupted
  <2>5. ProcessTypeOK'
    BY <1>6 DEF Restart, Interrupted
  <2> QED
    BY <2>1, <2>2, <2>3, <2>4, <2>5 DEF TypeOK
<1> QED
  BY <1>1, <1>2, <1>3, <1>4, <1>5, <1>6 DEF Next

-----------------------------------------------------------------------------
(* The job table.                                                          *)

LEMMA DeleteLockedKeepsJobInv ==
    ASSUME TypeOK, JobInv, DeleteLocked PROVE JobInv'
<1> USE DEF JobInv
<1>1. CASE docState[adoc] = "NONE"
  BY <1>1 DEF DeleteLocked, ApiIdle, WorkerHasJob, WorkerJobIsOpen,
     OnlyWorkerRuns, ExceptionHasCause, HandlerHasDoc, JobHasDoc,
     OneActiveJob, CancelSurvives
<1>2. CASE docState[adoc] # "NONE"
  <2> DEFINE hit == {j \in JobsOf(adoc) : jobState[j] \in Cancellable}
  <2>1. /\ jobState' = [j \in Jobs |-> IF j \in hit
                           THEN "CANCEL_REQUESTED" ELSE jobState[j]]
        /\ jobFlag' = [j \in Jobs |-> j \in hit \/ jobFlag[j]]
        /\ adoc' = adoc
        /\ UNCHANGED <<jobDoc, jobArt>>
    BY <1>2, DeleteLockedCancels
  <2>2. \A j \in hit : /\ j \in Jobs /\ jobDoc[j] = adoc
                       /\ jobState[j] \in {"QUEUED", "RUNNING"}
    BY DEF JobsOf, Cancellable
  <2> HIDE DEF hit
  <2>3. adoc \in Docs /\ UNCHANGED <<workerVars, up>>
    BY DEF DeleteLocked, HandlerHasDoc
  <2>4. \A j \in Jobs :
            /\ jobState'[j] = IF j \in hit THEN "CANCEL_REQUESTED"
                                           ELSE jobState[j]
            /\ jobFlag'[j] = (j \in hit \/ jobFlag[j])
    BY <2>1
  <2>5. JobHasDoc'
    BY <2>1, <2>2, <2>3, <2>4 DEF JobHasDoc
  <2>6. OneActiveJob'
    BY <2>1, <2>2, <2>3, <2>4 DEF OneActiveJob, Active
  <2>7. CancelSurvives'
    BY <2>1, <2>2, <2>3, <2>4, Zenon DEF CancelSurvives
  <2>8. WorkerHasJob' /\ WorkerJobIsOpen' /\ ExceptionHasCause'
    BY <2>1, <2>2, <2>3, <2>4 DEF WorkerHasJob, WorkerJobIsOpen, Terminal,
       ExceptionHasCause, LockedPcs, WorkerPcs, IndexFailPcs
  <2>9. OnlyWorkerRuns'
    BY <2>2, <2>3, <2>4 DEF OnlyWorkerRuns
  <2>10. HandlerHasDoc'
    BY <2>1, <2>3 DEF HandlerHasDoc
  <2> QED
    BY <2>5, <2>6, <2>7, <2>8, <2>9, <2>10
<1> QED
  BY <1>1, <1>2

\* Every step keeps the invariant of the job table.
LEMMA JobStep == ASSUME TypeOK, JobInv, Next PROVE JobInv'
<1> USE ConstantsAssumption DEF ConstantsAssumption, TypeOK, DocTypeOK,
        JobTypeOK, WorkerTypeOK, ProcessTypeOK, JobInv, WorkerHasJob,
        WorkerJobIsOpen, OnlyWorkerRuns, ExceptionHasCause, HandlerHasDoc,
        JobHasDoc, OneActiveJob, CancelSurvives, Active, Terminal,
        PreparationStages, WorkerPcs, LockedPcs, PreparePcs, PrepareFailPcs,
        IndexPcs, IndexFailPcs, ApiPcs, ApiLockedPcs, Jobs, NoJob
<1>1. CASE WorkerStep
  <2>1. CASE Claim
    BY <2>1 DEF Claim
  <2>2. CASE Inspect
    BY <2>2 DEF Inspect, UpdateJob, WorkerIdle, CancelRequested
  <2>3. CASE AlreadyReady
    BY <2>3 DEF AlreadyReady, AttachArtifact, UpdateJob, WorkerIdle
  <2>4. CASE ReopenIndexing
    BY <2>4 DEF ReopenIndexing, UpdateDoc
  <2>5. CASE ResumePrepared
    BY <2>5 DEF ResumePrepared, AttachArtifact, Goto
  <2>6. CASE StartPreparation
    BY <2>6 DEF StartPreparation, Goto
  <2>7. CASE PrepareStage
    BY <2>7 DEF PrepareStage, FillStaging, UpdateDoc, UpdateJob, CancelRequested, Fail,
       Goto, StageAfter
  <2>8. CASE Promote
    BY <2>8 DEF Promote, Goto
  <2>9. CASE Register
    BY <2>9 DEF Register, UpdateDoc, Goto
  <2>10. CASE Prepared
    BY <2>10 DEF Prepared, UpdateJob, Release, Goto
  <2>11. CASE PrepareFault
    BY <2>11 DEF PrepareFault, Fail
  <2>12. CASE PrepareFailJob
    BY <2>12 DEF PrepareFailJob, UpdateJob, Goto
  <2>13. CASE PrepareFailDoc
    BY <2>13 DEF PrepareFailDoc, UpdateDoc, Release, WorkerIdle
  <2>14. CASE Between
    BY <2>14 DEF Between, CancelRequested, Fail, AttachArtifact, Goto
  <2>15. CASE Escape
    <3>1. WorkerHasJob'
      BY <2>15 DEF Escape, UpdateJob, WorkerIdle
    <3>2. WorkerJobIsOpen'
      BY <2>15 DEF Escape, UpdateJob, WorkerIdle
    <3>3. OnlyWorkerRuns'
      BY <2>15 DEF Escape, UpdateJob, WorkerIdle
    <3>4. ExceptionHasCause'
      BY <2>15 DEF Escape, UpdateJob, WorkerIdle
    <3>5. HandlerHasDoc'
      BY <2>15 DEF Escape, UpdateJob, WorkerIdle
    <3>6. JobHasDoc'
      BY <2>15 DEF Escape, UpdateJob, WorkerIdle
    <3>7. OneActiveJob'
      BY <2>15 DEF Escape, UpdateJob, WorkerIdle
    <3>8. CancelSurvives'
      BY <2>15 DEF Escape, UpdateJob, WorkerIdle
    <3> QED
      BY <3>1, <3>2, <3>3, <3>4, <3>5, <3>6, <3>7, <3>8 DEF JobInv
  <2>16. CASE IndexLoad
    BY <2>16 DEF IndexLoad, CancelRequested, Fail, Goto, UpdateJob
  <2>17. CASE IndexInit
    BY <2>17 DEF IndexInit, Goto
  <2>18. CASE IndexBatch
    BY <2>18 DEF IndexBatch, UpdateJob, CancelRequested, Fail
  <2>19. CASE IndexValidate
    BY <2>19 DEF IndexValidate, UpdateJob, CancelRequested, Fail, Goto
  <2>20. CASE Publish
    BY <2>20 DEF Publish, UpdateDoc, Goto
  <2>21. CASE Succeed
    BY <2>21 DEF Succeed, UpdateJob, Release, WorkerIdle
  <2>22. CASE IndexFault
    BY <2>22 DEF IndexFault, Fail
  <2>23. CASE IndexRestore
    BY <2>23 DEF IndexRestore, Goto
  <2>24. CASE IndexGate
    BY <2>24 DEF IndexGate, UpdateDoc, Goto
  <2>25. CASE IndexEnd
    BY <2>25 DEF IndexEnd, UpdateJob, Release, WorkerIdle
  <2> QED
    BY <1>1, <2>1, <2>2, <2>3, <2>4, <2>5, <2>6, <2>7, <2>8, <2>9, <2>10,
       <2>11, <2>12, <2>13, <2>14, <2>15, <2>16, <2>17, <2>18, <2>19, <2>20,
       <2>21, <2>22, <2>23, <2>24, <2>25 DEF WorkerStep
<1>2. CASE LockWait
  <2>1. CASE PrepareBegin
    BY <2>1 DEF PrepareBegin, Fail, Acquire, AttachArtifact
  <2>2. CASE IndexBegin
    BY <2>2 DEF IndexBegin, Indexable, Fail, Acquire, AttachArtifact,
       UpdateDoc
  <2> QED
    BY <1>2, <2>1, <2>2 DEF LockWait
<1>3. CASE HandlerStep
  <2>1. CASE AcceptRow
    BY <2>1 DEF AcceptRow, ApiIdle
  <2>2. CASE AcceptFault
    BY <2>2 DEF AcceptFault, ApiIdle
  <2>3. CASE EnqueueLocked
    BY <2>3 DEF EnqueueLocked, ApiIdle, UpdateDoc, Acquire, ApiGoto
  <2>4. CASE EnqueueJob
    <3>1. WorkerHasJob'
      BY <2>4 DEF EnqueueJob, ActiveJobOf, JobsLeft, JobsOf, Release, ApiIdle
    <3>2. WorkerJobIsOpen'
      BY <2>4 DEF EnqueueJob, ActiveJobOf, JobsLeft, JobsOf, Release, ApiIdle
    <3>3. OnlyWorkerRuns'
      BY <2>4 DEF EnqueueJob, ActiveJobOf, JobsLeft, JobsOf, Release, ApiIdle
    <3>4. ExceptionHasCause'
      BY <2>4 DEF EnqueueJob, ActiveJobOf, JobsLeft, JobsOf, Release, ApiIdle
    <3>5. HandlerHasDoc'
      BY <2>4 DEF EnqueueJob, ActiveJobOf, JobsLeft, JobsOf, Release, ApiIdle
    <3>6. JobHasDoc'
      BY <2>4 DEF EnqueueJob, ActiveJobOf, JobsLeft, JobsOf, Release, ApiIdle
    <3>7. OneActiveJob'
      BY <2>4 DEF EnqueueJob, ActiveJobOf, JobsLeft, JobsOf, Release, ApiIdle
    <3>8. CancelSurvives'
      BY <2>4 DEF EnqueueJob, ActiveJobOf, JobsLeft, JobsOf, Release, ApiIdle
    <3> QED
      BY <3>1, <3>2, <3>3, <3>4, <3>5, <3>6, <3>7, <3>8 DEF JobInv
  <2>5. CASE DeleteLocked
      BY <2>5, DeleteLockedKeepsJobInv
  <2>6. CASE DeleteSource
    BY <2>6 DEF DeleteSource, ApiGoto
  <2>7. CASE DeleteArtifacts
    BY <2>7 DEF DeleteArtifacts, ArtsOf, ApiGoto
  <2>8. CASE DeleteRows
    BY <2>8 DEF DeleteRows, ArtsOf, ApiGoto
  <2>9. CASE DeleteTombstone
    BY <2>9 DEF DeleteTombstone, Release, ApiIdle
  <2>10. CASE DeleteFault
    BY <2>10 DEF DeleteFault, Release, ApiIdle, ArtsOf
  <2> QED
    BY <1>3, <2>1, <2>2, <2>3, <2>4, <2>5, <2>6, <2>7, <2>8, <2>9, <2>10 DEF
       HandlerStep
<1>4. CASE Request
  <2>1. ASSUME NEW d \in Docs, AcceptSource(d)
       PROVE  JobInv'
    BY <2>1 DEF AcceptSource, Handle
  <2>2. ASSUME NEW d \in Docs, Delete(d)
       PROVE  JobInv'
    BY <2>2 DEF Delete, Handle
  <2>3. ASSUME NEW d \in Docs, NEW force \in BOOLEAN, Enqueue(d, force)
       PROVE  JobInv'
    BY <2>3 DEF Enqueue
  <2>4. ASSUME NEW j \in Jobs, Cancel(j)
       PROVE  JobInv'
    BY <2>4 DEF Cancel, Cancellable
  <2> QED
    BY <1>4, <2>1, <2>2, <2>3, <2>4 DEF Request
<1>5. CASE Crash
  BY <1>5 DEF Crash, WorkerIdle, ApiIdle
<1>6. CASE Restart
  BY <1>6 DEF Restart, Interrupted
<1> QED
  BY <1>1, <1>2, <1>3, <1>4, <1>5, <1>6 DEF Next

LEMMA DeleteLockedSpares ==
    ASSUME TypeOK, DeleteLocked
    PROVE  \A j \in Jobs : jobState[j] \in Terminal =>
               jobState'[j] \in {jobState[j], "GONE"}
  BY DEF DeleteLocked, TypeOK, JobTypeOK, Terminal, Cancellable

\* No step changes the state of a job that has ended.
LEMMA TerminalStep ==
    ASSUME TypeOK, JobInv, Next
    PROVE  \A j \in Jobs : jobState[j] \in Terminal =>
               jobState'[j] \in {jobState[j], "GONE"}
<1> DEFINE goal == \A j \in Jobs : jobState[j] \in Terminal =>
                       jobState'[j] \in {jobState[j], "GONE"}
<1> USE ConstantsAssumption DEF ConstantsAssumption, TypeOK, JobTypeOK,
        JobInv, WorkerHasJob, WorkerJobIsOpen, HandlerHasDoc, Active,
        Terminal, PreparationStages, WorkerPcs, LockedPcs, PreparePcs,
        PrepareFailPcs, IndexPcs, IndexFailPcs, ApiPcs, ApiLockedPcs, Jobs,
        NoJob
<1>1. CASE WorkerStep
  <2>1. CASE Claim
    BY <2>1 DEF Claim
  <2>2. CASE Inspect
    BY <2>2 DEF Inspect, UpdateJob, WorkerIdle, CancelRequested
  <2>3. CASE AlreadyReady
    BY <2>3 DEF AlreadyReady, AttachArtifact, UpdateJob, WorkerIdle
  <2>4. CASE ReopenIndexing
    BY <2>4 DEF ReopenIndexing, UpdateDoc
  <2>5. CASE ResumePrepared
    BY <2>5 DEF ResumePrepared, AttachArtifact, Goto
  <2>6. CASE StartPreparation
    BY <2>6 DEF StartPreparation, Goto
  <2>7. CASE PrepareStage
    BY <2>7 DEF PrepareStage, FillStaging, UpdateDoc, UpdateJob, CancelRequested, Fail,
       Goto, StageAfter
  <2>8. CASE Promote
    BY <2>8 DEF Promote, Goto
  <2>9. CASE Register
    BY <2>9 DEF Register, UpdateDoc, Goto
  <2>10. CASE Prepared
    BY <2>10 DEF Prepared, UpdateJob, Release, Goto
  <2>11. CASE PrepareFault
    BY <2>11 DEF PrepareFault, Fail
  <2>12. CASE PrepareFailJob
    BY <2>12 DEF PrepareFailJob, UpdateJob, Goto
  <2>13. CASE PrepareFailDoc
    BY <2>13 DEF PrepareFailDoc, UpdateDoc, Release, WorkerIdle
  <2>14. CASE Between
    BY <2>14 DEF Between, CancelRequested, Fail, AttachArtifact, Goto
  <2>15. CASE Escape
    BY <2>15 DEF Escape, UpdateJob, WorkerIdle
  <2>16. CASE IndexLoad
    BY <2>16 DEF IndexLoad, CancelRequested, Fail, Goto, UpdateJob
  <2>17. CASE IndexInit
    BY <2>17 DEF IndexInit, Goto
  <2>18. CASE IndexBatch
    BY <2>18 DEF IndexBatch, UpdateJob, CancelRequested, Fail
  <2>19. CASE IndexValidate
    BY <2>19 DEF IndexValidate, UpdateJob, CancelRequested, Fail, Goto
  <2>20. CASE Publish
    BY <2>20 DEF Publish, UpdateDoc, Goto
  <2>21. CASE Succeed
    BY <2>21 DEF Succeed, UpdateJob, Release, WorkerIdle
  <2>22. CASE IndexFault
    BY <2>22 DEF IndexFault, Fail
  <2>23. CASE IndexRestore
    BY <2>23 DEF IndexRestore, Goto
  <2>24. CASE IndexGate
    BY <2>24 DEF IndexGate, UpdateDoc, Goto
  <2>25. CASE IndexEnd
    BY <2>25 DEF IndexEnd, UpdateJob, Release, WorkerIdle
  <2> QED
    BY <1>1, <2>1, <2>2, <2>3, <2>4, <2>5, <2>6, <2>7, <2>8, <2>9, <2>10,
       <2>11, <2>12, <2>13, <2>14, <2>15, <2>16, <2>17, <2>18, <2>19, <2>20,
       <2>21, <2>22, <2>23, <2>24, <2>25 DEF WorkerStep
<1>2. CASE LockWait
  <2>1. CASE PrepareBegin
    BY <2>1 DEF PrepareBegin, Fail, Acquire, AttachArtifact
  <2>2. CASE IndexBegin
    BY <2>2 DEF IndexBegin, Indexable, Fail, Acquire, AttachArtifact,
       UpdateDoc
  <2> QED
    BY <1>2, <2>1, <2>2 DEF LockWait
<1>3. CASE HandlerStep
  <2>1. CASE AcceptRow
    BY <2>1 DEF AcceptRow, ApiIdle
  <2>2. CASE AcceptFault
    BY <2>2 DEF AcceptFault, ApiIdle
  <2>3. CASE EnqueueLocked
    BY <2>3 DEF EnqueueLocked, ApiIdle, UpdateDoc, Acquire, ApiGoto
  <2>4. CASE EnqueueJob
    BY <2>4 DEF EnqueueJob, ActiveJobOf, JobsLeft, JobsOf, Release, ApiIdle
  <2>5. CASE DeleteLocked
      BY <2>5, DeleteLockedSpares
  <2>6. CASE DeleteSource
    BY <2>6 DEF DeleteSource, ApiGoto
  <2>7. CASE DeleteArtifacts
    BY <2>7 DEF DeleteArtifacts, ArtsOf, ApiGoto
  <2>8. CASE DeleteRows
    BY <2>8 DEF DeleteRows, ArtsOf, ApiGoto
  <2>9. CASE DeleteTombstone
    BY <2>9 DEF DeleteTombstone, Release, ApiIdle
  <2>10. CASE DeleteFault
    BY <2>10 DEF DeleteFault, Release, ApiIdle, ArtsOf
  <2> QED
    BY <1>3, <2>1, <2>2, <2>3, <2>4, <2>5, <2>6, <2>7, <2>8, <2>9, <2>10 DEF
       HandlerStep
<1>4. CASE Request
  <2>1. ASSUME NEW d \in Docs, AcceptSource(d)
       PROVE  goal
    BY <2>1 DEF AcceptSource, Handle
  <2>2. ASSUME NEW d \in Docs, Delete(d)
       PROVE  goal
    BY <2>2 DEF Delete, Handle
  <2>3. ASSUME NEW d \in Docs, NEW force \in BOOLEAN, Enqueue(d, force)
       PROVE  goal
    BY <2>3 DEF Enqueue
  <2>4. ASSUME NEW j \in Jobs, Cancel(j)
       PROVE  goal
    BY <2>4 DEF Cancel, Cancellable
  <2> QED
    BY <1>4, <2>1, <2>2, <2>3, <2>4 DEF Request
<1>5. CASE Crash
  BY <1>5 DEF Crash, WorkerIdle, ApiIdle
<1>6. CASE Restart
  BY <1>6 DEF Restart, Interrupted
<1> QED
  BY <1>1, <1>2, <1>3, <1>4, <1>5, <1>6 DEF Next

LEMMA InitIInv == Init => IInv
<1> SUFFICES ASSUME Init PROVE IInv
  OBVIOUS
<1> USE ConstantsAssumption DEF ConstantsAssumption
<1>1. TypeOK
  <2>1. DocTypeOK
    BY DEF Init, DocTypeOK, DocStates
  <2>2. JobTypeOK
    BY DEF Init, JobTypeOK, JobStates
  <2>3. ArtTypeOK
    BY DEF Init, ArtTypeOK
  <2>4. WorkerTypeOK
    BY DEF Init, WorkerTypeOK, WorkerPcs, DocStates
  <2>5. ProcessTypeOK
    <3>1. crashes \in 0..MaxCrashes
      BY DEF Init
    <3> QED
      BY <3>1 DEF Init, ProcessTypeOK, ApiPcs
  <2> QED
    BY <2>1, <2>2, <2>3, <2>4, <2>5 DEF TypeOK
<1>2. JobInv
  BY DEF Init, JobInv, WorkerHasJob, WorkerJobIsOpen, OnlyWorkerRuns,
     ExceptionHasCause, HandlerHasDoc, JobHasDoc, OneActiveJob,
     CancelSurvives, Active, IndexFailPcs
<1> QED
  BY <1>1, <1>2 DEF IInv

LEMMA StepIInv == IInv /\ [Next]_vars => IInv'
<1> SUFFICES ASSUME IInv, [Next]_vars PROVE IInv'
  OBVIOUS
<1>1. CASE Next
  BY <1>1, TypeStep, JobStep DEF IInv
<1>2. CASE UNCHANGED vars
  <2>1. TypeOK'
    BY <1>2 DEF IInv, vars, TypeOK, DocTypeOK, JobTypeOK, ArtTypeOK,
       WorkerTypeOK, ProcessTypeOK
  <2>2. JobInv'
    BY <1>2 DEF IInv, vars, JobInv, WorkerHasJob, WorkerJobIsOpen,
       OnlyWorkerRuns, ExceptionHasCause, HandlerHasDoc, JobHasDoc,
       OneActiveJob, CancelSurvives
  <2> QED
    BY <2>1, <2>2 DEF IInv
<1> QED
  BY <1>1, <1>2

\* The inductive invariant holds in every reachable state.
THEOREM Invariance == Spec => []IInv
  BY InitIInv, StepIInv, PTL DEF Spec

\* Documents, jobs, artifacts, worker and handler only ever take the states
\* the code gives them.
THEOREM TypeCorrect == Spec => []TypeOK
<1>1. IInv => TypeOK
  BY DEF IInv
<1> QED
  BY <1>1, Invariance, PTL

\* What the worker may assume of its job between claim and last update.
THEOREM JobInvHolds == Spec => []JobInv
<1>1. IInv => JobInv
  BY DEF IInv
<1> QED
  BY <1>1, Invariance, PTL

\* At most one PROCESS_DOCUMENT job of a document is active, although
\* enqueue_pipeline selects and inserts in two statements.
THEOREM OneActiveJobHolds == Spec => []OneActiveJob
<1>1. IInv => OneActiveJob
  BY DEF IInv, JobInv
<1> QED
  BY <1>1, Invariance, PTL

\* No cancellation is lost to a RUNNING update or to reconcile_interrupted,
\* and no job is CANCELLED that nobody cancelled.
THEOREM CancelSurvivesHolds == Spec => []CancelSurvives
<1>1. IInv => CancelSurvives
  BY DEF IInv, JobInv
<1> QED
  BY <1>1, Invariance, PTL

\* A job that has ended keeps its state until its row is deleted, although
\* LocalJobStore.update never looks at the state it overwrites.
THEOREM TerminalIsImmutableHolds == Spec => TerminalIsImmutable
<1> DEFINE A == \A j \in Jobs : jobState[j] \in Terminal =>
                    jobState'[j] \in {jobState[j], "GONE"}
<1>1. IInv /\ [Next]_vars => [A]_vars
  BY TerminalStep DEF IInv
<1> QED
  BY <1>1, Invariance, PTL DEF Spec, TerminalIsImmutable

-----------------------------------------------------------------------------
(* The pipeline implements JobContract: every step of the worker, the      *)
(* handlers, a crash or a restart is, on the job table, a step of the      *)
(* contract or none at all.                                                *)

contract == <<jobState, jobFlag, jobDoc>>

\* What a step of the pipeline may do to the job table.
Allowed == Contract!ContractNext \/ UNCHANGED contract

\* LocalJobStore.update by the worker, anywhere between claim and last
\* update: progress, or the end of the one running job.
LEMMA WorkerUpdate ==
    ASSUME TypeOK, JobInv, up, wpc \notin {"idle", "prep_fail_doc"},
           NEW s \in Terminal \cup {"RUNNING"}, UpdateJob(wjob, s),
           s = "CANCELLED" => jobFlag[wjob],
           UNCHANGED <<jobFlag, jobDoc>>
    PROVE  Allowed
<1>1. wjob \in Jobs /\ jobState[wjob] \in {"RUNNING", "CANCEL_REQUESTED", "GONE"}
  BY DEF JobInv, WorkerHasJob, WorkerJobIsOpen
<1>2. \A k \in Jobs \ {wjob} : jobState[k] # "RUNNING"
  BY DEF JobInv, OnlyWorkerRuns
<1>3. CASE jobState[wjob] = "GONE" \/ jobState[wjob] = s
  <2>1. jobState' = jobState
    BY <1>1, <1>3 DEF UpdateJob, TypeOK, JobTypeOK
  <2> QED
    BY <2>1 DEF Allowed, contract
<1>4. CASE jobState[wjob] # "GONE" /\ jobState[wjob] # s
  <2>1. jobState' = [jobState EXCEPT ![wjob] = s]
    BY <1>1, <1>4 DEF UpdateJob
  <2>2. CASE s = "RUNNING"
    <3>1. Contract!ReportProgress(wjob)
      BY <1>1, <1>2, <1>4, <2>1, <2>2
         DEF Contract!ReportProgress, Contract!NobodyElseRuns
    <3> QED
      BY <1>1, <3>1 DEF Allowed, Contract!ContractNext
  <2>3. CASE s \in Terminal
    <3>1. Contract!End(wjob, s)
      BY <1>1, <1>4, <2>1 DEF Contract!End
    <3> QED
      BY <1>1, <2>3, <3>1
         DEF Allowed, Contract!ContractNext, Contract!Finished, Terminal
  <2> QED
    BY <2>2, <2>3
<1> QED
  BY <1>3, <1>4

\* claim_next_pipeline starts a job while no other one runs.
LEMMA ClaimStarts == ASSUME TypeOK, JobInv, Claim PROVE Allowed
<1>1. PICK j \in Jobs : /\ jobState[j] = "QUEUED"
                        /\ jobState' = [jobState EXCEPT ![j] = "RUNNING"]
  BY DEF Claim
<1>2. \A k \in Jobs : jobState[k] # "RUNNING"
  BY DEF Claim, JobInv, OnlyWorkerRuns
<1>3. Contract!Start(j)
  BY <1>1, <1>2 DEF Claim, Contract!Start, Contract!NobodyElseRuns
<1> QED
  BY <1>3 DEF Allowed, Contract!ContractNext

\* enqueue_pipeline inserts a job only for a document without an active one.
LEMMA EnqueueSubmits == ASSUME TypeOK, JobInv, EnqueueJob PROVE Allowed
<1>1. CASE UNCHANGED jobVars
  BY <1>1 DEF Allowed, contract
<1>2. CASE ~UNCHANGED jobVars
  <2>1. ~ActiveJobOf(adoc)
    BY <1>2 DEF EnqueueJob
  <2>2. PICK j \in Jobs : /\ jobState[j] = "UNUSED"
                          /\ jobState' = [jobState EXCEPT ![j] = "QUEUED"]
                          /\ jobDoc' = [jobDoc EXCEPT ![j] = adoc]
                          /\ UNCHANGED jobFlag
    BY <1>2 DEF EnqueueJob
  <2>3. adoc \in Docs
    BY DEF EnqueueJob, JobInv, HandlerHasDoc
  <2>4. \A k \in Jobs : jobDoc[k] = adoc => jobState[k] \notin Contract!Open
    BY <2>1 DEF ActiveJobOf, JobsOf, Active, Contract!Open
  <2>5. Contract!Submit(j, adoc)
    BY <2>2, <2>4 DEF Contract!Submit
  <2> QED
    BY <2>3, <2>5 DEF Allowed, Contract!ContractNext
<1> QED
  BY <1>1, <1>2

\* cancel_for_document updates many rows, but of one document at most one
\* job can be cancelled: OneActiveJob makes it a single AskToCancel.
LEMMA DeleteAsksToCancel == ASSUME TypeOK, JobInv, DeleteLocked PROVE Allowed
<1>1. CASE docState[adoc] = "NONE"
  BY <1>1 DEF DeleteLocked, Allowed, contract
<1>2. CASE docState[adoc] # "NONE"
  <2> DEFINE hit == {j \in JobsOf(adoc) : jobState[j] \in Cancellable}
  <2>1. /\ jobState' = [j \in Jobs |-> IF j \in hit
                           THEN "CANCEL_REQUESTED" ELSE jobState[j]]
        /\ jobFlag' = [j \in Jobs |-> j \in hit \/ jobFlag[j]]
        /\ UNCHANGED <<jobDoc, jobArt>>
    BY <1>2, DeleteLockedCancels
  <2>2. \A j \in hit : /\ j \in Jobs /\ jobDoc[j] = adoc
                       /\ jobState[j] \in {"QUEUED", "RUNNING"}
    BY DEF JobsOf, Cancellable
  <2>3. \A j, k \in hit : j = k
    BY <2>2 DEF JobInv, OneActiveJob, Active
  <2> HIDE DEF hit
  <2>4. CASE hit = {}
    <3>1. jobState' = jobState /\ jobFlag' = jobFlag
      BY <2>1, <2>4 DEF TypeOK, JobTypeOK
    <3> QED
      BY <2>1, <3>1 DEF Allowed, contract
  <2>5. CASE hit # {}
    <3>1. PICK j \in Jobs : j \in hit
      BY <2>2, <2>5
    <3>2. \A k \in Jobs : k \in hit <=> k = j
      BY <2>3, <3>1
    <3>3. jobState' = [jobState EXCEPT ![j] = "CANCEL_REQUESTED"]
      BY <2>1, <3>1, <3>2 DEF TypeOK, JobTypeOK
    <3>4. jobFlag' = [jobFlag EXCEPT ![j] = TRUE]
      <4>1. \A k \in Jobs : (k \in hit \/ jobFlag[k]) =
                            (IF k = j THEN TRUE ELSE jobFlag[k])
        BY <3>2 DEF TypeOK, JobTypeOK
      <4>2. jobFlag' = [k \in Jobs |-> IF k = j THEN TRUE ELSE jobFlag[k]]
        BY <2>1, <4>1
      <4> QED
        BY <4>2 DEF TypeOK, JobTypeOK
    <3>5. Contract!AskToCancel(j)
      BY <2>1, <2>2, <3>1, <3>3, <3>4 DEF Contract!AskToCancel
    <3> QED
      BY <3>5 DEF Allowed, Contract!ContractNext
  <2> QED
    BY <2>4, <2>5
<1> QED
  BY <1>1, <1>2

\* The two statements of SQL that change many rows at once.
LEMMA DeleteRemoves == ASSUME TypeOK, JobInv, DeleteRows PROVE Allowed
<1>1. adoc \in Docs
  BY DEF DeleteRows, JobInv, HandlerHasDoc
<1>2. Contract!Remove(adoc)
  BY DEF DeleteRows, Contract!Remove
<1> QED
  BY <1>1, <1>2 DEF Allowed, Contract!ContractNext

LEMMA RestartRecovers == ASSUME TypeOK, JobInv, Restart PROVE Allowed
<1>1. jobState' = [j \in Jobs |->
          IF jobState[j] \in {"RUNNING", "CANCEL_REQUESTED"}
          THEN IF jobFlag[j] THEN "CANCELLED" ELSE "QUEUED"
          ELSE jobState[j]]
  BY DEF Restart, Interrupted
<1>2. Contract!Recover
  BY <1>1 DEF Restart, Contract!Recover
<1> QED
  BY <1>2 DEF Allowed, Contract!ContractNext

\* POST /v1/jobs/{id}:cancel.
LEMMA CancelAsks ==
    ASSUME TypeOK, JobInv, NEW j \in Jobs, Cancel(j) PROVE Allowed
<1>1. Contract!AskToCancel(j)
  BY DEF Cancel, Cancellable, Contract!AskToCancel
<1> QED
  BY <1>1 DEF Allowed, Contract!ContractNext

\* Every step is a step of the contract, or leaves the job table alone.
LEMMA RefinementStep == ASSUME TypeOK, JobInv, Next PROVE Allowed
<1> USE DEF Allowed, contract
<1>1. CASE WorkerStep
  <2>1. CASE Claim
    BY <2>1, ClaimStarts
  <2>2. CASE Inspect
    <3>1. CASE CancelRequested(wjob)
      BY <2>2, <3>1, WorkerUpdate DEF Inspect, CancelRequested, Terminal
    <3>2. CASE ~CancelRequested(wjob) /\ docState[wdoc] = "NONE"
      BY <2>2, <3>2, WorkerUpdate DEF Inspect, Terminal
    <3>3. CASE ~CancelRequested(wjob) /\ docState[wdoc] # "NONE"
      BY <2>2, <3>3 DEF Inspect
    <3> QED
      BY <3>1, <3>2, <3>3
  <2>3. CASE AlreadyReady
    BY <2>3, WorkerUpdate DEF AlreadyReady, Terminal, PreparationStages
  <2>4. CASE ReopenIndexing
    BY <2>4 DEF ReopenIndexing, UpdateDoc
  <2>5. CASE ResumePrepared
    BY <2>5 DEF ResumePrepared, AttachArtifact, Goto
  <2>6. CASE StartPreparation
    BY <2>6 DEF StartPreparation, Goto
  <2>7. CASE PrepareStage
    BY <2>7, WorkerUpdate DEF PrepareStage, FillStaging, Terminal, PreparationStages
  <2>8. CASE Promote
    BY <2>8 DEF Promote, Goto
  <2>9. CASE Register
    BY <2>9 DEF Register, UpdateDoc, Goto
  <2>10. CASE Prepared
    BY <2>10, WorkerUpdate DEF Prepared, Terminal, PreparationStages
  <2>11. CASE PrepareFault
    BY <2>11 DEF PrepareFault, Fail
  <2>12. CASE PrepareFailJob
    BY <2>12, WorkerUpdate DEF PrepareFailJob, Terminal, JobInv,
       ExceptionHasCause, PreparationStages, IndexFailPcs
  <2>13. CASE PrepareFailDoc
    BY <2>13 DEF PrepareFailDoc, UpdateDoc, Release, WorkerIdle
  <2>14. CASE Between
    BY <2>14 DEF Between, CancelRequested, Fail, AttachArtifact, Goto
  <2>15. CASE Escape
    <3>1. CASE jobState[wjob] \in Active
      BY <2>15, <3>1, WorkerUpdate
         DEF Escape, Terminal, JobInv, ExceptionHasCause
    <3>2. CASE jobState[wjob] \notin Active
      BY <2>15, <3>2 DEF Escape
    <3> QED
      BY <3>1, <3>2
  <2>16. CASE IndexLoad
    <3>1. CASE CancelRequested(wjob)
      BY <2>16, <3>1 DEF IndexLoad
    <3>2. CASE ~CancelRequested(wjob)
      BY <2>16, <3>2, WorkerUpdate DEF IndexLoad
    <3> QED
      BY <3>1, <3>2
  <2>17. CASE IndexInit
    BY <2>17 DEF IndexInit, Goto
  <2>18. CASE IndexBatch
    BY <2>18, WorkerUpdate DEF IndexBatch, Terminal, PreparationStages
  <2>19. CASE IndexValidate
    BY <2>19, WorkerUpdate DEF IndexValidate, Terminal, PreparationStages
  <2>20. CASE Publish
    BY <2>20 DEF Publish, UpdateDoc, Goto
  <2>21. CASE Succeed
    BY <2>21, WorkerUpdate DEF Succeed, Terminal, PreparationStages
  <2>22. CASE IndexFault
    BY <2>22 DEF IndexFault, Fail
  <2>23. CASE IndexRestore
    BY <2>23 DEF IndexRestore, Goto
  <2>24. CASE IndexGate
    BY <2>24 DEF IndexGate, UpdateDoc, Goto
  <2>25. CASE IndexEnd
    BY <2>25, WorkerUpdate DEF IndexEnd, Terminal, JobInv, ExceptionHasCause,
       PreparationStages, IndexFailPcs
  <2> QED
    BY <1>1, <2>1, <2>2, <2>3, <2>4, <2>5, <2>6, <2>7, <2>8, <2>9, <2>10,
       <2>11, <2>12, <2>13, <2>14, <2>15, <2>16, <2>17, <2>18, <2>19, <2>20,
       <2>21, <2>22, <2>23, <2>24, <2>25 DEF WorkerStep
<1>2. CASE LockWait
  <2>1. CASE PrepareBegin
    BY <2>1 DEF PrepareBegin, Fail, Acquire, AttachArtifact
  <2>2. CASE IndexBegin
    BY <2>2 DEF IndexBegin, Indexable, Fail, Acquire, AttachArtifact,
       UpdateDoc
  <2> QED
    BY <1>2, <2>1, <2>2 DEF LockWait
<1>3. CASE HandlerStep
  <2>1. CASE AcceptRow
    BY <2>1 DEF AcceptRow, ApiIdle
  <2>2. CASE AcceptFault
    BY <2>2 DEF AcceptFault, ApiIdle
  <2>3. CASE EnqueueLocked
    BY <2>3 DEF EnqueueLocked, ApiIdle, UpdateDoc, Acquire, ApiGoto
  <2>4. CASE EnqueueJob
    BY <2>4, EnqueueSubmits
  <2>5. CASE DeleteLocked
    BY <2>5, DeleteAsksToCancel
  <2>6. CASE DeleteSource
    BY <2>6 DEF DeleteSource, ApiGoto
  <2>7. CASE DeleteArtifacts
    BY <2>7 DEF DeleteArtifacts, ArtsOf, ApiGoto
  <2>8. CASE DeleteRows
    BY <2>8, DeleteRemoves
  <2>9. CASE DeleteTombstone
    BY <2>9 DEF DeleteTombstone, Release, ApiIdle
  <2>10. CASE DeleteFault
    BY <2>10 DEF DeleteFault, Release, ApiIdle, ArtsOf
  <2> QED
    BY <1>3, <2>1, <2>2, <2>3, <2>4, <2>5, <2>6, <2>7, <2>8, <2>9, <2>10 DEF
       HandlerStep
<1>4. CASE Request
  <2>1. ASSUME NEW d \in Docs, AcceptSource(d)
       PROVE  Allowed
    BY <2>1 DEF AcceptSource, Handle
  <2>2. ASSUME NEW d \in Docs, Delete(d)
       PROVE  Allowed
    BY <2>2 DEF Delete, Handle
  <2>3. ASSUME NEW d \in Docs, NEW force \in BOOLEAN, Enqueue(d, force)
       PROVE  Allowed
    BY <2>3 DEF Enqueue
  <2>4. ASSUME NEW j \in Jobs, Cancel(j)
       PROVE  Allowed
    BY <2>4, CancelAsks
  <2> QED
    BY <1>4, <2>1, <2>2, <2>3, <2>4 DEF Request
<1>5. CASE Crash
  BY <1>5 DEF Crash, WorkerIdle, ApiIdle
<1>6. CASE Restart
  BY <1>6, RestartRecovers
<1> QED
  BY <1>1, <1>2, <1>3, <1>4, <1>5, <1>6 DEF Next

\* The job table, as the browser polls it, behaves as JobContract promises,
\* under every interleaving of worker, handlers, deletions and crashes.
THEOREM Implementation == Spec => ImplementsJobContract
<1>1. Init => Contract!ContractInit
  BY DEF Init, Contract!ContractInit
<1>2. IInv /\ [Next]_vars => [Contract!ContractNext]_(Contract!contractVars)
  BY RefinementStep
     DEF IInv, Allowed, contract, Contract!contractVars, vars
<1> QED
  BY <1>1, <1>2, Invariance, PTL
     DEF Spec, ImplementsJobContract, Contract!ContractSpec

-----------------------------------------------------------------------------
(* Second part: the gate and the query.                                    *)

(* The inductive invariant.                                                *)

\* Worker and handler hold the lock in their locked sections.
LockIsHeld ==
    /\ wpc \in LockedPcs => lock[wdoc] = "worker"
    /\ apc \in ApiLockedPcs => lock[adoc] = "api"

\* A locked section works on a document that has a row until it deletes it,
\* and a document is accepted once.
RowsOutliveLocks ==
    /\ wpc \in LockedPcs => docState[wdoc] # "NONE"
    /\ apc = "enqueue_job" => docState[adoc] # "NONE"
    /\ apc = "accept_row" => docState[adoc] = "NONE"

UnusedIsBlank == \A a \in Arts : artFile[a] = "unused" => artRow[a] = "NONE"

\* prepare builds an artifact of its document that nobody else knows of until
\* it is registered, and registers it with its files in place.
WorkerBuilds ==
    /\ wpc \in PreparePcs \cup PrepareFailPcs => wart \in Arts /\ artDoc[wart] = wdoc
    /\ wpc = "PROCESSING" => artFile[wart] = "named"
    /\ wpc \in {"CHUNKING", "VALIDATING", "promote"} => artFile[wart] = "staging"
    /\ wpc \in {"register", "prepared"} => artFile[wart] = "final"
    /\ wpc \in PreparationStages \cup {"promote", "register"} => artRow[wart] = "NONE"

\* index_document fills the active artifact of a document that is INDEXING,
\* and publishes it with all its chunks.
WorkerIndexes ==
    /\ wpc \in IndexPcs => wart \in Arts /\ wart = docArt[wdoc]
    /\ wpc \in {"index_load", "index_init", "index_batch", "publish"} =>
           docState[wdoc] = "INDEXING"
    /\ wpc = "publish" => idxRows[wart] = NChunks

\* The rows of a document are deleted after all of its files.
FilesGoFirst ==
    apc = "delete_rows" => \A a \in ArtsOf(adoc) : artFile[a] = "gone"

ReadyHasArtifact == \A d \in Docs : docState[d] = "INDEX_READY" => docArt[d] \in Arts

\* Only the worker makes a document ready: one that it has not read as ready
\* is not ready yet.
StaleIsNotReady ==
    wpc = "decide" /\ wstate # "INDEX_READY" => docState[wdoc] # "INDEX_READY"

GateInv ==
    /\ LockIsHeld /\ RowsOutliveLocks /\ UnusedIsBlank
    /\ WorkerBuilds /\ WorkerIndexes /\ FilesGoFirst
    /\ ReadyHasArtifact /\ StaleIsNotReady
    /\ ReadyIsComplete /\ ActiveArtifactIsOwned /\ NothingLeftOfDeleted

\* What a query knows of its artifact while nobody touches it.
QueryKnows ==
    quiet =>
        /\ qpc # "idle" =>
               /\ qart \in Arts /\ artDoc[qart] = qdoc
               /\ artFile[qart] \in {"final", "gone"}
               /\ artFile[qart] = "final" => idxRows[qart] = NChunks
        /\ qpc \in {"lexical", "answered"} => qdense = NChunks
        /\ qpc = "answered" => qlexical = NChunks

\* What holds before and after every step of the pipeline.
PipelineInv == TypeOK /\ JobInv /\ GateInv

-----------------------------------------------------------------------------
(* Who writes what, and what every step may rely on.                       *)

\* Types and documents of worker and handler, as the steps below use them.
LEMMA Known ==
    ASSUME TypeOK, JobInv
    PROVE  /\ lock \in [Docs -> {"free", "worker", "api"}]
           /\ docState \in [Docs -> DocStates]
           /\ docArt \in [Docs -> Arts \cup {NoArt}] /\ NoArt \notin Arts
           /\ artDoc \in [Arts -> Docs \cup {NoDoc}] /\ NoDoc \notin Docs
           /\ artFile \in [Arts -> {"unused", "named", "staging", "final", "gone"}]
           /\ artRow \in [Arts -> {"NONE", "PREPARED_NOT_INDEXED", "INDEX_READY"}]
           /\ idxRows \in [Arts -> 0..NChunks]
           /\ wart \in Arts \cup {NoArt}
           /\ wpc # "idle" => wdoc \in Docs
           /\ apc # "idle" => adoc \in Docs
  BY ConstantsAssumption
     DEF ConstantsAssumption, TypeOK, DocTypeOK, ArtTypeOK, WorkerTypeOK,
         ProcessTypeOK, JobInv, WorkerHasJob, HandlerHasDoc, Arts, NoArt

\* The only steps that write to a document row, an artifact or its index.
Writers ==
    /\ UNCHANGED docState \/ ReopenIndexing \/ PrepareStage \/ Register
             \/ PrepareFailDoc \/ IndexBegin \/ Publish \/ IndexGate
             \/ AcceptRow \/ EnqueueLocked \/ DeleteRows
    /\ UNCHANGED docArt \/ Register \/ Publish \/ AcceptRow \/ DeleteRows
    /\ UNCHANGED artFile \/ PrepareBegin \/ PrepareStage \/ Promote
             \/ PrepareFailJob \/ DeleteArtifacts \/ DeleteFault
    /\ UNCHANGED artRow \/ Register \/ Publish \/ DeleteRows
    /\ UNCHANGED idxRows \/ IndexInit \/ IndexBatch
    /\ UNCHANGED artDoc \/ PrepareBegin
    /\ UNCHANGED jobDoc \/ EnqueueJob

LEMMA OnlyWriters == ASSUME Next PROVE Writers
<1> USE DEF Writers
<1>1. CASE Claim
  BY <1>1 DEF Claim
<1>2. CASE Inspect
  BY <1>2 DEF Inspect, CancelRequested, UpdateJob, WorkerIdle
<1>3. CASE AlreadyReady
  BY <1>3 DEF AlreadyReady, AttachArtifact, UpdateJob, WorkerIdle
<1>4. CASE ReopenIndexing
  BY <1>4 DEF ReopenIndexing, UpdateDoc
<1>5. CASE ResumePrepared
  BY <1>5 DEF ResumePrepared, AttachArtifact, Goto
<1>6. CASE StartPreparation
  BY <1>6 DEF StartPreparation, Goto
<1>7. CASE PrepareStage
  BY <1>7
  DEF PrepareStage, FillStaging, UpdateDoc, UpdateJob, CancelRequested, Fail, Goto,
     StageAfter
<1>8. CASE Promote
  BY <1>8 DEF Promote, Goto
<1>9. CASE Register
  BY <1>9 DEF Register, UpdateDoc, Goto
<1>10. CASE Prepared
  BY <1>10 DEF Prepared, UpdateJob, Release, Goto
<1>11. CASE PrepareFault
  BY <1>11 DEF PrepareFault, Fail
<1>12. CASE PrepareFailJob
  BY <1>12 DEF PrepareFailJob, UpdateJob, Goto
<1>13. CASE PrepareFailDoc
  BY <1>13 DEF PrepareFailDoc, UpdateDoc, Release, WorkerIdle
<1>14. CASE Between
  BY <1>14 DEF Between, CancelRequested, Fail, AttachArtifact, Goto
<1>15. CASE Escape
  BY <1>15 DEF Escape, UpdateJob, WorkerIdle
<1>16. CASE IndexLoad
  BY <1>16 DEF IndexLoad, CancelRequested, Fail, Goto, UpdateJob
<1>17. CASE IndexInit
  BY <1>17 DEF IndexInit, Goto
<1>18. CASE IndexBatch
  BY <1>18 DEF IndexBatch, UpdateJob, CancelRequested, Fail
<1>19. CASE IndexValidate
  BY <1>19 DEF IndexValidate, UpdateJob, CancelRequested, Fail, Goto
<1>20. CASE Publish
  BY <1>20 DEF Publish, UpdateDoc, Goto
<1>21. CASE Succeed
  BY <1>21 DEF Succeed, UpdateJob, Release, WorkerIdle
<1>22. CASE IndexFault
  BY <1>22 DEF IndexFault, Fail
<1>23. CASE IndexRestore
  BY <1>23 DEF IndexRestore, Goto
<1>24. CASE IndexGate
  BY <1>24 DEF IndexGate, UpdateDoc, Goto
<1>25. CASE IndexEnd
  BY <1>25 DEF IndexEnd, UpdateJob, Release, WorkerIdle
<1>26. CASE PrepareBegin
  BY <1>26 DEF PrepareBegin, Fail, AttachArtifact, Acquire
<1>27. CASE IndexBegin
  BY <1>27 DEF IndexBegin, Indexable, Fail, Acquire, AttachArtifact, UpdateDoc
<1>28. CASE AcceptRow
  BY <1>28 DEF AcceptRow, ApiIdle
<1>29. CASE AcceptFault
  BY <1>29 DEF AcceptFault, ApiIdle
<1>30. CASE EnqueueLocked
  BY <1>30 DEF EnqueueLocked, ApiIdle, UpdateDoc, Acquire, ApiGoto
<1>31. CASE EnqueueJob
  BY <1>31 DEF EnqueueJob, Release, ApiIdle
<1>32. CASE DeleteLocked
  BY <1>32 DEF DeleteLocked, ApiIdle, Acquire, ApiGoto
<1>33. CASE DeleteSource
  BY <1>33 DEF DeleteSource, ApiGoto
<1>34. CASE DeleteArtifacts
  BY <1>34 DEF DeleteArtifacts, ApiGoto
<1>35. CASE DeleteRows
  BY <1>35 DEF DeleteRows, ApiGoto
<1>36. CASE DeleteTombstone
  BY <1>36 DEF DeleteTombstone, Release, ApiIdle
<1>37. CASE DeleteFault
  BY <1>37 DEF DeleteFault, Release, ApiIdle
<1>38. ASSUME NEW d \in Docs, AcceptSource(d)
      PROVE  Writers
  BY <1>38 DEF AcceptSource, Handle
<1>39. ASSUME NEW d \in Docs, Delete(d)
      PROVE  Writers
  BY <1>39 DEF Delete, Handle
<1>40. ASSUME NEW d \in Docs, NEW force \in BOOLEAN, Enqueue(d, force)
      PROVE  Writers
  BY <1>40 DEF Enqueue
<1>41. ASSUME NEW j \in Jobs, Cancel(j)
      PROVE  Writers
  BY <1>41 DEF Cancel
<1>42. CASE Crash
  BY <1>42 DEF Crash, WorkerIdle, ApiIdle
<1>43. CASE Restart
  BY <1>43 DEF Restart
<1> QED
  BY <1>1, <1>2, <1>3, <1>4, <1>5, <1>6, <1>7, <1>8, <1>9, <1>10, <1>11,
     <1>12, <1>13, <1>14, <1>15, <1>16, <1>17, <1>18, <1>19, <1>20, <1>21,
     <1>22, <1>23, <1>24, <1>25, <1>26, <1>27, <1>28, <1>29, <1>30, <1>31,
     <1>32, <1>33, <1>34, <1>35, <1>36, <1>37, <1>38, <1>39, <1>40, <1>41,
     <1>42, <1>43 DEF Next, WorkerStep, LockWait, HandlerStep, Request

\* Locks are taken by those who find them free and released by their holder;
\* the row of a locked document is deleted by the holder alone.
LEMMA LocksStep ==
    ASSUME TypeOK, JobInv, LockIsHeld, RowsOutliveLocks, Next
    PROVE  LockIsHeld' /\ RowsOutliveLocks'
<1> DEFINE goal == LockIsHeld' /\ RowsOutliveLocks'
<1> USE Known DEF LockIsHeld, RowsOutliveLocks, LockedPcs, PreparePcs, PreparationStages,
        PrepareFailPcs, IndexPcs, IndexFailPcs, ApiLockedPcs
<1>1. CASE Claim
  BY <1>1 DEF Claim
<1>2. CASE Inspect
  BY <1>2 DEF Inspect, CancelRequested, UpdateJob, WorkerIdle
<1>3. CASE AlreadyReady
  BY <1>3 DEF AlreadyReady, AttachArtifact, UpdateJob, WorkerIdle
<1>4. CASE ReopenIndexing
  BY <1>4 DEF ReopenIndexing, UpdateDoc
<1>5. CASE ResumePrepared
  BY <1>5 DEF ResumePrepared, AttachArtifact, Goto
<1>6. CASE StartPreparation
  BY <1>6 DEF StartPreparation, Goto
<1>7. CASE PrepareStage
  BY <1>7
  DEF PrepareStage, FillStaging, UpdateDoc, UpdateJob, CancelRequested, Fail, Goto,
     StageAfter
<1>8. CASE Promote
  BY <1>8 DEF Promote, Goto
<1>9. CASE Register
  BY <1>9 DEF Register, UpdateDoc, Goto
<1>10. CASE Prepared
  BY <1>10 DEF Prepared, UpdateJob, Release, Goto
<1>11. CASE PrepareFault
  BY <1>11 DEF PrepareFault, Fail
<1>12. CASE PrepareFailJob
  BY <1>12 DEF PrepareFailJob, UpdateJob, Goto
<1>13. CASE PrepareFailDoc
  BY <1>13 DEF PrepareFailDoc, UpdateDoc, Release, WorkerIdle
<1>14. CASE Between
  BY <1>14 DEF Between, CancelRequested, Fail, AttachArtifact, Goto
<1>15. CASE Escape
  BY <1>15 DEF Escape, UpdateJob, WorkerIdle
<1>16. CASE IndexLoad
  BY <1>16 DEF IndexLoad, CancelRequested, Fail, Goto, UpdateJob
<1>17. CASE IndexInit
  BY <1>17 DEF IndexInit, Goto
<1>18. CASE IndexBatch
  BY <1>18 DEF IndexBatch, UpdateJob, CancelRequested, Fail
<1>19. CASE IndexValidate
  BY <1>19 DEF IndexValidate, UpdateJob, CancelRequested, Fail, Goto
<1>20. CASE Publish
  BY <1>20 DEF Publish, UpdateDoc, Goto
<1>21. CASE Succeed
  BY <1>21 DEF Succeed, UpdateJob, Release, WorkerIdle
<1>22. CASE IndexFault
  BY <1>22 DEF IndexFault, Fail
<1>23. CASE IndexRestore
  BY <1>23 DEF IndexRestore, Goto
<1>24. CASE IndexGate
  BY <1>24 DEF IndexGate, UpdateDoc, Goto
<1>25. CASE IndexEnd
  BY <1>25 DEF IndexEnd, UpdateJob, Release, WorkerIdle
<1>26. CASE PrepareBegin
  BY <1>26 DEF PrepareBegin, Fail, AttachArtifact, Acquire
<1>27. CASE IndexBegin
  BY <1>27 DEF IndexBegin, Indexable, Fail, Acquire, AttachArtifact, UpdateDoc
<1>28. CASE AcceptRow
  BY <1>28 DEF AcceptRow, ApiIdle
<1>29. CASE AcceptFault
  BY <1>29 DEF AcceptFault, ApiIdle
<1>30. CASE EnqueueLocked
  BY <1>30 DEF EnqueueLocked, ApiIdle, UpdateDoc, Acquire, ApiGoto
<1>31. CASE EnqueueJob
  BY <1>31 DEF EnqueueJob, Release, ApiIdle
<1>32. CASE DeleteLocked
  BY <1>32 DEF DeleteLocked, ApiIdle, Acquire, ApiGoto
<1>33. CASE DeleteSource
  BY <1>33 DEF DeleteSource, ApiGoto
<1>34. CASE DeleteArtifacts
  BY <1>34 DEF DeleteArtifacts, ApiGoto
<1>35. CASE DeleteRows
  BY <1>35 DEF DeleteRows, ApiGoto
<1>36. CASE DeleteTombstone
  BY <1>36 DEF DeleteTombstone, Release, ApiIdle
<1>37. CASE DeleteFault
  BY <1>37 DEF DeleteFault, Release, ApiIdle
<1>38. ASSUME NEW d \in Docs, AcceptSource(d)
      PROVE  goal
  BY <1>38 DEF AcceptSource, Handle
<1>39. ASSUME NEW d \in Docs, Delete(d)
      PROVE  goal
  BY <1>39 DEF Delete, Handle
<1>40. ASSUME NEW d \in Docs, NEW force \in BOOLEAN, Enqueue(d, force)
      PROVE  goal
  BY <1>40 DEF Enqueue
<1>41. ASSUME NEW j \in Jobs, Cancel(j)
      PROVE  goal
  BY <1>41 DEF Cancel
<1>42. CASE Crash
  BY <1>42 DEF Crash, WorkerIdle, ApiIdle
<1>43. CASE Restart
  BY <1>43 DEF Restart
<1> QED
  BY <1>1, <1>2, <1>3, <1>4, <1>5, <1>6, <1>7, <1>8, <1>9, <1>10, <1>11,
     <1>12, <1>13, <1>14, <1>15, <1>16, <1>17, <1>18, <1>19, <1>20, <1>21,
     <1>22, <1>23, <1>24, <1>25, <1>26, <1>27, <1>28, <1>29, <1>30, <1>31,
     <1>32, <1>33, <1>34, <1>35, <1>36, <1>37, <1>38, <1>39, <1>40, <1>41,
     <1>42, <1>43 DEF Next, WorkerStep, LockWait, HandlerStep, Request

\* Worker and handler never hold the lock of one document.
LEMMA Apart ==
    ASSUME LockIsHeld, wpc \in LockedPcs, apc \in ApiLockedPcs
    PROVE  wdoc # adoc
  BY DEF LockIsHeld

Outside == HandlerStep \/ Request \/ Restart

\* While the worker is in a locked section, nobody else touches its document
\* or the files of that document, its own position apart.
LEMMA HandlersKeepAway ==
    ASSUME TypeOK, JobInv, LockIsHeld, RowsOutliveLocks, Outside,
           wpc \in LockedPcs
    PROVE  /\ UNCHANGED <<workerVars, artDoc, idxRows>>
           /\ docState'[wdoc] = docState[wdoc] /\ docArt'[wdoc] = docArt[wdoc]
           /\ \A a \in ArtsOf(wdoc) :
                  artFile'[a] = artFile[a] /\ artRow'[a] = artRow[a]
<1> DEFINE goal ==
        /\ UNCHANGED <<workerVars, artDoc, idxRows>>
        /\ docState'[wdoc] = docState[wdoc] /\ docArt'[wdoc] = docArt[wdoc]
        /\ \A a \in ArtsOf(wdoc) :
               artFile'[a] = artFile[a] /\ artRow'[a] = artRow[a]
<1>0. /\ wdoc \in Docs /\ lock[wdoc] = "worker" /\ docState[wdoc] # "NONE"
      /\ apc \in ApiLockedPcs => adoc # wdoc
  BY Known, Apart DEF LockIsHeld, RowsOutliveLocks, LockedPcs, PreparePcs,
     PreparationStages, PrepareFailPcs, IndexPcs, IndexFailPcs
<1> USE Known, <1>0 DEF ArtsOf, ApiLockedPcs
<1>1. CASE AcceptRow
  BY <1>1 DEF AcceptRow, RowsOutliveLocks
<1>2. CASE AcceptFault
  BY <1>2 DEF AcceptFault, ApiIdle
<1>3. CASE EnqueueLocked
  BY <1>3 DEF EnqueueLocked, ApiIdle, UpdateDoc, Acquire, ApiGoto
<1>4. CASE EnqueueJob
  BY <1>4 DEF EnqueueJob, Release, ApiIdle
<1>5. CASE DeleteLocked
  BY <1>5 DEF DeleteLocked, ApiIdle, Acquire, ApiGoto
<1>6. CASE DeleteSource
  BY <1>6 DEF DeleteSource, ApiGoto
<1>7. CASE DeleteArtifacts
  BY <1>7 DEF DeleteArtifacts, ApiGoto
<1>8. CASE DeleteRows
  BY <1>8 DEF DeleteRows, ApiGoto
<1>9. CASE DeleteTombstone
  BY <1>9 DEF DeleteTombstone, Release, ApiIdle
<1>10. CASE DeleteFault
  BY <1>10 DEF DeleteFault, Release, ApiIdle
<1>11. ASSUME NEW d \in Docs, AcceptSource(d)
      PROVE  goal
  BY <1>11 DEF AcceptSource, Handle
<1>12. ASSUME NEW d \in Docs, Delete(d)
      PROVE  goal
  BY <1>12 DEF Delete, Handle
<1>13. ASSUME NEW d \in Docs, NEW force \in BOOLEAN, Enqueue(d, force)
      PROVE  goal
  BY <1>13 DEF Enqueue
<1>14. ASSUME NEW j \in Jobs, Cancel(j)
      PROVE  goal
  BY <1>14 DEF Cancel
<1>15. CASE Restart
  BY <1>15 DEF Restart
<1> QED
  BY <1>1, <1>2, <1>3, <1>4, <1>5, <1>6, <1>7, <1>8, <1>9, <1>10, <1>11,
     <1>12, <1>13, <1>14, <1>15 DEF Outside, HandlerStep, Request

\* While a handler is in a locked section, the worker touches neither its
\* position nor the files of its document.
LEMMA WorkerKeepsAway ==
    ASSUME TypeOK, JobInv, LockIsHeld, RowsOutliveLocks, WorkerBuilds,
           WorkerStep \/ LockWait, apc \in ApiLockedPcs
    PROVE  /\ UNCHANGED apiVars
           /\ \A a \in Arts : artDoc'[a] = adoc =>
                  artDoc[a] = adoc /\ artFile'[a] = artFile[a]
<1> DEFINE goal ==
        /\ UNCHANGED apiVars
        /\ \A a \in Arts : artDoc'[a] = adoc =>
               artDoc[a] = adoc /\ artFile'[a] = artFile[a]
<1>0. adoc \in Docs /\ lock[adoc] = "api" /\ (wpc \in LockedPcs => adoc # wdoc)
  BY Known, Apart DEF LockIsHeld, ApiLockedPcs
<1> USE Known, <1>0 DEF WorkerBuilds, LockedPcs, PreparePcs, PreparationStages,
        PrepareFailPcs
<1>1. CASE Claim
  BY <1>1 DEF Claim
<1>2. CASE Inspect
  BY <1>2 DEF Inspect, CancelRequested, UpdateJob, WorkerIdle
<1>3. CASE AlreadyReady
  BY <1>3 DEF AlreadyReady, AttachArtifact, UpdateJob, WorkerIdle
<1>4. CASE ReopenIndexing
  BY <1>4 DEF ReopenIndexing, UpdateDoc
<1>5. CASE ResumePrepared
  BY <1>5 DEF ResumePrepared, AttachArtifact, Goto
<1>6. CASE StartPreparation
  BY <1>6 DEF StartPreparation, Goto
<1>7. CASE PrepareStage
  BY <1>7
  DEF PrepareStage, FillStaging, UpdateDoc, UpdateJob, CancelRequested, Fail, Goto,
     StageAfter
<1>8. CASE Promote
  BY <1>8 DEF Promote, Goto
<1>9. CASE Register
  BY <1>9 DEF Register, UpdateDoc, Goto
<1>10. CASE Prepared
  BY <1>10 DEF Prepared, UpdateJob, Release, Goto
<1>11. CASE PrepareFault
  BY <1>11 DEF PrepareFault, Fail
<1>12. CASE PrepareFailJob
  BY <1>12 DEF PrepareFailJob, UpdateJob, Goto
<1>13. CASE PrepareFailDoc
  BY <1>13 DEF PrepareFailDoc, UpdateDoc, Release, WorkerIdle
<1>14. CASE Between
  BY <1>14 DEF Between, CancelRequested, Fail, AttachArtifact, Goto
<1>15. CASE Escape
  BY <1>15 DEF Escape, UpdateJob, WorkerIdle
<1>16. CASE IndexLoad
  BY <1>16 DEF IndexLoad, CancelRequested, Fail, Goto, UpdateJob
<1>17. CASE IndexInit
  BY <1>17 DEF IndexInit, Goto
<1>18. CASE IndexBatch
  BY <1>18 DEF IndexBatch, UpdateJob, CancelRequested, Fail
<1>19. CASE IndexValidate
  BY <1>19 DEF IndexValidate, UpdateJob, CancelRequested, Fail, Goto
<1>20. CASE Publish
  BY <1>20 DEF Publish, UpdateDoc, Goto
<1>21. CASE Succeed
  BY <1>21 DEF Succeed, UpdateJob, Release, WorkerIdle
<1>22. CASE IndexFault
  BY <1>22 DEF IndexFault, Fail
<1>23. CASE IndexRestore
  BY <1>23 DEF IndexRestore, Goto
<1>24. CASE IndexGate
  BY <1>24 DEF IndexGate, UpdateDoc, Goto
<1>25. CASE IndexEnd
  BY <1>25 DEF IndexEnd, UpdateJob, Release, WorkerIdle
<1>26. CASE PrepareBegin
  BY <1>26 DEF PrepareBegin, Fail, AttachArtifact, Acquire
<1>27. CASE IndexBegin
  BY <1>27 DEF IndexBegin, Indexable, Fail, Acquire, AttachArtifact, UpdateDoc
<1> QED
  BY <1>1, <1>2, <1>3, <1>4, <1>5, <1>6, <1>7, <1>8, <1>9, <1>10, <1>11,
     <1>12, <1>13, <1>14, <1>15, <1>16, <1>17, <1>18, <1>19, <1>20, <1>21,
     <1>22, <1>23, <1>24, <1>25, <1>26, <1>27 DEF WorkerStep, LockWait

\* Only the end of an index build opens the gate.
LEMMA OnlyPublishOpens ==
    ASSUME TypeOK, JobInv, Next, NEW d \in Docs, docState'[d] = "INDEX_READY"
    PROVE  docState[d] = "INDEX_READY" \/ (Publish /\ d = wdoc)
<1> DEFINE goal == docState[d] = "INDEX_READY" \/ (Publish /\ d = wdoc)
<1> USE Known DEF PreparationStages
<1>1. CASE UNCHANGED docState
  BY <1>1
<1>2. CASE ReopenIndexing
  BY <1>2 DEF ReopenIndexing, UpdateDoc
<1>3. CASE PrepareStage
  BY <1>3
  DEF PrepareStage, FillStaging, UpdateDoc, UpdateJob, CancelRequested, Fail, Goto,
     StageAfter
<1>4. CASE Register
  BY <1>4 DEF Register, UpdateDoc, Goto
<1>5. CASE PrepareFailDoc
  BY <1>5 DEF PrepareFailDoc, UpdateDoc, Release, WorkerIdle
<1>6. CASE IndexBegin
  BY <1>6 DEF IndexBegin, Indexable, Fail, Acquire, AttachArtifact, UpdateDoc
<1>7. CASE Publish
  BY <1>7 DEF Publish, UpdateDoc, Goto
<1>8. CASE IndexGate
  BY <1>8 DEF IndexGate, UpdateDoc, Goto
<1>9. CASE AcceptRow
  BY <1>9 DEF AcceptRow, ApiIdle
<1>10. CASE EnqueueLocked
  BY <1>10 DEF EnqueueLocked, ApiIdle, UpdateDoc, Acquire, ApiGoto
<1>11. CASE DeleteRows
  BY <1>11 DEF DeleteRows, ApiGoto
<1> QED
  BY <1>2, <1>3, <1>4, <1>5, <1>6, <1>7, <1>8, <1>9, <1>10, <1>11,
     OnlyWriters, <1>1 DEF Writers

\* A document without a row has had none before, unless it is deleted now.
LEMMA OnlyDeletionRemoves ==
    ASSUME TypeOK, JobInv, Next, NEW d \in Docs, docState'[d] = "NONE"
    PROVE  docState[d] = "NONE" \/ (DeleteRows /\ d = adoc)
<1> DEFINE goal == docState[d] = "NONE" \/ (DeleteRows /\ d = adoc)
<1> USE Known DEF PreparationStages
<1>1. CASE UNCHANGED docState
  BY <1>1
<1>2. CASE ReopenIndexing
  BY <1>2 DEF ReopenIndexing, UpdateDoc
<1>3. CASE PrepareStage
  BY <1>3
  DEF PrepareStage, FillStaging, UpdateDoc, UpdateJob, CancelRequested, Fail, Goto,
     StageAfter
<1>4. CASE Register
  BY <1>4 DEF Register, UpdateDoc, Goto
<1>5. CASE PrepareFailDoc
  BY <1>5 DEF PrepareFailDoc, UpdateDoc, Release, WorkerIdle
<1>6. CASE IndexBegin
  BY <1>6 DEF IndexBegin, Indexable, Fail, Acquire, AttachArtifact, UpdateDoc
<1>7. CASE Publish
  BY <1>7 DEF Publish, UpdateDoc, Goto
<1>8. CASE IndexGate
  BY <1>8 DEF IndexGate, UpdateDoc, Goto
<1>9. CASE AcceptRow
  BY <1>9 DEF AcceptRow, ApiIdle
<1>10. CASE EnqueueLocked
  BY <1>10 DEF EnqueueLocked, ApiIdle, UpdateDoc, Acquire, ApiGoto
<1>11. CASE DeleteRows
  BY <1>11 DEF DeleteRows, ApiGoto
<1> QED
  BY <1>2, <1>3, <1>4, <1>5, <1>6, <1>7, <1>8, <1>9, <1>10, <1>11,
     OnlyWriters, <1>1 DEF Writers

-----------------------------------------------------------------------------
(* Every step keeps the gate.                                              *)

LEMMA UnusedStep == ASSUME PipelineInv, Next PROVE UnusedIsBlank'
<1> USE Known DEF PipelineInv, GateInv, UnusedIsBlank
<1>1. ASSUME NEW a \in Arts, artFile'[a] = "unused"
      PROVE  artFile[a] = "unused"
  <2> USE <1>1
  <2>1. CASE UNCHANGED artFile
    BY <2>1
<2>2. CASE PrepareBegin
  BY <2>2 DEF PrepareBegin
<2>3. CASE PrepareStage
  BY <2>3 DEF PrepareStage, FillStaging
<2>4. CASE Promote
  BY <2>4 DEF Promote
<2>5. CASE PrepareFailJob
  BY <2>5 DEF PrepareFailJob
<2>6. CASE DeleteArtifacts
  BY <2>6 DEF DeleteArtifacts
<2>7. CASE DeleteFault
    BY <2>7 DEF DeleteFault, ArtsOf
<2> QED
  BY <2>2, <2>3, <2>4, <2>5, <2>6, <2>7, OnlyWriters, <2>1 DEF Writers

<1>2. ASSUME NEW a \in Arts, artFile[a] = "unused"
      PROVE  artRow'[a] = "NONE"
  <2> USE <1>2
  <2>1. CASE UNCHANGED artRow
    BY <2>1
  <2>2. CASE Register
    BY <2>2 DEF Register, WorkerBuilds, PreparePcs
  <2>3. CASE Publish
    BY <2>3 DEF Publish, WorkerIndexes, ActiveArtifactIsOwned, IndexPcs
  <2>4. CASE DeleteRows
    BY <2>4 DEF DeleteRows
  <2> QED
    BY <2>1, <2>2, <2>3, <2>4, OnlyWriters DEF Writers
<1> QED
  BY <1>1, <1>2

\* prepare: nobody else knows of the new artifact, and a deletion cannot
\* begin before the lock is released.
LEMMA BuildStep == ASSUME PipelineInv, Next PROVE WorkerBuilds'
<1> USE Known DEF PipelineInv, GateInv, WorkerBuilds, LockedPcs, PreparePcs,
        PreparationStages, PrepareFailPcs
<1>1. CASE Outside
  <2>1. UNCHANGED <<wpc, wdoc, wart>>
    BY <1>1 DEF Outside, HandlerStep, Request, AcceptRow, AcceptFault,
       EnqueueLocked, EnqueueJob, DeleteLocked, DeleteSource, DeleteArtifacts,
       DeleteRows, DeleteTombstone, DeleteFault, AcceptSource, Delete, Enqueue,
       Cancel, Restart
  <2>2. CASE wpc \in LockedPcs
    BY <1>1, <2>1, <2>2, HandlersKeepAway DEF ArtsOf
  <2> QED
    BY <2>1, <2>2
<1>2. CASE Crash
  BY <1>2 DEF Crash, WorkerIdle
<1>3. CASE Claim
  BY <1>3 DEF Claim, IndexPcs
<1>4. CASE Inspect
  BY <1>4 DEF Inspect, CancelRequested, UpdateJob, WorkerIdle, IndexPcs
<1>5. CASE AlreadyReady
  BY <1>5 DEF AlreadyReady, AttachArtifact, UpdateJob, WorkerIdle, IndexPcs
<1>6. CASE ReopenIndexing
  BY <1>6 DEF ReopenIndexing, UpdateDoc, IndexPcs
<1>7. CASE ResumePrepared
  BY <1>7 DEF ResumePrepared, AttachArtifact, Goto, IndexPcs
<1>8. CASE StartPreparation
  BY <1>8 DEF StartPreparation, Goto, IndexPcs
<1>9. CASE PrepareStage
  BY <1>9
  DEF PrepareStage, FillStaging, UpdateDoc, UpdateJob, CancelRequested, Fail, Goto,
     StageAfter, IndexPcs
<1>10. CASE Promote
  BY <1>10 DEF Promote, Goto, IndexPcs
<1>11. CASE Register
  BY <1>11 DEF Register, UpdateDoc, Goto, IndexPcs
<1>12. CASE Prepared
  BY <1>12 DEF Prepared, UpdateJob, Release, Goto, IndexPcs
<1>13. CASE PrepareFault
  BY <1>13 DEF PrepareFault, Fail, IndexPcs
<1>14. CASE PrepareFailJob
  BY <1>14 DEF PrepareFailJob, UpdateJob, Goto, IndexPcs
<1>15. CASE PrepareFailDoc
  BY <1>15 DEF PrepareFailDoc, UpdateDoc, Release, WorkerIdle, IndexPcs
<1>16. CASE Between
  BY <1>16 DEF Between, CancelRequested, Fail, AttachArtifact, Goto, IndexPcs
<1>17. CASE Escape
  BY <1>17 DEF Escape, UpdateJob, WorkerIdle, IndexPcs
<1>18. CASE IndexLoad
  BY <1>18 DEF IndexLoad, CancelRequested, Fail, Goto, UpdateJob, IndexPcs
<1>19. CASE IndexInit
  BY <1>19 DEF IndexInit, Goto, IndexPcs
<1>20. CASE IndexBatch
  BY <1>20 DEF IndexBatch, UpdateJob, CancelRequested, Fail, IndexPcs
<1>21. CASE IndexValidate
  BY <1>21 DEF IndexValidate, UpdateJob, CancelRequested, Fail, Goto, IndexPcs
<1>22. CASE Publish
  BY <1>22 DEF Publish, UpdateDoc, Goto, IndexPcs
<1>23. CASE Succeed
  BY <1>23 DEF Succeed, UpdateJob, Release, WorkerIdle, IndexPcs
<1>24. CASE IndexFault
  BY <1>24 DEF IndexFault, Fail, IndexPcs
<1>25. CASE IndexRestore
  BY <1>25 DEF IndexRestore, Goto, IndexPcs
<1>26. CASE IndexGate
  BY <1>26 DEF IndexGate, UpdateDoc, Goto, IndexPcs
<1>27. CASE IndexEnd
  BY <1>27 DEF IndexEnd, UpdateJob, Release, WorkerIdle, IndexPcs
<1>28. CASE PrepareBegin
  BY <1>28 DEF PrepareBegin, Fail, UnusedIsBlank
<1>29. CASE IndexBegin
  BY <1>29
  DEF IndexBegin, Indexable, Fail, Acquire, AttachArtifact, UpdateDoc,
     IndexPcs
<1> QED
  BY <1>3, <1>4, <1>5, <1>6, <1>7, <1>8, <1>9, <1>10, <1>11, <1>12, <1>13,
     <1>14, <1>15, <1>16, <1>17, <1>18, <1>19, <1>20, <1>21, <1>22, <1>23,
     <1>24, <1>25, <1>26, <1>27, <1>28, <1>29, <1>1, <1>2
  DEF Next, WorkerStep, LockWait, Outside

\* index_document: the artifact stays the document's active one, the document
\* INDEXING, and what was validated stays until it is published.
LEMMA IndexStep == ASSUME PipelineInv, Next PROVE WorkerIndexes'
<1> USE Known DEF PipelineInv, GateInv, WorkerIndexes, IndexPcs
<1>1. CASE Outside
  <2>1. UNCHANGED <<wpc, wdoc, wart>>
    BY <1>1 DEF Outside, HandlerStep, Request, AcceptRow, AcceptFault,
       EnqueueLocked, EnqueueJob, DeleteLocked, DeleteSource, DeleteArtifacts,
       DeleteRows, DeleteTombstone, DeleteFault, AcceptSource, Delete, Enqueue,
       Cancel, Restart
  <2>2. CASE wpc \in IndexPcs
    <3>1. wpc \in LockedPcs
      BY <2>2 DEF LockedPcs
    <3> QED
      BY <1>1, <2>1, <3>1, HandlersKeepAway
  <2> QED
    BY <2>1, <2>2
<1>2. CASE Crash
  BY <1>2 DEF Crash, WorkerIdle
<1>3. CASE Claim
  BY <1>3 DEF Claim, PreparationStages, PreparePcs
<1>4. CASE Inspect
  BY <1>4
  DEF Inspect, CancelRequested, UpdateJob, WorkerIdle, PreparationStages,
     PreparePcs
<1>5. CASE AlreadyReady
  BY <1>5
  DEF AlreadyReady, AttachArtifact, UpdateJob, WorkerIdle, PreparationStages,
     PreparePcs
<1>6. CASE ReopenIndexing
  BY <1>6 DEF ReopenIndexing, UpdateDoc, PreparationStages, PreparePcs
<1>7. CASE ResumePrepared
  BY <1>7
  DEF ResumePrepared, AttachArtifact, Goto, PreparationStages, PreparePcs
<1>8. CASE StartPreparation
  BY <1>8 DEF StartPreparation, Goto, PreparationStages, PreparePcs
<1>9. CASE PrepareStage
  BY <1>9
  DEF PrepareStage, FillStaging, UpdateDoc, UpdateJob, CancelRequested, Fail, Goto,
     StageAfter, PreparationStages, PreparePcs
<1>10. CASE Promote
  BY <1>10 DEF Promote, Goto, PreparationStages, PreparePcs
<1>11. CASE Register
  BY <1>11 DEF Register, UpdateDoc, Goto, PreparationStages, PreparePcs
<1>12. CASE Prepared
  BY <1>12
  DEF Prepared, UpdateJob, Release, Goto, PreparationStages, PreparePcs
<1>13. CASE PrepareFault
  BY <1>13 DEF PrepareFault, Fail, PreparationStages, PreparePcs
<1>14. CASE PrepareFailJob
  BY <1>14 DEF PrepareFailJob, UpdateJob, Goto, PreparationStages, PreparePcs
<1>15. CASE PrepareFailDoc
  BY <1>15
  DEF PrepareFailDoc, UpdateDoc, Release, WorkerIdle, PreparationStages,
     PreparePcs
<1>16. CASE Between
  BY <1>16
  DEF Between, CancelRequested, Fail, AttachArtifact, Goto, PreparationStages,
     PreparePcs
<1>17. CASE Escape
  BY <1>17 DEF Escape, UpdateJob, WorkerIdle, PreparationStages, PreparePcs
<1>18. CASE IndexLoad
  BY <1>18
  DEF IndexLoad, CancelRequested, Fail, Goto, UpdateJob, PreparationStages,
     PreparePcs
<1>19. CASE IndexInit
  BY <1>19 DEF IndexInit, Goto, PreparationStages, PreparePcs
<1>20. CASE IndexBatch
  BY <1>20
  DEF IndexBatch, UpdateJob, CancelRequested, Fail, PreparationStages,
     PreparePcs
<1>21. CASE IndexValidate
  BY <1>21
  DEF IndexValidate, UpdateJob, CancelRequested, Fail, Goto,
     PreparationStages, PreparePcs
<1>22. CASE Publish
  BY <1>22 DEF Publish, UpdateDoc, Goto, PreparationStages, PreparePcs
<1>23. CASE Succeed
  BY <1>23
  DEF Succeed, UpdateJob, Release, WorkerIdle, PreparationStages, PreparePcs
<1>24. CASE IndexFault
  BY <1>24 DEF IndexFault, Fail, PreparationStages, PreparePcs
<1>25. CASE IndexRestore
  BY <1>25 DEF IndexRestore, Goto, PreparationStages, PreparePcs
<1>26. CASE IndexGate
  BY <1>26 DEF IndexGate, UpdateDoc, Goto, PreparationStages, PreparePcs
<1>27. CASE IndexEnd
  BY <1>27
  DEF IndexEnd, UpdateJob, Release, WorkerIdle, PreparationStages, PreparePcs
<1>28. CASE PrepareBegin
  BY <1>28 DEF PrepareBegin, Fail
<1>29. CASE IndexBegin
  BY <1>29 DEF IndexBegin, Indexable, Fail, UpdateDoc
<1> QED
  BY <1>3, <1>4, <1>5, <1>6, <1>7, <1>8, <1>9, <1>10, <1>11, <1>12, <1>13,
     <1>14, <1>15, <1>16, <1>17, <1>18, <1>19, <1>20, <1>21, <1>22, <1>23,
     <1>24, <1>25, <1>26, <1>27, <1>28, <1>29, <1>1, <1>2
  DEF Next, WorkerStep, LockWait, Outside

\* delete_document: no file appears behind the deletion's back.
LEMMA FilesStep == ASSUME PipelineInv, Next PROVE FilesGoFirst'
<1> USE Known DEF PipelineInv, GateInv, FilesGoFirst, ApiLockedPcs, ArtsOf
<1>1. CASE WorkerStep \/ LockWait
  <2>1. CASE apc \in ApiLockedPcs
    BY <1>1, <2>1, WorkerKeepsAway
  <2>2. UNCHANGED apiVars
    BY <1>1 DEF WorkerStep, LockWait, Claim, Inspect, AlreadyReady, ReopenIndexing,
       ResumePrepared, StartPreparation, PrepareStage, FillStaging,
       Promote, Register,
       Prepared, PrepareFault, PrepareFailJob, PrepareFailDoc, Between, Escape,
       IndexLoad, IndexInit, IndexBatch, IndexValidate, Publish, Succeed,
       IndexFault, IndexRestore, IndexGate, IndexEnd, PrepareBegin, IndexBegin
  <2> QED
    BY <2>1, <2>2
<1>2. CASE Crash
  BY <1>2 DEF Crash, ApiIdle
<1>3. CASE Restart
  BY <1>3 DEF Restart
<1>4. CASE AcceptRow
  BY <1>4 DEF AcceptRow, ApiIdle
<1>5. CASE AcceptFault
  BY <1>5 DEF AcceptFault, ApiIdle
<1>6. CASE EnqueueLocked
  BY <1>6 DEF EnqueueLocked, ApiIdle, UpdateDoc, Acquire, ApiGoto
<1>7. CASE EnqueueJob
  BY <1>7 DEF EnqueueJob, Release, ApiIdle
<1>8. CASE DeleteLocked
  BY <1>8 DEF DeleteLocked, ApiIdle, Acquire, ApiGoto
<1>9. CASE DeleteSource
  BY <1>9 DEF DeleteSource, ApiGoto
<1>10. CASE DeleteArtifacts
  BY <1>10 DEF DeleteArtifacts, ApiGoto
<1>11. CASE DeleteRows
  BY <1>11 DEF DeleteRows, ApiGoto
<1>12. CASE DeleteTombstone
  BY <1>12 DEF DeleteTombstone, Release, ApiIdle
<1>13. CASE DeleteFault
  BY <1>13 DEF DeleteFault, Release, ApiIdle
<1>14. ASSUME NEW d \in Docs, AcceptSource(d)
      PROVE  FilesGoFirst'
  BY <1>14 DEF AcceptSource, Handle
<1>15. ASSUME NEW d \in Docs, Delete(d)
      PROVE  FilesGoFirst'
  BY <1>15 DEF Delete, Handle
<1>16. ASSUME NEW d \in Docs, NEW force \in BOOLEAN, Enqueue(d, force)
      PROVE  FilesGoFirst'
  BY <1>16 DEF Enqueue
<1>17. ASSUME NEW j \in Jobs, Cancel(j)
      PROVE  FilesGoFirst'
  BY <1>17 DEF Cancel
<1> QED
  BY <1>4, <1>5, <1>6, <1>7, <1>8, <1>9, <1>10, <1>11, <1>12, <1>13, <1>14,
     <1>15, <1>16, <1>17, <1>1, <1>2, <1>3
  DEF Next, WorkerStep, LockWait, HandlerStep, Request

\* Only the worker makes a document ready, and it does not while it decides.
LEMMA StaleStep == ASSUME PipelineInv, Next PROVE StaleIsNotReady'
<1> USE Known DEF PipelineInv, GateInv, StaleIsNotReady
<1>1. CASE Outside
  <2>1. UNCHANGED <<wpc, wdoc, wstate>> /\ ~Publish
    BY <1>1 DEF Outside, HandlerStep, Request, AcceptRow, AcceptFault,
       EnqueueLocked, EnqueueJob, DeleteLocked, DeleteSource, DeleteArtifacts,
       DeleteRows, DeleteTombstone, DeleteFault, AcceptSource, Delete, Enqueue,
       Cancel, Restart, Publish, Goto
  <2> QED
    BY <2>1, OnlyPublishOpens
<1>2. CASE Crash
  BY <1>2 DEF Crash, WorkerIdle
<1>3. CASE Claim
  BY <1>3 DEF Claim, PreparationStages
<1>4. CASE Inspect
  BY <1>4
  DEF Inspect, CancelRequested, UpdateJob, WorkerIdle, PreparationStages
<1>5. CASE AlreadyReady
  BY <1>5
  DEF AlreadyReady, AttachArtifact, UpdateJob, WorkerIdle, PreparationStages
<1>6. CASE ReopenIndexing
  BY <1>6 DEF ReopenIndexing, UpdateDoc, PreparationStages
<1>7. CASE ResumePrepared
  BY <1>7 DEF ResumePrepared, AttachArtifact, Goto, PreparationStages
<1>8. CASE StartPreparation
  BY <1>8 DEF StartPreparation, Goto, PreparationStages
<1>9. CASE PrepareStage
  BY <1>9
  DEF PrepareStage, FillStaging, UpdateDoc, UpdateJob, CancelRequested, Fail, Goto,
     StageAfter, PreparationStages
<1>10. CASE Promote
  BY <1>10 DEF Promote, Goto, PreparationStages
<1>11. CASE Register
  BY <1>11 DEF Register, UpdateDoc, Goto, PreparationStages
<1>12. CASE Prepared
  BY <1>12 DEF Prepared, UpdateJob, Release, Goto, PreparationStages
<1>13. CASE PrepareFault
  BY <1>13 DEF PrepareFault, Fail, PreparationStages
<1>14. CASE PrepareFailJob
  BY <1>14 DEF PrepareFailJob, UpdateJob, Goto, PreparationStages
<1>15. CASE PrepareFailDoc
  BY <1>15
  DEF PrepareFailDoc, UpdateDoc, Release, WorkerIdle, PreparationStages
<1>16. CASE Between
  BY <1>16
  DEF Between, CancelRequested, Fail, AttachArtifact, Goto, PreparationStages
<1>17. CASE Escape
  BY <1>17 DEF Escape, UpdateJob, WorkerIdle, PreparationStages
<1>18. CASE IndexLoad
  BY <1>18
  DEF IndexLoad, CancelRequested, Fail, Goto, UpdateJob, PreparationStages
<1>19. CASE IndexInit
  BY <1>19 DEF IndexInit, Goto, PreparationStages
<1>20. CASE IndexBatch
  BY <1>20 DEF IndexBatch, UpdateJob, CancelRequested, Fail, PreparationStages
<1>21. CASE IndexValidate
  BY <1>21
  DEF IndexValidate, UpdateJob, CancelRequested, Fail, Goto, PreparationStages
<1>22. CASE Publish
  BY <1>22 DEF Publish, UpdateDoc, Goto, PreparationStages
<1>23. CASE Succeed
  BY <1>23 DEF Succeed, UpdateJob, Release, WorkerIdle, PreparationStages
<1>24. CASE IndexFault
  BY <1>24 DEF IndexFault, Fail, PreparationStages
<1>25. CASE IndexRestore
  BY <1>25 DEF IndexRestore, Goto, PreparationStages
<1>26. CASE IndexGate
  BY <1>26 DEF IndexGate, UpdateDoc, Goto, PreparationStages
<1>27. CASE IndexEnd
  BY <1>27 DEF IndexEnd, UpdateJob, Release, WorkerIdle, PreparationStages
<1>28. CASE PrepareBegin
  BY <1>28 DEF PrepareBegin, Fail, AttachArtifact, Acquire, PreparationStages
<1>29. CASE IndexBegin
  BY <1>29
  DEF IndexBegin, Indexable, Fail, Acquire, AttachArtifact, UpdateDoc,
     PreparationStages
<1> QED
  BY <1>3, <1>4, <1>5, <1>6, <1>7, <1>8, <1>9, <1>10, <1>11, <1>12, <1>13,
     <1>14, <1>15, <1>16, <1>17, <1>18, <1>19, <1>20, <1>21, <1>22, <1>23,
     <1>24, <1>25, <1>26, <1>27, <1>28, <1>29, <1>1, <1>2
  DEF Next, WorkerStep, LockWait, Outside

\* A document that becomes ready has the artifact that was indexed; one that
\* was ready keeps it, or closes the gate in the same step.
LEMMA ReadyKeepsArtifact ==
    ASSUME PipelineInv, Next, NEW d \in Docs, docState'[d] = "INDEX_READY"
    PROVE  docArt'[d] = docArt[d] /\ docArt[d] \in Arts
<1> USE Known DEF PipelineInv, GateInv
<1>1. CASE docState[d] = "INDEX_READY"
  <2>0. docArt[d] \in Arts
    BY <1>1 DEF ReadyHasArtifact
  <2>1. CASE UNCHANGED docArt
    BY <2>0, <2>1
  <2>2. CASE Register
    <3>1. docState'[wdoc] # "INDEX_READY"
      BY <2>2 DEF Register, UpdateDoc
    <3> QED
      BY <2>0, <2>2, <3>1 DEF Register
  <2>3. CASE Publish
    BY <2>0, <2>3 DEF Publish, WorkerIndexes, IndexPcs
  <2>4. CASE AcceptRow
    BY <2>0, <2>4 DEF AcceptRow
  <2>5. CASE DeleteRows
    BY <2>0, <2>5 DEF DeleteRows
  <2> QED
    BY <2>1, <2>2, <2>3, <2>4, <2>5, OnlyWriters DEF Writers
<1>2. CASE Publish /\ d = wdoc
  BY <1>2 DEF Publish, WorkerIndexes, IndexPcs
<1> QED
  BY <1>1, <1>2, OnlyPublishOpens

LEMMA ReadyHasStep == ASSUME PipelineInv, Next PROVE ReadyHasArtifact'
  BY ReadyKeepsArtifact DEF ReadyHasArtifact, Arts

\* The artifact in preparation is not the active one of any document.
LEMMA BuiltIsInactive ==
    ASSUME PipelineInv, NEW d \in Docs, docArt[d] # NoArt,
           wpc \in PreparationStages \cup {"promote", "register"}
    PROVE  docArt[d] # wart
  BY DEF PipelineInv, GateInv, WorkerBuilds, ActiveArtifactIsOwned

\* The active artifact is the document's own: registered with its files in
\* place, whatever is prepared or deleted next to it.
LEMMA OwnedStep == ASSUME PipelineInv, Next PROVE ActiveArtifactIsOwned'
<1> SUFFICES ASSUME NEW d \in Docs, docArt'[d] # NoArt
             PROVE  /\ artDoc'[docArt'[d]] = d
                    /\ artRow'[docArt'[d]] # "NONE"
                    /\ artFile'[docArt'[d]] \in {"final", "gone"}
  BY DEF ActiveArtifactIsOwned
<1> DEFINE a == docArt'[d]
           goal == artDoc'[a] = d /\ artRow'[a] # "NONE"
                       /\ artFile'[a] \in {"final", "gone"}
<1> USE Known DEF PipelineInv, GateInv
<1>1. CASE Register /\ d = wdoc
  BY <1>1 DEF Register, WorkerBuilds, PreparePcs
<1>2. CASE ~(Register /\ d = wdoc)
  <2>1. a = docArt[d]
    <3>1. CASE Register
      BY <1>2, <3>1 DEF Register
    <3>2. CASE Publish
      BY <3>2 DEF Publish, WorkerIndexes, IndexPcs
    <3>3. CASE AcceptRow
      BY <3>3 DEF AcceptRow
    <3>4. CASE DeleteRows
      BY <3>4 DEF DeleteRows
    <3> QED
      BY <3>1, <3>2, <3>3, <3>4, OnlyWriters DEF Writers
  <2> HIDE DEF a
  <2>2. /\ a \in Arts /\ artDoc[a] = d /\ artRow[a] # "NONE"
        /\ artFile[a] \in {"final", "gone"}
    BY <2>1 DEF a, ActiveArtifactIsOwned
  <2>3. artDoc'[a] = d
    BY <2>2, OnlyWriters DEF Writers, PrepareBegin
  <2>4. artRow'[a] # "NONE"
    <3>1. CASE Register
      BY <2>2, <3>1 DEF Register
    <3>2. CASE Publish
      BY <2>2, <3>2 DEF Publish
    <3>3. CASE DeleteRows
      BY <2>1, <2>2, <3>3 DEF DeleteRows, ArtsOf, a
    <3> QED
      BY <2>2, <3>1, <3>2, <3>3, OnlyWriters DEF Writers
  <2>5. artFile'[a] \in {"final", "gone"}
    <3>0. wpc \in PreparationStages \cup {"promote", "register"} => a # wart
      BY <2>1, BuiltIsInactive DEF a
    <3>1. CASE PrepareBegin
      BY <2>2, <3>1 DEF PrepareBegin
    <3>2. CASE PrepareStage
      BY <2>2, <3>0, <3>2 DEF PrepareStage, FillStaging
    <3>3. CASE Promote
      BY <2>2, <3>3 DEF Promote
    <3>4. CASE PrepareFailJob
      BY <2>2, <3>4 DEF PrepareFailJob
    <3>5. CASE DeleteArtifacts
      BY <2>2, <3>5 DEF DeleteArtifacts
    <3>6. CASE DeleteFault
      BY <2>2, <3>6 DEF DeleteFault
    <3> QED
      BY <2>2, <3>1, <3>2, <3>3, <3>4, <3>5, <3>6, OnlyWriters DEF Writers
  <2> QED
    BY <2>3, <2>4, <2>5 DEF a
<1> QED
  BY <1>1, <1>2

\* The gate: a ready document keeps its whole index, because an index is only
\* rebuilt behind a gate that was closed first.
LEMMA CompleteStep == ASSUME PipelineInv, Next PROVE ReadyIsComplete'
<1> SUFFICES ASSUME NEW d \in Docs, docState'[d] = "INDEX_READY",
                    artFile'[docArt'[d]] = "final"
             PROVE  /\ idxRows'[docArt'[d]] = NChunks
                    /\ artRow'[docArt'[d]] = "INDEX_READY"
  BY DEF ReadyIsComplete
<1> DEFINE a == docArt[d]
<1> USE Known DEF PipelineInv, GateInv
<1>1. docArt'[d] = a /\ a \in Arts
  BY ReadyKeepsArtifact
<1>2. artDoc[a] = d /\ artRow[a] # "NONE" /\ artFile[a] \in {"final", "gone"}
  BY <1>1 DEF ActiveArtifactIsOwned
<1>3. CASE Publish /\ d = wdoc
  <2>1. a = wart /\ idxRows[a] = NChunks
    BY <1>1, <1>3 DEF Publish, WorkerIndexes, IndexPcs
  <2> QED
    BY <1>1, <1>3, <2>1 DEF Publish
<1>4. CASE docState[d] = "INDEX_READY" /\ ~(Publish /\ d = wdoc)
  <2> HIDE DEF a
  <2>1. artFile[a] = "final"
    <3>1. CASE PrepareBegin
      BY <1>1, <1>2, <3>1 DEF PrepareBegin
    <3>2. CASE PrepareStage
      BY <1>1, <1>2, <3>2 DEF PrepareStage, FillStaging
    <3>3. CASE Promote
      <4>1. a # wart
        BY <1>1, <3>3, BuiltIsInactive DEF Promote, a
      <4> QED
        BY <1>1, <3>3, <4>1 DEF Promote
    <3>4. CASE PrepareFailJob
      BY <1>1, <1>2, <3>4 DEF PrepareFailJob
    <3>5. CASE DeleteArtifacts
      BY <1>1, <1>2, <3>5 DEF DeleteArtifacts
    <3>6. CASE DeleteFault
      BY <1>1, <1>2, <3>6 DEF DeleteFault
    <3> QED
      BY <1>1, <3>1, <3>2, <3>3, <3>4, <3>5, <3>6, OnlyWriters DEF Writers
  <2>2. idxRows[a] = NChunks /\ artRow[a] = "INDEX_READY"
    BY <1>4, <2>1 DEF ReadyIsComplete, a
  <2>3. idxRows'[a] = NChunks
    <3>1. ASSUME wpc \in {"index_init", "index_batch"} PROVE a # wart
      BY <1>2, <1>4, <3>1
         DEF WorkerIndexes, IndexPcs, ActiveArtifactIsOwned, a
    <3>2. CASE IndexInit
      BY <1>1, <2>2, <3>1, <3>2 DEF IndexInit
    <3>3. CASE IndexBatch
      BY <1>1, <2>2, <3>1, <3>3 DEF IndexBatch
    <3> QED
      BY <2>2, <3>2, <3>3, OnlyWriters DEF Writers
  <2>4. artRow'[a] = "INDEX_READY"
    <3>1. CASE Register
      <4>1. a # wart
        BY <1>1, <3>1, BuiltIsInactive DEF Register, a
      <4> QED
        BY <1>1, <2>2, <3>1, <4>1 DEF Register
    <3>2. CASE Publish
      BY <1>1, <2>2, <3>2 DEF Publish
    <3>3. CASE DeleteRows
      <4>1. d # adoc
        BY <3>3 DEF DeleteRows
      <4> QED
        BY <1>1, <1>2, <2>2, <3>3, <4>1 DEF DeleteRows, ArtsOf
    <3> QED
      BY <2>2, <3>1, <3>2, <3>3, OnlyWriters DEF Writers
  <2> QED
    BY <1>1, <2>3, <2>4
<1> QED
  BY <1>3, <1>4, OnlyPublishOpens

\* The row of a job that was deleted never comes back.
LEMMA GoneStays ==
    ASSUME PipelineInv, Next, NEW j \in Jobs, jobState[j] = "GONE"
    PROVE  jobState'[j] = "GONE"
<1> DEFINE goal == jobState'[j] = "GONE"
<1>0. jobState \in [Jobs -> JobStates]
  BY DEF PipelineInv, TypeOK, JobTypeOK
<1> USE <1>0
<1>1. CASE Claim
  BY <1>1 DEF Claim
<1>2. CASE Inspect
  BY <1>2 DEF Inspect, CancelRequested, UpdateJob, WorkerIdle
<1>3. CASE AlreadyReady
  BY <1>3 DEF AlreadyReady, AttachArtifact, UpdateJob, WorkerIdle
<1>4. CASE ReopenIndexing
  BY <1>4 DEF ReopenIndexing, UpdateDoc
<1>5. CASE ResumePrepared
  BY <1>5 DEF ResumePrepared, AttachArtifact, Goto
<1>6. CASE StartPreparation
  BY <1>6 DEF StartPreparation, Goto
<1>7. CASE PrepareStage
  BY <1>7
  DEF PrepareStage, FillStaging, UpdateDoc, UpdateJob, CancelRequested, Fail, Goto,
     StageAfter
<1>8. CASE Promote
  BY <1>8 DEF Promote, Goto
<1>9. CASE Register
  BY <1>9 DEF Register, UpdateDoc, Goto
<1>10. CASE Prepared
  BY <1>10 DEF Prepared, UpdateJob, Release, Goto
<1>11. CASE PrepareFault
  BY <1>11 DEF PrepareFault, Fail
<1>12. CASE PrepareFailJob
  BY <1>12 DEF PrepareFailJob, UpdateJob, Goto
<1>13. CASE PrepareFailDoc
  BY <1>13 DEF PrepareFailDoc, UpdateDoc, Release, WorkerIdle
<1>14. CASE Between
  BY <1>14 DEF Between, CancelRequested, Fail, AttachArtifact, Goto
<1>15. CASE Escape
  BY <1>15 DEF Escape, UpdateJob, Active
<1>16. CASE IndexLoad
  BY <1>16 DEF IndexLoad, CancelRequested, Fail, Goto, UpdateJob
<1>17. CASE IndexInit
  BY <1>17 DEF IndexInit, Goto
<1>18. CASE IndexBatch
  BY <1>18 DEF IndexBatch, UpdateJob, CancelRequested, Fail
<1>19. CASE IndexValidate
  BY <1>19 DEF IndexValidate, UpdateJob, CancelRequested, Fail, Goto
<1>20. CASE Publish
  BY <1>20 DEF Publish, UpdateDoc, Goto
<1>21. CASE Succeed
  BY <1>21 DEF Succeed, UpdateJob, Release, WorkerIdle
<1>22. CASE IndexFault
  BY <1>22 DEF IndexFault, Fail
<1>23. CASE IndexRestore
  BY <1>23 DEF IndexRestore, Goto
<1>24. CASE IndexGate
  BY <1>24 DEF IndexGate, UpdateDoc, Goto
<1>25. CASE IndexEnd
  BY <1>25 DEF IndexEnd, UpdateJob, Release, WorkerIdle
<1>26. CASE PrepareBegin
  BY <1>26 DEF PrepareBegin, Fail, AttachArtifact, Acquire
<1>27. CASE IndexBegin
  BY <1>27 DEF IndexBegin, Indexable, Fail, Acquire, AttachArtifact, UpdateDoc
<1>28. CASE AcceptRow
  BY <1>28 DEF AcceptRow, ApiIdle
<1>29. CASE AcceptFault
  BY <1>29 DEF AcceptFault, ApiIdle
<1>30. CASE EnqueueLocked
  BY <1>30 DEF EnqueueLocked, ApiIdle, UpdateDoc, Acquire, ApiGoto
<1>31. CASE EnqueueJob
  BY <1>31 DEF EnqueueJob, Release, ApiIdle
<1>32. CASE DeleteLocked
  BY <1>32 DEF DeleteLocked, Cancellable
<1>33. CASE DeleteSource
  BY <1>33 DEF DeleteSource, ApiGoto
<1>34. CASE DeleteArtifacts
  BY <1>34 DEF DeleteArtifacts, ApiGoto
<1>35. CASE DeleteRows
  BY <1>35 DEF DeleteRows, ApiGoto
<1>36. CASE DeleteTombstone
  BY <1>36 DEF DeleteTombstone, Release, ApiIdle
<1>37. CASE DeleteFault
  BY <1>37 DEF DeleteFault, Release, ApiIdle
<1>38. ASSUME NEW d \in Docs, AcceptSource(d)
      PROVE  goal
  BY <1>38 DEF AcceptSource, Handle
<1>39. ASSUME NEW d \in Docs, Delete(d)
      PROVE  goal
  BY <1>39 DEF Delete, Handle
<1>40. ASSUME NEW d \in Docs, NEW force \in BOOLEAN, Enqueue(d, force)
      PROVE  goal
  BY <1>40 DEF Enqueue
<1>41. ASSUME NEW k \in Jobs, Cancel(k)
      PROVE  goal
  BY <1>41 DEF Cancel, Cancellable
<1>42. CASE Crash
  BY <1>42 DEF Crash, WorkerIdle, ApiIdle
<1>43. CASE Restart
  BY <1>43 DEF Restart, Interrupted
<1> QED
  BY <1>1, <1>2, <1>3, <1>4, <1>5, <1>6, <1>7, <1>8, <1>9, <1>10, <1>11,
     <1>12, <1>13, <1>14, <1>15, <1>16, <1>17, <1>18, <1>19, <1>20, <1>21,
     <1>22, <1>23, <1>24, <1>25, <1>26, <1>27, <1>28, <1>29, <1>30, <1>31,
     <1>32, <1>33, <1>34, <1>35, <1>36, <1>37, <1>38, <1>39, <1>40, <1>41,
     <1>42, <1>43 DEF Next, WorkerStep, LockWait, HandlerStep, Request

\* A deletion leaves nothing behind, and nothing of a document without a row
\* appears afterwards: the worker and the handlers work on documents that
\* have one.
LEMMA NothingLeftStep == ASSUME PipelineInv, Next PROVE NothingLeftOfDeleted'
<1> SUFFICES ASSUME NEW d \in Docs, docState'[d] = "NONE"
             PROVE  /\ \A j \in Jobs : jobDoc'[j] = d => jobState'[j] = "GONE"
                    /\ \A a \in Arts : artDoc'[a] = d =>
                           artRow'[a] = "NONE" /\ artFile'[a] = "gone"
  BY DEF NothingLeftOfDeleted, JobsOf, ArtsOf
<1> USE Known DEF PipelineInv, GateInv
<1>1. CASE DeleteRows /\ d = adoc
  BY <1>1 DEF DeleteRows, FilesGoFirst, ArtsOf, TypeOK, JobTypeOK
<1>2. CASE docState[d] = "NONE" /\ ~(DeleteRows /\ d = adoc)
  <2>0. /\ wpc \in LockedPcs => d # wdoc
        /\ apc = "enqueue_job" => d # adoc
    BY <1>2 DEF RowsOutliveLocks
  <2>1. ASSUME NEW j \in Jobs, jobDoc'[j] = d PROVE jobState'[j] = "GONE"
    <3>1. jobDoc[j] = d
      <4>1. CASE EnqueueJob
        BY <2>0, <2>1, <4>1 DEF EnqueueJob, TypeOK, JobTypeOK
      <4> QED
        BY <2>1, <4>1, OnlyWriters DEF Writers
    <3> QED
      BY <1>2, <3>1, GoneStays DEF NothingLeftOfDeleted, JobsOf
  <2>2. ASSUME NEW a \in Arts, artDoc'[a] = d
        PROVE  artRow'[a] = "NONE" /\ artFile'[a] = "gone"
    <3>1. artDoc[a] = d
      <4>1. CASE PrepareBegin
        BY <1>2, <2>2, <4>1 DEF PrepareBegin
      <4> QED
        BY <2>2, <4>1, OnlyWriters DEF Writers
    <3>2. artRow[a] = "NONE" /\ artFile[a] = "gone"
      BY <1>2, <3>1 DEF NothingLeftOfDeleted, ArtsOf
    <3>3. wpc \in PreparePcs => a # wart
      BY <2>0, <3>1 DEF WorkerBuilds, LockedPcs
    <3>4. wpc \in IndexPcs => a # wart
      BY <2>0, <3>1 DEF WorkerIndexes, LockedPcs, IndexPcs, ActiveArtifactIsOwned
    <3>5. artRow'[a] = "NONE"
      <4>1. CASE Register
        BY <3>2, <3>3, <4>1 DEF Register, PreparePcs
      <4>2. CASE Publish
        BY <3>2, <3>4, <4>2 DEF Publish, IndexPcs
      <4>3. CASE DeleteRows
        BY <3>2, <4>3 DEF DeleteRows
      <4> QED
        BY <3>2, <4>1, <4>2, <4>3, OnlyWriters DEF Writers
    <3>6. artFile'[a] = "gone"
      <4>1. CASE PrepareBegin
        BY <3>2, <4>1 DEF PrepareBegin
      <4>2. CASE PrepareStage
        BY <3>2, <3>3, <4>2 DEF PrepareStage, FillStaging, PreparePcs
      <4>3. CASE Promote
        BY <3>2, <3>3, <4>3 DEF Promote, PreparePcs
      <4>4. CASE PrepareFailJob
        BY <3>2, <4>4 DEF PrepareFailJob
      <4>5. CASE DeleteArtifacts
        BY <3>2, <4>5 DEF DeleteArtifacts
      <4>6. CASE DeleteFault
        BY <3>2, <4>6 DEF DeleteFault
      <4> QED
        BY <3>2, <4>1, <4>2, <4>3, <4>4, <4>5, <4>6, OnlyWriters DEF Writers
    <3> QED
      BY <3>5, <3>6
  <2> QED
    BY <2>1, <2>2
<1> QED
  BY <1>1, <1>2, OnlyDeletionRemoves

LEMMA GateStep == ASSUME PipelineInv, Next PROVE GateInv'
<1>1. LockIsHeld' /\ RowsOutliveLocks'
  BY LocksStep DEF PipelineInv, GateInv
<1> QED
  BY <1>1, UnusedStep, BuildStep, IndexStep, FilesStep, ReadyHasStep,
     StaleStep, CompleteStep, OwnedStep, NothingLeftStep
  DEF GateInv

LEMMA InitGateInv == Init => GateInv
<1> SUFFICES ASSUME Init PROVE GateInv
  OBVIOUS
<1>1. LockIsHeld /\ RowsOutliveLocks
  BY DEF Init, LockIsHeld, RowsOutliveLocks, LockedPcs, PreparePcs,
     PreparationStages, PrepareFailPcs, IndexPcs, IndexFailPcs, ApiLockedPcs
<1>2. UnusedIsBlank /\ WorkerBuilds /\ WorkerIndexes /\ FilesGoFirst
  BY DEF Init, UnusedIsBlank, WorkerBuilds, WorkerIndexes, FilesGoFirst,
     PreparePcs, PreparationStages, PrepareFailPcs, IndexPcs
<1>3. ReadyHasArtifact /\ StaleIsNotReady /\ ReadyIsComplete
      /\ ActiveArtifactIsOwned
  BY DEF Init, ReadyHasArtifact, StaleIsNotReady, ReadyIsComplete,
     ActiveArtifactIsOwned
<1>4. NothingLeftOfDeleted
  BY ConstantsAssumption
     DEF ConstantsAssumption, Init, NothingLeftOfDeleted, JobsOf, ArtsOf
<1> QED
  BY <1>1, <1>2, <1>3, <1>4 DEF GateInv

LEMMA PipelineInvStep == PipelineInv /\ [Next]_vars => PipelineInv'
<1> SUFFICES ASSUME PipelineInv, [Next]_vars PROVE PipelineInv'
  OBVIOUS
<1>1. IInv'
  BY StepIInv DEF PipelineInv, IInv
<1>2. CASE Next
  BY <1>1, <1>2, GateStep DEF PipelineInv, IInv
<1>3. CASE UNCHANGED vars
  <2>1. GateInv'
    BY <1>3 DEF PipelineInv, GateInv, vars, LockIsHeld, RowsOutliveLocks,
       UnusedIsBlank, WorkerBuilds, WorkerIndexes, FilesGoFirst, ArtsOf,
       ReadyHasArtifact, StaleIsNotReady, ReadyIsComplete,
       ActiveArtifactIsOwned, NothingLeftOfDeleted, JobsOf
  <2> QED
    BY <1>1, <2>1 DEF PipelineInv, IInv
<1> QED
  BY <1>2, <1>3

\* The inductive invariant of the gate holds in every reachable state.
THEOREM GateHolds == Spec => []PipelineInv
<1>1. Init => PipelineInv
  BY InitIInv, InitGateInv DEF PipelineInv, IInv
<1> QED
  BY <1>1, PipelineInvStep, PTL DEF Spec

\* The queryability gate: an INDEX_READY document whose files exist has every
\* chunk of its active artifact in the index, whatever was interrupted,
\* cancelled, retried, rebuilt or deleted before, after any crash.
THEOREM ReadyIsCompleteHolds == Spec => []ReadyIsComplete
<1>1. PipelineInv => ReadyIsComplete
  BY DEF PipelineInv, GateInv
<1> QED
  BY <1>1, GateHolds, PTL

\* delete_document, complete or cut short: of a document without a row there
\* is no job, no artifact row and no artifact directory.
THEOREM NothingLeftHolds == Spec => []NothingLeftOfDeleted
<1>1. PipelineInv => NothingLeftOfDeleted
  BY DEF PipelineInv, GateInv
<1> QED
  BY <1>1, GateHolds, PTL

\* The catalog never points at an artifact of another document, nor at one
\* whose directory is not in place yet.
THEOREM ActiveIsOwnedHolds == Spec => []ActiveArtifactIsOwned
<1>1. PipelineInv => ActiveArtifactIsOwned
  BY DEF PipelineInv, GateInv
<1> QED
  BY <1>1, GateHolds, PTL

-----------------------------------------------------------------------------
(* The gate stays open while nobody holds the lock.                        *)

LEMMA StableStep ==
    ASSUME PipelineInv, Next, NEW d \in Docs, docState[d] = "INDEX_READY",
           lock[d] = "free"
    PROVE  docState'[d] = "INDEX_READY" \/ lock'[d] # "free"
<1> DEFINE goal == docState'[d] = "INDEX_READY" \/ lock'[d] # "free"
<1> USE Known DEF PipelineInv, GateInv
<1>0. (wpc \in LockedPcs => d # wdoc) /\ (apc \in ApiLockedPcs => d # adoc)
  BY DEF LockIsHeld
<1> USE <1>0 DEF LockedPcs, PreparePcs, PreparationStages, PrepareFailPcs,
        IndexPcs, IndexFailPcs, ApiLockedPcs
<1>1. CASE UNCHANGED docState
  BY <1>1
<1>2. CASE ReopenIndexing
  BY <1>2 DEF ReopenIndexing, UpdateDoc, StaleIsNotReady
<1>3. CASE PrepareStage
  BY <1>3
  DEF PrepareStage, FillStaging, UpdateDoc, UpdateJob, CancelRequested, Fail, Goto,
     StageAfter
<1>4. CASE Register
  BY <1>4 DEF Register, UpdateDoc, Goto
<1>5. CASE PrepareFailDoc
  BY <1>5 DEF PrepareFailDoc, UpdateDoc, Release, WorkerIdle
<1>6. CASE IndexBegin
  BY <1>6 DEF IndexBegin, Indexable, Fail, Acquire, AttachArtifact, UpdateDoc
<1>7. CASE Publish
  BY <1>7 DEF Publish, UpdateDoc, Goto
<1>8. CASE IndexGate
  BY <1>8 DEF IndexGate, UpdateDoc, Goto
<1>9. CASE AcceptRow
  BY <1>9 DEF AcceptRow, RowsOutliveLocks
<1>10. CASE EnqueueLocked
  BY <1>10 DEF EnqueueLocked, ApiIdle, UpdateDoc, Acquire, ApiGoto
<1>11. CASE DeleteRows
  BY <1>11 DEF DeleteRows, ApiGoto
<1> QED
  BY <1>2, <1>3, <1>4, <1>5, <1>6, <1>7, <1>8, <1>9, <1>10, <1>11,
     OnlyWriters, <1>1 DEF Writers

\* What is decided from a stale read (pipeline.py, Case 2) and what a crash
\* leaves behind never close the gate of a ready document: only somebody who
\* holds its lock does.
THEOREM ReadyIsStableHolds == Spec => ReadyIsStable
<1> DEFINE A == \A d \in Docs : docState[d] = "INDEX_READY" /\ lock[d] = "free" =>
                    docState'[d] = "INDEX_READY" \/ lock'[d] # "free"
<1>1. PipelineInv /\ [Next]_vars => [A]_vars
  BY StableStep
<1> QED
  BY <1>1, GateHolds, PTL DEF Spec, ReadyIsStable

-----------------------------------------------------------------------------
(* The query.                                                              *)

\* A query is a reader: its steps leave the pipeline alone, and a step of the
\* pipeline goes on whatever the query sees of it.
LEMMA QueryOnlyReads == [QNext]_allVars => [Next]_vars
  BY DEF QNext, allVars

\* As long as nobody touches its artifact, a query reads the index it found
\* complete when it looked at the gate.
LEMMA QueryStepKnows ==
    ASSUME PipelineInv, QueryKnows, QueryStep, UNCHANGED vars PROVE QueryKnows'
<1> USE Known DEF PipelineInv, GateInv, QueryKnows
<1>0. UNCHANGED <<artDoc, artFile, idxRows>>
  BY DEF vars
<1>1. ASSUME NEW d \in Docs, QueryDocument(d) PROVE QueryKnows'
  <2>1. /\ docArt[d] \in Arts /\ artDoc[docArt[d]] = d
        /\ artFile[docArt[d]] \in {"final", "gone"}
        /\ artFile[docArt[d]] = "final" => idxRows[docArt[d]] = NChunks
    BY <1>1 DEF QueryDocument, ReadyHasArtifact, ActiveArtifactIsOwned,
       ReadyIsComplete
  <2> QED
    BY <1>0, <1>1, <2>1 DEF QueryDocument
<1>2. CASE QueryArtifact
  BY <1>0, <1>2 DEF QueryArtifact, QueryReset
<1>3. CASE QueryDense
  BY <1>0, <1>3 DEF QueryDense, QueryReset
<1>4. CASE QueryLexical
  BY <1>0, <1>4, ConstantsAssumption
  DEF QueryLexical, QueryReset, ConstantsAssumption
<1>5. CASE QueryDone
  BY <1>5 DEF QueryDone, QueryReset
<1> QED
  BY <1>1, <1>2, <1>3, <1>4, <1>5 DEF QueryStep

\* A step of the pipeline that touches the artifact ends the quiet; no other
\* one makes the artifact another document's.
LEMMA DisturbKnows ==
    ASSUME PipelineInv, QueryKnows, Next, Disturb PROVE QueryKnows'
<1>1. CASE up'
  <2> SUFFICES ASSUME quiet'
               PROVE  /\ qpc' # "idle" =>
                             /\ qart' \in Arts /\ artDoc'[qart'] = qdoc'
                             /\ artFile'[qart'] \in {"final", "gone"}
                             /\ artFile'[qart'] = "final" =>
                                    idxRows'[qart'] = NChunks
                      /\ qpc' \in {"lexical", "answered"} => qdense' = NChunks
                      /\ qpc' = "answered" => qlexical' = NChunks
    BY DEF QueryKnows
  <2>1. /\ quiet
        /\ qpc # "idle" => /\ idxRows'[qart] = idxRows[qart]
                           /\ artFile'[qart] = artFile[qart]
        /\ UNCHANGED <<qpc, qdoc, qart, qdense, qlexical>>
    BY <1>1 DEF Disturb
  <2>2. /\ qpc # "idle" =>
               /\ qart \in Arts /\ artDoc[qart] = qdoc
               /\ artFile[qart] \in {"final", "gone"}
               /\ artFile[qart] = "final" => idxRows[qart] = NChunks
        /\ qpc \in {"lexical", "answered"} => qdense = NChunks
        /\ qpc = "answered" => qlexical = NChunks
    BY <2>1 DEF QueryKnows
  <2>3. qpc # "idle" => artDoc'[qart] = artDoc[qart]
    <3>1. CASE PrepareBegin
      BY <2>2, <3>1, Known DEF PrepareBegin, PipelineInv
    <3> QED
      BY <3>1, OnlyWriters DEF Writers
  <2> QED
    BY <2>1, <2>2, <2>3
<1>2. CASE ~up'
  BY <1>2 DEF Disturb, QueryReset, QueryKnows
<1> QED
  BY <1>1, <1>2

LEMMA StepQueryKnows ==
    PipelineInv /\ QueryKnows /\ [QNext]_allVars => QueryKnows'
<1> SUFFICES ASSUME PipelineInv, QueryKnows, [QNext]_allVars PROVE QueryKnows'
  OBVIOUS
<1>1. CASE Next /\ Disturb
  BY <1>1, DisturbKnows
<1>2. CASE QueryStep /\ UNCHANGED vars
  BY <1>2, QueryStepKnows
<1>3. CASE UNCHANGED allVars
  BY <1>3 DEF allVars, vars, queryVars, QueryKnows
<1> QED
  BY <1>1, <1>2, <1>3 DEF QNext

\* With a reader beside it, the pipeline is the pipeline: what is proved of
\* Spec holds of QSpec.
THEOREM QueryOnlyObserves == QSpec => Spec
  BY QueryOnlyReads, PTL DEF QSpec, Spec, QInit

\* A query that no rebuild or deletion overtook has read the whole index of
\* its document's own artifact in both branches: the row is checked once,
\* without a lock, and that is enough for it.
THEOREM QuietQueryIsCompleteHolds == QSpec => []QuietQueryIsComplete
<1>1. QInit => QueryKnows
  BY DEF QInit, QueryInit, QueryKnows
<1>2. QueryKnows => QuietQueryIsComplete
  BY DEF QueryKnows, QuietQueryIsComplete
<1>3. QSpec => []PipelineInv
  BY QueryOnlyObserves, GateHolds, PTL
<1> QED
  BY <1>1, <1>2, <1>3, StepQueryKnows, PTL DEF QSpec
=============================================================================
