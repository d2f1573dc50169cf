---------------------------- MODULE DocumentsPage ----------------------------
(***************************************************************************)
(* The documents page of the browser and the documents of the device it    *)
(* shows: one list request at a time, a chain of polls while something on  *)
(* the page is being processed, an upload that is tracked until its end,   *)
(* and the actions of a row, each a coroutine that goes on after every     *)
(* answer with what the page was when it began.  The device's worker and   *)
(* its outages move between the steps.                                     *)
(***************************************************************************)
EXTENDS Integers, FiniteSets

CONSTANTS Docs, NoDoc, MaxOutages, MaxHides

ASSUME PageAssumption ==
    /\ NoDoc \notin Docs /\ MaxOutages \in Nat /\ MaxHides \in Nat
    /\ Docs \cap {"none", "user", "poll", "upload", "again"} = {}    \* ids, not callers

VARIABLES
    rec,       \* the device's documents: row and latest job
    failing,   \* documents whose indexing has failed but whose job has not ended
    online, outages,
    used,      \* the ids that were given to an upload
    shown,     \* the page's documents
    tracked,   \* trackedUpload
    ready,     \* computeReady
    load,      \* the list request in flight, loadInFlight
    timers,    \* polls that wait for their time
    visible, hides,
    up,        \* the upload coroutine
    act        \* rowAction, and how far its coroutine is

device == <<rec, failing, online, outages>>
polling == <<timers, visible, hides>>
page == <<shown, tracked, ready, load, polling>>
pageVars == <<device, used, page, up, act>>

ActiveJobs == {"QUEUED", "RUNNING", "CANCEL_REQUESTED"}
NoRow == [state |-> "NONE", job |-> "none"]
NoLoad == [by |-> "none", at |-> "none", live |-> FALSE,
           rows |-> [d \in Docs |-> NoRow]]
Resting == [at |-> "idle", stale |-> FALSE]

PageInit ==
    /\ rec = [d \in Docs |-> NoRow] /\ failing = {} /\ online = TRUE /\ outages = 0
    /\ used = {} /\ shown = rec /\ tracked = NoDoc /\ ready = FALSE
    /\ load = [NoLoad EXCEPT !.by = "user", !.at = "asked"]
    /\ timers = 0 /\ visible = TRUE /\ hides = 0
    /\ up = [at |-> "idle", doc |-> NoDoc] /\ act = [d \in Docs |-> Resting]

(***************************************************************************)
(* What the page makes of a row                                            *)
(***************************************************************************)
\* getLocalDocumentDisplayState; PROCESSING is the state that is active.
Display(row) ==
    IF row.state = "INDEX_READY" THEN "READY"
    ELSE IF row.job \in {"FAILED", "CANCELLED"} THEN "FAILED"
    ELSE IF row.job \in ActiveJobs THEN "PROCESSING"
    ELSE IF row.state = "FAILED" THEN "FAILED"
    ELSE IF row.state = "PREPARED_NOT_INDEXED" THEN "PREPARED"
    ELSE "PROCESSING"

Listed(rows) == {d \in Docs : rows[d] # NoRow}
CanIndex(row) == Display(row) \in {"READY", "PREPARED"}

\* hasActivePipeline
HasActive(rows, t) ==
    t # NoDoc \/ \E d \in Listed(rows) : Display(rows[d]) = "PROCESSING"

\* The effect that tracks an upload: it is reported once it is ready or failed.
AfterReport(rows, t) ==
    IF t \in Listed(rows) /\ Display(rows[t]) \in {"READY", "FAILED"} THEN NoDoc ELSE t

\* An effect that has been cleaned up leaves its poll in flight behind.
Cleaned(l) == IF HasActive(shown', tracked') THEN l ELSE [l EXCEPT !.live = FALSE]

\* A commit of the page, and the effects that follow it: polling begins with
\* the first thing that is active and stops with the last.  A poll whose
\* effect is gone does not schedule another one; `again` polls do.
Commit(rows, t, again) ==
    /\ shown' = rows /\ tracked' = AfterReport(rows, t)
    /\ timers' = IF ~HasActive(shown', tracked') THEN 0
                 ELSE IF HasActive(shown, tracked) THEN timers + again ELSE 1

(***************************************************************************)
(* The device                                                              *)
(***************************************************************************)
Set(d, state, job) == rec' = [rec EXCEPT ![d] = [state |-> state, job |-> job]]
Busy(d) == rec[d].job = "RUNNING" /\ rec[d].state \in {"PROCESSING", "INDEXING"}

\* The worker thread: one job after the other, its stages, and its end.
WorkerStep(d) ==
    /\ online
    /\ \/ /\ rec[d].job = "QUEUED" /\ \A e \in Docs : rec[e].job # "RUNNING"
          /\ Set(d, rec[d].state, "RUNNING") /\ UNCHANGED failing
       \/ /\ rec[d].job = "RUNNING" /\ d \notin failing /\ UNCHANGED failing
          /\ \/ rec[d].state \in {"ACCEPTED", "FAILED"} /\ Set(d, "PROCESSING", "RUNNING")
             \/ rec[d].state = "PROCESSING" /\ Set(d, "PREPARED_NOT_INDEXED", "RUNNING")
             \/ rec[d].state = "PROCESSING" /\ Set(d, "PROCESSING", "FAILED")
             \/ rec[d].state = "PREPARED_NOT_INDEXED" /\ Set(d, "INDEXING", "RUNNING")
             \/ rec[d].state = "INDEXING" /\ Set(d, "INDEX_READY", "RUNNING")
             \/ rec[d].state = "INDEX_READY" /\ Set(d, "INDEX_READY", "SUCCEEDED")
       \/ /\ rec[d].job = "RUNNING" /\ rec[d].state = "INDEXING"
          /\ Set(d, "PREPARED_NOT_INDEXED", "RUNNING") /\ failing' = failing \cup {d}
       \/ /\ d \in failing /\ failing' = failing \ {d}
          /\ Set(d, "PREPARED_NOT_INDEXED", "FAILED")
       \/ /\ rec[d].state = "PROCESSING" /\ rec[d].job = "FAILED"
          /\ Set(d, "FAILED", "FAILED") /\ UNCHANGED failing
    /\ UNCHANGED <<online, outages, used, page, up, act>>

Outage ==
    /\ online /\ outages < MaxOutages
    /\ online' = FALSE /\ outages' = outages + 1
    /\ UNCHANGED <<rec, failing, used, page, up, act>>

\* The service starts again and queues what was interrupted.
Back ==
    /\ ~online /\ online' = TRUE /\ failing' = {}
    /\ rec' = [d \in Docs |-> IF rec[d].job = "RUNNING"
                              THEN [rec[d] EXCEPT !.job = "QUEUED"] ELSE rec[d]]
    /\ UNCHANGED <<outages, used, page, up, act>>

\* Handlers run one at a time; list_documents is in two steps for the worker.
Serves == online /\ load.at # "rows"

\* enqueue_pipeline: a job that is active already is the answer.
Enqueue(d, state) ==
    Set(d, state, IF rec[d].job \in ActiveJobs THEN rec[d].job ELSE "QUEUED")

(***************************************************************************)
(* The list                                                                *)
(***************************************************************************)
\* The head of load(), which returns at once while a request is in flight.
Ask(by) ==
    load' = IF load = NoLoad
            THEN [NoLoad EXCEPT !.by = by, !.at = "asked", !.live = TRUE] ELSE load

\* Only a coroutine whose request it is waits for the answer.
Waits(at) == IF load = NoLoad THEN at ELSE "idle"

\* The page is opened, or its user presses Refresh.
Refresh ==
    /\ load = NoLoad /\ Ask("user")
    /\ UNCHANGED <<device, used, shown, tracked, ready, polling, up, act>>

\* list_documents reads the rows ...
ListRows ==
    /\ online /\ load.at = "asked"
    /\ load' = [load EXCEPT !.at = "rows",
                            !.rows = [d \in Docs |-> [rec[d] EXCEPT !.job = "none"]]]
    /\ UNCHANGED <<device, used, shown, tracked, ready, polling, up, act>>

\* ... and then, row by row, the latest job.
ListJobs ==
    /\ online /\ load.at = "rows"
    /\ load' = [load EXCEPT !.at = "answered",
                    !.rows = [d \in Docs |-> [@[d] EXCEPT !.job = rec[d].job]]]
    /\ UNCHANGED <<device, used, shown, tracked, ready, polling, up, act>>

\* The coroutine that waits for the list goes on.
Resume == /\ up' = IF load.by \in {"upload", "again"} THEN [at |-> "idle", doc |-> NoDoc] ELSE up
          /\ act' = IF load.by \in Docs THEN [act EXCEPT ![load.by] = Resting] ELSE act

\* Mutant of Again: a poll that has failed is not repeated.
AgainAfterSuccess ==
    IF load.by = "poll" /\ load.live /\ load.at = "answered" THEN 1 ELSE 0

\* A poll schedules the next one, unless its effect has been cleaned up.
Again == IF load.by = "poll" /\ load.live THEN 1 ELSE 0

Loaded ==
    /\ load.at = "answered" /\ ready' = TRUE /\ load' = NoLoad
    /\ Commit(load.rows, tracked, Again) /\ Resume
    /\ UNCHANGED <<device, used, visible, hides>>

\* The request fails; an upload asks for the list once more.
LoadFailed ==
    /\ load # NoLoad /\ ~online /\ ready' = FALSE
    /\ Commit(shown, tracked, Again)
    /\ IF load.by = "upload"
       THEN /\ load' = [NoLoad EXCEPT !.by = "again", !.at = "asked"]
            /\ up' = [up EXCEPT !.at = "again"] /\ UNCHANGED act
       ELSE load' = NoLoad /\ Resume
    /\ UNCHANGED <<device, used, visible, hides>>

\* poll(): while a request is in flight load() returns and the poll is
\* scheduled again, as it is while the tab is hidden.
Poll ==
    /\ timers > 0 /\ visible /\ load = NoLoad
    /\ timers' = timers - 1 /\ Ask("poll")
    /\ UNCHANGED <<device, used, shown, tracked, ready, visible, hides, up, act>>

Hide ==
    /\ visible /\ hides < MaxHides /\ visible' = FALSE /\ hides' = hides + 1
    /\ UNCHANGED <<device, used, shown, tracked, ready, load, timers, up, act>>

\* visibilitychange: the timer set last is replaced; when it has fired
\* already and its poll is in flight, this adds a second chain of polls.
Show ==
    /\ ~visible /\ visible' = TRUE
    /\ \/ timers' = timers /\ (timers > 0 \/ Again = 0)
       \/ timers' = timers + 1 /\ Again = 1
    /\ UNCHANGED <<device, used, shown, tracked, ready, load, hides, up, act>>
(***************************************************************************)
(* The upload                                                              *)
(***************************************************************************)
\* Every upload has an id of its own.  An upload that the page refuses, as it
\* believes the device to be away, asks for the list all the same.
StartUpload(d) ==
    /\ up.at = "idle" /\ d \notin used
    /\ IF ready
       THEN /\ used' = used \cup {d} /\ up' = [at |-> "source", doc |-> d]
            /\ UNCHANGED load
       ELSE /\ Ask("again") /\ up' = [at |-> Waits("again"), doc |-> NoDoc]
            /\ UNCHANGED used
    /\ UNCHANGED <<device, shown, tracked, ready, polling, act>>

\* accept_document and, with the next request, the job; or a refusal.
UploadServed ==
    /\ Serves /\ up.at \in {"source", "prepare"}
    /\ \/ up.at = "source" /\ Set(up.doc, "ACCEPTED", "none")
          /\ up' = [up EXCEPT !.at = "prepare"]
       \/ /\ up.at = "prepare" /\ rec[up.doc] # NoRow
          /\ Enqueue(up.doc, rec[up.doc].state)
          /\ up' = [up EXCEPT !.at = "accepted"]
       \/ /\ up.at = "source" \/ rec[up.doc] = NoRow
          /\ up' = [up EXCEPT !.at = "refused"] /\ UNCHANGED rec
    /\ UNCHANGED <<failing, online, outages, used, page, act>>

UploadAccepted ==
    /\ up.at = "accepted"
    /\ Commit(shown, up.doc, 0)
    /\ up' = [at |-> Waits("load"), doc |-> NoDoc]
    /\ load' = IF load = NoLoad THEN [load EXCEPT !.by = "upload", !.at = "asked", !.live = TRUE]
               ELSE Cleaned(load)
    /\ UNCHANGED <<device, used, ready, visible, hides, act>>

\* Either request has failed, or its answer is lost.
UploadFailed ==
    /\ \/ up.at = "refused"
       \/ up.at \in {"source", "prepare", "accepted"} /\ ~online
    /\ Ask("again") /\ up' = [at |-> Waits("again"), doc |-> NoDoc]
    /\ UNCHANGED <<device, used, shown, tracked, ready, polling, act>>

(***************************************************************************)
(* The actions of a row                                                    *)
(***************************************************************************)
\* A click on Index or Re-index.
StartIndex(d) ==
    /\ act[d] = Resting /\ ready /\ d \in Listed(shown) /\ CanIndex(shown[d])
    /\ act' = [act EXCEPT ![d].at = "index"]
    /\ UNCHANGED <<device, used, page, up>>

\* remove() is what it was when Delete was confirmed: it knows the upload that
\* was tracked then.
StartDelete(d) ==
    /\ act[d] = Resting /\ ready /\ d \in Listed(shown)
    /\ act' = [act EXCEPT ![d] = [at |-> "delete", stale |-> tracked = d]]
    /\ UNCHANGED <<device, used, page, up>>

\* The handlers: a forced re-index closes the gate of a document that is
\* READY; a deletion waits until the worker has released the document.
RowServed(d) ==
    /\ Serves /\ act[d].at \in {"index", "delete"}
    /\ IF rec[d] = NoRow
       THEN act' = [act EXCEPT ![d] = Resting] /\ UNCHANGED rec
       ELSE /\ ~Busy(d) /\ d \notin failing
            /\ act' = [act EXCEPT ![d].at = "done"]
            /\ IF act[d].at = "delete" THEN rec' = [rec EXCEPT ![d] = NoRow]
               ELSE Enqueue(d, IF rec[d].state = "INDEX_READY"
                               THEN "PREPARED_NOT_INDEXED" ELSE rec[d].state)
    /\ UNCHANGED <<failing, online, outages, used, page, up>>

RowDone(d) ==
    /\ act[d].at = "done"
    /\ act' = [act EXCEPT ![d] = [at |-> Waits("load"), stale |-> FALSE]]
    /\ Commit(shown, IF act[d].stale THEN NoDoc ELSE tracked, 0)
    /\ load' = IF load = NoLoad THEN [load EXCEPT !.by = d, !.at = "asked", !.live = TRUE]
               ELSE Cleaned(load)
    /\ UNCHANGED <<device, used, ready, visible, hides, up>>

\* The error is shown; the list is not asked for.
RowFailed(d) ==
    /\ act[d].at \in {"index", "delete", "done"} /\ ~online
    /\ act' = [act EXCEPT ![d] = Resting]
    /\ UNCHANGED <<device, used, page, up>>

-----------------------------------------------------------------------------
LoadStep == ListRows \/ ListJobs \/ Loaded \/ LoadFailed
UploadStep == UploadServed \/ UploadAccepted \/ UploadFailed
RowStep(d) == RowServed(d) \/ RowDone(d) \/ RowFailed(d)

PageNext ==
    \/ LoadStep \/ Refresh \/ Poll \/ Hide \/ Show \/ Outage \/ Back
    \/ UploadStep
    \/ \E d \in Docs : \/ WorkerStep(d) \/ StartUpload(d) \/ RowStep(d)
                       \/ StartIndex(d) \/ StartDelete(d)

PageSpec == PageInit /\ [][PageNext]_pageVars

\* Requests are answered or fail; timers run out; the user looks at the tab
\* again; the worker goes on; the service is started again.  A request that
\* other requests or the worker hold up again and again is served in the end.
Fairness ==
    /\ WF_pageVars(LoadStep) /\ WF_pageVars(Poll) /\ WF_pageVars(Show \/ Back)
    /\ SF_pageVars(UploadStep)
    /\ \A d \in Docs : SF_pageVars(RowStep(d)) /\ WF_pageVars(WorkerStep(d))

FairPageSpec == PageSpec /\ Fairness

-----------------------------------------------------------------------------
States == {"NONE", "ACCEPTED", "PROCESSING", "PREPARED_NOT_INDEXED", "INDEXING",
           "INDEX_READY", "FAILED"}
Rows == [state : States, job : {"none", "SUCCEEDED", "FAILED"} \cup ActiveJobs]

\* Every variable has its type.
PageTypeOK ==
    /\ rec \in [Docs -> Rows] /\ shown \in [Docs -> Rows] /\ load.rows \in [Docs -> Rows]
    /\ failing \subseteq Docs /\ used \subseteq Docs /\ tracked \in Docs \cup {NoDoc}
    /\ load.by \in {"none", "user", "poll", "upload", "again"} \cup Docs
    /\ timers \in 0..(1 + MaxHides) /\ ready \in BOOLEAN
    /\ up.at \in {"idle", "source", "prepare", "accepted", "refused", "load", "again"}
    /\ \A d \in Docs : act[d].at \in {"idle", "index", "delete", "done", "load"}

\* While the page shows something that is being processed, or tracks an
\* upload, a poll waits or is in flight: no failed request, hidden tab or
\* overtaken list ends the polling.
ActiveIsFollowed ==
    HasActive(shown, tracked) => timers > 0 \/ Again = 1

\* What is not true: a deleted document leaves the page.
DeletedDisappears ==
    \A d \in Docs : []<>(d \notin Listed(shown) \/ rec[d] # NoRow)
=============================================================================
