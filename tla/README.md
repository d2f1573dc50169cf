# Verification of ZKD Compute and its platform

TLA+ models of this repository, checked with TLC on small instances and, where
it matters most, proved with TLAPS for every value of the constants. The source
is the reference: every definition in `PROJECT.json`'s `map` names the lines it
translates, and every property of a run has a mutant, a plausible mistake in one of those
definitions that breaks it.

## The system

*ZKD Compute* (`src/app/local_compute`) is a process on the user's machine. It
owns the documents: a browser talks to it over a loopback HTTP API, a worker
thread turns PDFs into searchable artifacts, a SQLite *catalog* records what
exists, and a *control channel* thread reports metadata to the platform. *The
platform* (`src/app`, `src/cloud`) keeps accounts, devices and chats, answers
questions and, in its older deployment, processes documents itself with Redis
queues, PostgreSQL and MinIO. *The evaluation* (`src/evaluation`) decides which
prompts and retrieval strategies may be used.

| Component | State it keeps | Operations | Interacts with | What is hard | What makes it correct |
|---|---|---|---|---|---|
| Local document pipeline | `local_documents`, `local_jobs`, `local_artifacts`, the outbox; source and artifact directories; an index inside each artifact | accept, prepare, index, cancel, delete; claim; reconcile | handlers and worker share catalog and files under one lock per document | unconditional updates, unlocked reads, crash between files and rows, rebuild in place | one active job, terminal states stay, READY means complete, nothing of a deleted document survives |
| Local queries and answers | none | read rows and index, fuse, expand, render claims, choose a provider | reads the catalog without locks; the user's cloud | the index is rebuilt under the reader; a provider fails after it was ready | complete indexes are read, evidence leaves only with permission |
| Legal text | none | clean, reconstruct, parse, chunk, resolve paths | preparation, platform processing | boundaries of units, pages and tokens; old data | units nest, no word lost, chunks obey the token contract |
| Local API gate | none | origin policy, preflight, route table, authentication | the page, the sessions | the same routes are described in four places | only what is allowed reaches a handler, and all the page needs |
| Local sessions and grants | sessions and nonces in memory, consumed grants | validate and consume a grant, check a proof | platform-signed grants, control thread, clock | single use, windows, order of creating and consuming | one session per grant, no replay, quiet after revocation |
| Control channel and outbox | outbox rows, channel state; the platform's manifests | heartbeat, send, back off, revoke, restart | the pipeline queues, the platform answers or not | lost answers, late requests, two threads | nothing is marked that was not stored, all is sent in the end |
| Chat turns | sessions, turns, messages | begin, finalize, mark, recover, delete | streams, PostgreSQL row locks | lock order, late finalization, dropped streams | one active turn, done means saved |
| Platform upload and workers | documents, jobs, grants, chunks, index rows, RQ tasks, objects | upload, ingest, process, index, collect, reconcile | PostgreSQL, MinIO, Redis without a common transaction | tasks repeated or lost, a slow worker beside its successor | no silent gap, addresses valid, jobs settle, orphans go |
| Account deletion, backup, restore | account rows, tombstones, a backup | delete, collect, back up, restore, reconcile | all stores, the cross-store barrier | three stores, crashes, a restore of what was deleted | deleted stays deleted, shared survives |
| Rate limits and admission | buckets and leases in Redis | admit, release, expire | every generation | streams that end anywhere, lost calls | exact rates, leases are their holders', capacity returns |
| Platform retrieval, context, answer text | none | fuse, expand, fit the budget, cite, filter the stream | model runtimes | ties, limits, status lines in pieces | nothing relevant is lost, stream and answer agree |
| Browser client | devices, selected device, session, one bootstrap | discover, select, bootstrap, request, login, logout | platform, device | every await; users change, services restart | sessions belong to their user, calls end |
| Documents page | rows shown, tracked upload, timers | load, poll, upload, index, delete | local API | overtaken lists, hidden tabs, outages | what is in work is followed and reported |
| Evaluation | progress files, reports | run stages, resume, choose a winner; measure, aggregate, replay | model services, operator | kills, torn files, edited prompts | safe winners, no record lost |
| Cloud worker, launcher, installer, tools, migrations | | | | | not modelled, see the end |

The hazards of this code, each at its line, are in `PROJECT.json`.

## The plan

1. The core: `LocalPipeline`, its contract, its queries, its proofs. **Done.**
2. Everything that runs concurrently: `ControlChannel`, `ChatTurns`,
   `LocalSessions`, `PlatformWorkers`, `AccountRecovery`, `AnswerRequests`,
   `BrowserClient`, `DocumentsPage`, `ExperimentRuns`. **Done.**
3. The pure algorithms: `LegalText`, `LegalPaths`, `EvidenceSelection`,
   `AnswerText`, `LocalAnswers`, `LocalGate`, `EvidenceMeasures`, run by
   `Algorithms`. **Done.**
4. Proofs for the core and for the components around it: the gate of the
   catalog and its queries, the control channel, the chat, grants and proofs,
   the browser's session, leases and buckets, deletion and restore, the tasks of
   the platform, the documents page, the experiment runners. **Done.** Every
   safety property of a run has its theorem, but for those of `Algorithms`; of these,
   the local gate and the way of the evidence are proved as operators.
5. The cloud worker, whose checks and writes are separate statements, and
   pairing.

## The modules

Definitions commented as mutants are the mistakes the properties are tested
with; no specification uses them. Each action is one durable step: a committed
transaction, one answer, one rename. Reads that decide a step are in its guard,
except where the code reads first and acts later; then the value read is kept.

**`LocalPipeline`** has one variable per durable column or directory and one
per local variable of the two threads. `docState`, `docArt`, `jobState`,
`jobFlag`, `jobDoc`, `jobArt`, `artRow` are columns of the catalog; `source`,
`artFile` are directories; `idxMeta`, `idxRows` are inside an artifact's own
database; `tombstones` is the outbox; `lock` is `LocalCatalog.document_lock`.
`wpc` .. `werr` are the worker thread, `apc`, `adoc`, `aforce` the handler that
runs: handlers are coroutines that never await between their first and last
database step, so they run one at a time, and one that waits for a lock keeps
all others waiting. The worker: `Claim`, `Inspect`, then one of the cases of
`_process` (`AlreadyReady`, `ReopenIndexing`, `ResumePrepared`,
`StartPreparation`); preparation `PrepareBegin` .. `Prepared` with
`PrepareFault` and its handlers; `Between` the phases; indexing `IndexBegin` ..
`Succeed` with `IndexFault` and its handlers; `Escape`, the last handler. The
API: `AcceptSource` .. , `Enqueue` .. , `Cancel`, `Delete` .. . The process:
`Crash`, `Restart`. **`JobContract`** is what a browser that polls a job may
rely on; `ImplementsJobContract` says that `LocalPipeline` implements it.
**`LocalQuery`** adds the retrieval thread, whose reads are steps between the
steps of the pipeline.

**`ControlChannel`** has the outbox, the object of class `ControlChannel`, the
runtime's state and endpoint generation, the launcher (`mpc`), and any number of
threads that run `_run`. A request is `Authenticate`d and `Handle`d by the
platform in two transactions; it may stay `Unanswered` and reach the platform
`HandleLate`. `Refused` with `RevokeRuntime`, and `Outdated` with
`SetUpdateRequired`, are the two ends of a channel.

**`ChatTurns`** is one chat session. Row locks are not variables: `HoldsSession`
and `HoldsTurn` say which program counters hold them. `AbortOne` is what
PostgreSQL does with the deadlock of `finalize_turn` and the other requests,
`DropStream` a generator closed at a `yield` or never started. The database
session has `autoflush=False`, so that the recovery of a stale turn is invisible
to the queries after it and `DeleteBusy` and `BeginBusy` roll it back. The
handlers of `IntegrityError` are unreachable: `OneActiveTurn` is proved without
the unique indexes.

**`PlatformWorkers`** is one file on the platform. `doc`, `uri`, `grants`,
`ing`, `proc`, `idx`, `chunks`, `indexed` are rows, `object` is in MinIO,
`queued` and `left` are RQ. The steps of an upload are `Lookup` ..
`SetPending`, those of the workers `Ingest..`, `Process..`, `Index..`, `Gc..`,
with `WorkerFault` (an exception), `WorkerCrash` (a process that dies, or is only
slow, so that its task is delivered again) and `Raise` (RQ's retry). `Requeue` and
`FailStale` are the operator's reconciliation, `ApiStartup` the one at start-up.
The model lets the ingestion, processing, indexing and collection tasks
overlap, as several worker processes would.

**`AccountRecovery`** is one account with one document that may be shared. `db`
is everything a backup copies, `object` MinIO, `tomb` the ledger outside both.
The deletion request (`Request..`), its worker (`Worker..`), the collection
(`Gc..`), the reconciliations (`Startup..`, `Operator..`), the backup under the
exclusive barrier (`BackupBegin`, `BackupStep`), the loss of all stores
(`Disaster`) and the restore with its replay of tombstones (`Restore..`). `rest`
says what else is in the bucket that a restore finds: it fills an empty one
(`Empty`), accepts one that is exactly the backup's (`Exact`) and refuses any other,
also the half-filled one of its own earlier attempt, until the operator empties
it (`EmptyBucket`).

**`LocalSessions`** is the platform's grant, the handler that turns it into a
session (`ValidateGrant`, `CreateSession`, `ConsumeGrant`), the proof of a
request (`Sign`, `ValidateProof`, `Bind`), the clock, the control thread, the
restart and a new endpoint generation. `accepted` and `opened` are history.

**`BrowserClient`** is the one client object of a tab: `devices`, `selected`,
`session`, `boot` and the two pages' calls, each await a step; the platform's
device list; services that start, stop and forget; login, logout and an expired
cookie. **`DocumentsPage`** is one page above it: what it shows, its timers, its
one list request, its coroutines for upload, index and delete, and the device's
worker as far as the page sees it.

**`AnswerRequests`** is the admission script (`Level`, `Live`, `Admissible`,
`Grant`) and the three requests that hold a lease, with every way they end:
`PrepareFails`, `BodyNeverGoesOn`, `StreamEndsBadly`, `LeftBehind`, `ReleaseFails`,
`AdmitUnheard`, `Crash`. `ideal` is a bucket that is refilled all the time.

**`ExperimentRuns`** is one of the experiment runners: the progress file
(`disk`, `torn`), the records in memory, and the stages of its kind, each a set
of keys the stage before it determines. `Ensure` generates and saves one answer.

**The data path.** `LegalText` cleans pages, removes running headers,
reconstructs the text with its page map, parses units and cuts chunks;
`LegalPaths` reads the stored units, or rebuilds them, and names the path of a
chunk; `EvidenceSelection` fuses rankings (platform and device), expands them
by children, fits the context into its budget and renders structured claims;
`AnswerText` reads status lines and citations and streams an answer;
`LocalAnswers` takes the body of a request for an answer, chooses a provider,
says what became of the call and which generation capability the runtime reports
from then on (READY after any answer, also one of the user's cloud or one for
which there was nothing to generate; DEGRADED after any timeout); `LocalGate`
answers an HTTP request up to the handler; `EvidenceMeasures` measures a
question, blames a stage, aggregates, and replays other strategies.
**`Algorithms`** takes one input through these, a stage per action, so that a
property can relate what several stages made of it. Texts are sequences of
symbols that stand for a word, a heading or a number; token counts are small.

`MCAlgorithms`, `MCAnswerRequests`, `MCBrowserClient`, `MCLocalSessions` give the
inputs of their runs.

## The runs

| Run | Instance | Shows |
|---|---|---|
| `pipeline` | 1 document, 2 jobs, 3 artifacts, 2 chunks, 1 crash, 1 reader | `JobInv`: one active job, accepted cancellations survive, the worker's job stays its own; `ReadyIsComplete`, `NothingLeftOfDeleted`, `ActiveArtifactIsOwned`, `QuietQueryIsComplete`; the refinement `ImplementsJobContract` |
| `live` | 1 document, 1 job, 3 artifacts, 2 crashes, fair | `RunningJobEnds`, `HandlerEnds` |
| `control` | 1 document, 2 threads, 1 lost or late request, 1 restart, 1 crash, fair | `StoredBeforeMarked`, `RevocationIsLearned`, `PendingIsDrained` |
| `chat` | 2 requests, 2 turns, deadlocks, faults and stops, fair | `OneActiveTurn`, `DoneMeansSaved`, `TerminalTurnIsFinal`, `RequestEnds` (no deadlock of the row locks lasts), `OrphanIsReconciled` |
| `workers` | 1 user, 1 indexing job at a time, 1 retry, 1 fault, fair | `ReadersAreServed`: no address without its object, no processed document without an index or a job that says so; `JobsSettle`, `OrphanIsCollected` |
| `accounts` | 1 account, 1 document, 1 backup, 1 disaster, 1 retry, 1 fault, fair | `DeletedStaysDeleted`, `SharedSurvives`; `DeletionEnds`: every deletion in the ledger, answered or not, is carried out in the end (but for a request that straddles the snapshot of a backup), through backup, disaster and a restore that is refused |
| `sessions` | 2 grants, 2 sessions, 1 nonce, 2 generations, 5 seconds | `NoReplay`, `GrantOpensOnce` |
| `browser` | 2 users, 1 device, 2 starts, 1 fault, fair | `SessionBelongsToUser`, `DocumentsRecover` |
| `experiments` | all seven kinds, 1 repeat, 1 fault, 1 edit of the prompt, fair | `WinnerIsSafe`: whoever is named abstained in every unanswerable case; `RecordsAreKept` |
| `algorithms` | inputs of `MCAlgorithms` | `ChunkContract` (units nest, every word once, right pages), `RepairedPathsAreTrue` (of artifacts that need the repair: their paths are those of the parser, also for chunks that are bound anew), `CoverageSurvives`, `ContextKeepsItsBudget` (within the budget, grouped or not, and nothing left out but for its text or for room), `StreamTellsTheAnswer`, `EvidenceStaysHome`, `GateIsExact` (nothing forbidden is served, all the page needs is), `BlameIsFair` |
| `answers` | 3 requests of 2 users, limits 1 and 2, 4 leases, fair | `LimitsHold` (exact rates, no more calls than leases), `LeaseIsItsHolders`, `CapacityReturns` |
| `page` | 1 document, 1 outage, 1 hidden tab, fair | `ActiveIsFollowed` |

Every state machine has a type invariant (`TypeOK`, `PageTypeOK`, `RunsTypeOK`),
and all but that of `Algorithms` are proved. `TerminalIsImmutable` (part of the contract), `ReadyIsStable`,
`HaltedRuntime`, `RevokedPlatformIsQuiet`, `NothingAfterDelete`, `OneStreamPerTurn`,
`LedgerBeforeErasure`, `BackupPairsUp`, `WaitersAreServed`, `CollectionTakesOrphans`,
`OnlyTheUserGivesUp`, `PollsEndWithWork` and `EarnedIn` are proved and not run. The inductive invariants of the proofs were checked on
the same instances before they were proved.

**Bounds.** *Pipeline.* Two jobs are enough for one to be finished, cancelled or
dead while another is made for the same document, also after it was deleted and
accepted again; two chunks for an index to be half built; three artifacts for a
preparation to be cut short by a crash, repeated, and repeated by the second
job. A request beyond `MaxJobs` is refused, a preparation beyond `MaxArts` does
not start (in `live` one job and two crashes never need a fourth artifact).
*Control.* Two threads are one that outlives its stop and its
successor; one document is queued once, but its manifest may be sent several
times. Any number of documents, revisions and threads is covered by the proofs
of the safety properties, not by the liveness run.
*Chat.* No action counts requests, so that each of the two stands for any
sequence of them. *Workers.* A user may have uploads, shares and deletions one
after the other without end; an ended indexing job's row is used again. A fault
is a failing call, a dying or a slow process. *Accounts.* One backup attempt;
the disaster may come before, during or after it, anywhere in a deletion, and
take the bucket with it or leave it with more than the backup has.
*Sessions.* Lifetimes of one and two seconds are the tightest case of
`SessionLifetime <= NonceLifetime` (the settings have 300 and 600); five
seconds are enough for a grant to expire, its row to be purged and its session to
lapse with its nonces. Restarts are bounded by the generations. *Browser.* Three session ids, used again
when nobody holds them; two starts let a device come back with another
generation. *Experiments.* One target case and one repeat are enough for a key
to exist in both prompts; outcomes are good, wrong and broken. *Answers.* A lease
lives two ticks, a token is two, so that a bucket can be half full and a lease
expire under its generation. *Page.* A used document id is not used again.
*Algorithms.* Pages of up to four lines, texts of up to some dozen symbols,
rankings of up to three of six chunks, headings of one and of four tokens (a group
of two is then shorter or longer than the two alone), all pieces of three parts of a model's
text, all routing requests with a valid, a malformed and a forbidden body and
calls that succeed, fail or time out, all requests of four methods to about thirty paths.

Deadlock is checked except where the system stops for good: `control` (a revoked
device), `workers` (a collected document), `sessions` (the clock ends),
`experiments` (a report), `algorithms` (an input has been through).

**Fairness.** Weak fairness of threads, started handlers, workers, awaited
answers and restarts: they are scheduled, and the launcher, RQ, the API's
start-up and the operator come back. No request, fault, crash, logout or
disaster is fair. The worker's steps that take a document lock are strongly
fair: it sleeps on a `threading.RLock` while handlers that take it are separated
by an HTTP round trip; so are chat steps that wait for a row, because PostgreSQL
serves the waiters of a row in turn. `OrphanIsReconciled` assumes that the session is read again and again and
that faults end, which is what the code relies on instead of a scheduler.
`JobsSettle` and `DeletionEnds` assume that the operator repeats the
reconciliation, as its runbook says; `DeletionEnds` also that he empties a bucket
that a restore refuses, which is the second step of the restore runbook: without it
every rerun fails at the same check and no deletion is replayed. In the browser each page repeats what
failed (`DocumentsRecover` says what that needs), and sessions lapse in the end.
On the documents page the user returns to the tab, an outage ends, and the
upload and row coroutines are strongly fair: they wait for a service that is
free again and again. In `AnswerRequests` only time passes; no request has to
end. In `ExperimentRuns` the operator starts a killed run again.

## What is proved

From the named assumptions on the constants alone, for all of their values:

`LocalPipelineProofs`: `TypeCorrect`, `JobInvHolds`, `OneActiveJobHolds`,
`CancelSurvivesHolds`, `TerminalIsImmutableHolds`. `TypeOK` is not inductive by
itself: the worker's updates hit the job table at `wjob` with `werr`, so that
the worker's job must be a job and the exception a failure or a cancellation.
`JobInv` is not inductive without the types. Their conjunction `IInv` is. Its
parts: `WorkerHasJob`, `WorkerJobIsOpen` (until it has ended the job itself,
nobody else has), `OnlyWorkerRuns`, `ExceptionHasCause` (a CANCELLED on its way
was asked for), `HandlerHasDoc`, `JobHasDoc`, `OneActiveJob`, `CancelSurvives`.
Each lemma has one step per action; the largest steps are split by variable.

Its second part is `Implementation`, that the pipeline implements
`JobContract`: `WorkerUpdate` handles the unconditional updates once for all
steps of the worker, `DeleteAsksToCancel` shows that the bulk update of
`cancel_for_document` cancels at most one job, which is `OneActiveJob` again.

Its third part is about the queries: `ReadyIsCompleteHolds`, `NothingLeftHolds`,
`ActiveIsOwnedHolds`, `ReadyIsStableHolds`, `QuietQueryIsCompleteHolds`. The first is
about documents whose files are there and says nothing of the mark inside the
artifact, which an error after `publish` takes back before the gate is closed; the
second says nothing of the source directory. None of the three invariants is
inductive: that the worker publishes a complete index of this document follows from what it found many steps before. `PipelineInv`
says what stays true meanwhile. Worker and handler hold the lock in their locked
sections (`LockIsHeld`), the row is there as long as the lock is
(`RowsOutliveLocks`), nobody else knows the artifact until it is registered
(`WorkerBuilds`), and from `IndexBegin` on it is the active artifact of a
document that is INDEXING (`WorkerIndexes`); a deletion removes the files before
the rows (`FilesGoFirst`). What the worker decides without a lock may be stale
(`StaleIsNotReady`), but only `publish` opens the gate (`OnlyPublishOpens`).
`OnlyWriters` lists the few steps that write to rows, artifacts and indexes, so that each
lemma has only those as cases. For the query, `QueryOnlyObserves` shows that the
retrieval thread disturbs nothing, and `QueryKnows` what its check of the row, made once,
is still worth.

`ControlChannelProofs`: `TypeCorrect`, `StoredBeforeMarkedHolds`,
`HaltedRuntimeHolds`, `RevokedPlatformIsQuietHolds`. The invariant behind the
first is a chain: a pending row has a revision (`PendingHasRow`), so what is
collected, sent or late has one; what was answered is stored
(`AnsweredMeansStored`), the platform never forgets a manifest, and only what
was answered is marked. The second needs `DownIsQuiet`: a dead process runs no
thread.

`ChatPageRunsProofs` has three parts that share nothing but the file. Of
`ChatTurns`: `TypeCorrect`, `OneActiveTurnHolds`, `DoneMeansSavedHolds`,
`NothingAfterDeleteHolds`, `OneStreamPerTurnHolds`, `TerminalTurnIsFinalHolds`.
The invariant says what a request may rely on after it has looked: one request
at most is inside a transaction on the session row (`SessionByOne`); whoever is
about to insert a turn or to delete the session has found no active turn, and
nobody can make one meanwhile (`CheckedHolds`); a stream has the row of its
turn, unless the session is gone (`StreamHasRow`); and a turn whose row is
locked for its completion is still active (`FinalizedIsActive`), which is why a
late completion and a recovery cannot both win.

Of `DocumentsPage`: `ActiveIsFollowedHolds`, `PollsEnd`, `PageTypesHold`, for any
number of documents, outages and hidden tabs. Only a commit of a list and an
upload or a row that takes up work change what is followed. Each of them decides
about the timer from the list it has just put on the page (`CommitPolls`), so that
work without a poll needs a step that takes the poll away and leaves the list:
a load that fails, is overtaken or comes back to a hidden tab, and each of those
sets the timer again (`LoadPolls`). For the converse, chains of polls come only from
`visibilitychange` (`ChainsAreCounted`: at most one more than the tab was
hidden), and none outlives its work (`PollsEndWithWork`).

Of `ExperimentRuns`: `RecordsAreKeptHolds`, `WinnerIsSafeHolds`,
`FinalistsAreEarned`, for all repeats, faults, prompts and runners. `Store`
overwrites, as the dictionary of the runner does, so that nothing is lost because
a key is only run while it has no record, which for keys that name the prompt
follows from planning with the records of this prompt (`PlansAreSound`,
`GoOnIsSound`). A winner is safe because the runner puts the unanswerable cases
of a candidate under the one purpose that its gate reads (`Planned`). Where two
purposes hold them, in the presentation experiment, the gate of the final
round reads one; the other was read before the candidate became a finalist, and
its record cannot change any more (`EarnedIn`, `FinalistsAreSafe`).

`LocalSessionsProofs`: `GrantsOpenOnce`, `ProofsAreAcceptedOnce`, for all
lifetimes with `SessionLifetime <= NonceLifetime`. A row of `consumed` is purged
only after its grant has expired (`OpenedIsRemembered`), and the handler that validated
the grant consumes it while it still is unexpired by the second the handler may
take (`GrantIsFresh`). The service forgets a nonce while a proof with it may still
be inside the window; it does not matter, because the session is gone by then
(`SessionsAreShort`, `UsedIsRemembered`) and its identifier does not come back.

`BrowserClientProofs`: `SessionIsTheUsers`, `NoWaiterIsLeft`. While a client
lives, the cookie names its owner or nobody (`CookieIsOwners`), so every list is
the owner's and keeps the selected device (`SelectedIsListed`); hence what two pages
have under way at their awaits is about the same device (`WorkIsOnSelected`).
`WaitersAreServed`: whoever waits for the one bootstrap waits for one that a page runs.

`RequestsProofs`: `LeasesEndWithHolders`, `AdmissionLimits`, for all limits and
lifetimes. A lease is known to one handler at
most (`HeldOnce`) and counted for that handler's user (`OwnedByHolder`), so
calls of the model are at most the leases that the script counted
(`LeasesAreLimited`). The bucket is exact because Redis forgets it no earlier than
it is full again.

Its second part is about the device, from the operators of `LocalGate` and
`LocalAnswers` by themselves: `OnlyAllowedAreServed` and `PagesAreServed`, for every
request with a path of any names and any length, and `EvidenceIsSentAsAsked`, for
every request and any health of the providers. They say of all inputs what
`GateIsExact` and `EvidenceStaysHome` say, by the same operators (`OnlyAllowed`,
`PageServed`, `SentAsAsked`), of those that `Algorithms` enumerates. The gate compares
the session with the operation it finds for the path, the framework's router picks
the handler, and the page asks for an operation it finds by another test
(`operationFromPath`): the three agree because a route is known by its method,
its length and its constants (`GuardedApart`) and a path that matches one has
its constants (`MatchedParts`), so that no path belongs to two routes (`OneRoute`).

`AccountRecoveryProofs`: `DeletionIsNeverUndone`, `SharedDocumentSurvives`,
`LedgerComesFirst`, `BackupsPairUp`, for any number of retries, faults and
disasters. A job row and an open account exclude each other, in the database
as in the dump (`JobClosesAccount`), so a dump either closes the account
itself, or the request came after the snapshot and its tombstone was there before the
answer (`RequestOrder`) and is replayed (`RestoredDump`, `NotUndone`). The ledger knows
before a worker erases (`LedgerFirst`). Rows and objects stay together because
erasing and backing up exclude each other (`Barrier`, `Paired`) and a row that is
about to go admits no new reader (`RowsLast`).

`PlatformWorkersProofs`: `ReadersAreServedHolds`, `CollectionsTakeOrphans`,
`GrantsAreTheUsers`, `TypesHold`, for any number of users, indexing jobs, retries
and faults. `ReadersAreServed` has two halves, and neither is inductive. The
object: an upload that is about to write the address has stored it
(`UploadStored`), and only a collection removes it, which found no grant under the
lock of the row it still holds (`OrphanLocked`). The index: chunks without an index
are in the hands of the processing task (`Handing`) or of an indexing job that
is open or FAILED. It is not enough that there is such a job, because a worker
that has validated rows which were replaced meanwhile marks its own job
COMPLETED: the job that stands for the gap must be one that no worker is about to
mark (`Witnesses`, `GapIsCovered`), and a new job is one (`Free`).

The assumptions are those the modules name: sets that are not empty, or finite
where the code counts them (requests and leases), `None` outside of them, limits that
are positive, and the orders of lifetimes the settings have. Two say only that
names differ: identifiers of indexing jobs are not the names of the other tasks,
document ids are not the names of the page's callers.

Only model-checked: the properties of `Algorithms` as invariants of its stages, and
all liveness
(`RunningJobEnds`, `HandlerEnds`, `RevocationIsLearned`, `PendingIsDrained`,
`RequestEnds`, `OrphanIsReconciled`, `JobsSettle`, `OrphanIsCollected`,
`DeletionEnds`, `DocumentsRecover`, `CapacityReturns`), which needs fairness and
`ENABLED`, beyond the prover. `Algorithms` and most modules it extends are
checked on bounded inputs: they declare recursive operators, which the prover does
not accept, and what a recursive definition computes for every input needs an
induction theorem with an operator parameter, which the installed provers cannot
use. Of the other two, `LocalGate` and `LocalAnswers`, the part above is proved; which
provider answers, with what error, and what the capability says then, is in no
property but the one about evidence.

## Seen in the models

Formulas that contracts or comments suggest and the code does not keep are
stated, unchecked, at the end of their modules. Their counterexamples:

* `LocalPipeline!CancelRequestIsServed`: enqueue, then cancel before the worker
  claims. The job is CANCEL_REQUESTED, the worker claims only QUEUED jobs
  (`jobs.py:369`), every later request gets the same dead job back; only a
  restart resolves it.
* `LocalPipeline!SuccessMeansReady`: a job is queued for a READY document; the
  worker reads READY (`pipeline.py:201`); a forced re-index closes the gate and
  is given the same job; the worker ends it SUCCEEDED. Nothing re-indexes.
* `LocalQuery!NoPartialIndexIsRead`: the query checks the row, a re-index empties
  the tables, the query answers from an empty or partial index.
* `ChatTurns!BusyMeansFresh`: deleting the session, or beginning another turn,
  recovers a stale turn in memory, does not see the recovery in its own query,
  answers 409 and rolls it back. Reading the session helps.
* `ChatTurns!CompletionSurvives`: `finalize_turn` holds the turn and a read the
  session; PostgreSQL aborts the completion, and the answer is not saved.
* `ControlChannel!RevokedIsFinal`: the thread that outlives
  `stop` overwrites REVOKED.
* `PlatformWorkers!OnlyUploadingBecomesPending`: `transition_to_pending` looks and
  writes in two statements (`job_repo.py:27`), and the worker may be done between.
* `AccountRecovery!RestoreReplaysDeletions`: `created_at` is taken before the commit
  (`auth/service.py:135`) and the request is outside the barrier, so that a
  deletion may be missing in the dump and look older than its snapshot.
* `BrowserClient!AskRecovers`: the question page retries with the device list it
  has (`client.ts:571`), which may be older than the last start of the service; the documents page,
  which discovers on every load, recovers.
* `DocumentsPage!DeletedDisappears`: a load that is skipped because another one
  runs, or that fails, leaves a deleted document until Refresh
  (`DocumentsPage.tsx:71`); failed deletions and indexings never reload.

Other behaviour of the code that a reader should know:

* *Pipeline*: a forced re-index that fails leaves the document without the index
  it had; a crash between rows and tombstone loses the tombstone; an upload that
  dies between directory and row blocks its id.
* *Outbox*: a manifest that replaces one being sent is marked delivered with it.
* *Workers*: the second of two concurrent uploads of a new file fails on the
  checksum; a collection cut between object and rows leaves a row without its
  object, which every later backup fails on if the document is shared again.
* *Recovery*: the operator's reconciliation may write QUEUED over COMPLETED; the
  next one heals it. A restore that failed while it filled the bucket is refused by
  each rerun (`restore.py:129`) until somebody empties it.
* *Sessions*: a session whose grant could not be consumed stays in memory until it
  expires, unreturned; a revocation is forgotten by a restart until the next
  heartbeat. A request of the page with another protocol version puts the
  runtime into UPDATE_REQUIRED and ends all sessions (`api.py:712`). An exception
  nobody expected is answered without CORS headers: the page sees a failed network.
* *Admission*: a stream closed before its first event of the model, never
  started, or cancelled while it closes its upstream, keeps its lease until it expires.
* *Text*: a line that stands twice on one page of two counts as a running header;
  a page number above a header shields it; a bare number at the edge of a page
  is taken for a page number; the character before a heading inside a line is in
  no chunk; a PREAMBLE may be empty.
* *Paths*: an artifact is only repaired when one of its units cannot be right. Where
  an earlier parser read an appendix and the rows below it as plausible units
  (APPENDIX, then numbered rows), the stored paths, without the appendix, are
  served. In a repaired artifact a chunk's own unit comes first (`resolve_for_span`):
  a chunk of an article that ran over an appendix has the article's path, although
  part of it is in the appendix. An artifact that needs the repair and has no stored text
  has no paths at all (UNAVAILABLE).
* *Answers*: a line break before the status line lets an insufficient answer stream
  its text; an unclosed status line stays in the final text though not in the
  stream (`StreamTellsTheAnswer` excludes both); an unconfigured cloud account
  raises where one that is not ready falls back.
* *Page*: a prepare that fails after its upload leaves a document shown as
  processing and polled for ever; a failed or cancelled latest job hides the
  Index button.
* *Evaluation*: only the capacity, grounding and validation runners name the hash of the
  prompt in the keys of their records ("Checkpoint keys include prompt hashes",
  `legal_rag_v3_grounding_v1/README.md:12`); a report of the ablation, abstention,
  presentation or sweep runner that is resumed after an edit of its prompt mixes
  answers of both, and its winner may rest on both; the presentation experiment's
  progress file is written in place;
  ranks above ten are in no bucket; texts that were deduplicated count as
  dropped from the context; `coverage_aware` prefers no article within an article;
  `expand_candidates` may exceed its limit by one; a candidate without any false
  abstention loses to all in the final ablation (`rate or 1`).

## Abstractions and what is left out

* *Pipeline*: one fault per attempt; progress, texts, hashes and sizes left out;
  jobs of the same second are ordered by insertion; the worker thread starts
  once per process; a document's lock is never taken twice.
* *Control*: the device is paired; signatures, nonces, waits, the order of rows
  in a tick are left out. A platform that rejects a manifest for its content is
  not modelled: the code queues none that could be.
* *Chat*: creating and listing sessions, titles, sequence numbers, citations.
* *Workers*: one file; a collected file is not uploaded again; the content of
  pages and chunks; repair tools.
* *Accounts*: one account; roles, passwords, login limits; services are stopped
  during a restore, as the runbook asks; retention of backups.
* *Sessions*: cryptography; clocks of platform and device agree, the browser's
  may be off by `Skew`; a handler runs within one second of the clock.
* *Browser*: grants of the platform allow all operations; a service that is busy,
  outdated or revoked is one that refuses; a discarded client is not followed;
  `performReconnect` is never reached. *Page*: search, filters, drawer and cancel;
  requests that wait for another document's lock only take longer.
* *Answers*: replicas' clocks agree; Redis keeps its data; refused users change
  nothing and are stutters.
* *Experiments*: one process at a time; the files of single stages and settings
  other than the prompt.
* *Data path*: PDF extraction, Unicode, embeddings, SQL ranking, the reranker and
  the model calls. Scores are exact fractions, without rounding.

Not modelled:

* the cloud worker (`src/cloud/worker`): a second control plane over D1. What it
  shares with `app/compute_control.py` is modelled there; its own races (nonces,
  login attempts and pairing are checked and written in separate statements) need a
  module of their own;
* pairing; the single-instance lock, tray and installer, which are platform
  integration (the launcher's loop is in `ControlChannel`);
* migrations, debug views, the older evaluations, tools, packaging and deployment
  files: scripts and declarations without a state machine, or read-only views.
