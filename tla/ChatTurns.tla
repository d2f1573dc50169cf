----------------------------- MODULE ChatTurns -----------------------------
(***************************************************************************)
(* One chat session of the platform: its turns, the requests that read,    *)
(* delete or extend it, and the streams that generate the answers          *)
(* (app/chat/service.py, app/api/routes/chat.py).                          *)
(*                                                                         *)
(* Every transaction takes row locks.  Readers, deletions and new turns    *)
(* lock the session row, then its active turn; finalize_turn locks the     *)
(* turn, then the session.  The locks are not variables: a request holds   *)
(* what its program counter says it holds, and a step that needs a row     *)
(* waits until nobody else holds it.  The row of the assistant message is  *)
(* only ever locked and written together with its turn, and is left out.   *)
(***************************************************************************)
EXTENDS Naturals, FiniteSets

CONSTANTS
    Turns,      \* the client_turn_ids that are ever used
    Requests,   \* the requests that are served at the same time
    NoTurn,     \* of a request that is about no turn
    Faults      \* whether statements fail and the server stops

ASSUME ConstantsAssumption == NoTurn \notin Turns /\ Faults \in BOOLEAN

VARIABLES
    exists,     \* the row of chat_sessions
    state,      \* the state column of chat_turns, "NONE" without a row
    aged,       \* turns that started more than CHAT_TURN_STALE_AFTER_SECONDS ago
    pc,         \* where a request is
    op,         \* what it is: "read", "delete" or "begin"
    turn,       \* the turn of a "begin" and its stream
    verdict,    \* the state mark_terminal is called with
    reply,      \* what the client of the request was told
    done        \* turns for which a "done" event was sent

vars == <<exists, state, aged, pc, op, turn, verdict, reply, done>>
rows == <<exists, state, aged>>

Terminal == {"COMPLETED", "FAILED", "CANCELLED"}
TurnStates == Terminal \cup {"NONE", "STREAMING"}
Replies == {"none", "ok", "not_found", "busy", "in_progress", "conflict",
            "started", "replayed", "refused", "error"}
Ops == {"read", "delete", "begin"}
SessionPcs == {"want_turn", "insert", "remove"}
StreamPcs == {"admit", "ready", "streaming", "finalize", "activity", "mark"}
Pcs == {"idle", "want_session", "resolve"} \cup SessionPcs \cup StreamPcs

Active == {t \in Turns : state[t] = "STREAMING"}

HoldsSession(r) == pc[r] \in SessionPcs
HoldsTurn(r, t) == pc[r] = "activity" /\ turn[r] = t

SessionFree == \A r \in Requests : ~HoldsSession(r)
TurnFree(t) == \A r \in Requests : ~HoldsTurn(r, t)
ActiveFree == \A t \in Active : TurnFree(t)

Init ==
    /\ exists = TRUE
    /\ state = [t \in Turns |-> "NONE"]
    /\ aged = {}
    /\ pc = [r \in Requests |-> "idle"]
    /\ op = [r \in Requests |-> "read"]
    /\ turn = [r \in Requests |-> NoTurn]
    /\ verdict = [r \in Requests |-> "FAILED"]
    /\ reply = [r \in Requests |-> "none"]
    /\ done = {}

Goto(r, step) == pc' = [pc EXCEPT ![r] = step]
Tell(r, what) == reply' = [reply EXCEPT ![r] = what]
Return(r, what) == Goto(r, "idle") /\ Tell(r, what)

-----------------------------------------------------------------------------
(***************************************************************************)
(* The requests and their first transaction.                               *)
(***************************************************************************)

Arrive(r, o, t) ==
    /\ pc[r] = "idle"
    /\ op' = [op EXCEPT ![r] = o]
    /\ turn' = [turn EXCEPT ![r] = t]
    /\ Goto(r, "want_session")
    /\ Tell(r, "none")
    /\ UNCHANGED <<rows, verdict, done>>

Read(r) == Arrive(r, "read", NoTurn)
Delete(r) == Arrive(r, "delete", NoTurn)
Begin(r) == \E t \in Turns : Arrive(r, "begin", t)

\* Mutant: the session is read without FOR UPDATE.
ReadSession(r) ==
    /\ pc[r] = "want_session"
    /\ IF exists THEN Goto(r, "want_turn") /\ UNCHANGED reply
                 ELSE Return(r, "not_found")
    /\ UNCHANGED <<rows, op, turn, verdict, done>>

\* SELECT chat_sessions FOR UPDATE.
LockSession(r) ==
    /\ pc[r] = "want_session"
    /\ SessionFree
    /\ IF exists THEN Goto(r, "want_turn") /\ UNCHANGED reply
                 ELSE Return(r, "not_found")
    /\ UNCHANGED <<rows, op, turn, verdict, done>>

\* What _recover_stale_locked makes of the turns when it is committed.
Recovered == [t \in Turns |-> IF t \in Active \cap aged THEN "FAILED" ELSE state[t]]

\* Mutant: get_session does not commit.
ReadRolledBack(r) ==
    /\ pc[r] = "want_turn" /\ op[r] = "read"
    /\ ActiveFree
    /\ Return(r, "ok")
    /\ UNCHANGED <<rows, op, turn, verdict, done>>

\* get_session: the recovery is committed.
ReadSessionRow(r) ==
    /\ pc[r] = "want_turn" /\ op[r] = "read"
    /\ ActiveFree
    /\ state' = Recovered
    /\ Return(r, "ok")
    /\ UNCHANGED <<exists, aged, op, turn, verdict, done>>

\* delete_session: the recovery is not flushed (SessionLocal has
\* autoflush=False), so that the query for an active turn still finds a stale
\* one; the rollback then undoes the recovery.
DeleteBusy(r) ==
    /\ pc[r] = "want_turn" /\ op[r] = "delete"
    /\ ActiveFree
    /\ Active # {}
    /\ Return(r, "busy")
    /\ UNCHANGED <<rows, op, turn, verdict, done>>

\* No active turn.
DeleteChecked(r) ==
    /\ pc[r] = "want_turn" /\ op[r] = "delete"
    /\ Active = {}
    /\ Goto(r, "remove")
    /\ UNCHANGED <<rows, op, turn, verdict, reply, done>>

\* DELETE chat_sessions; the foreign keys cascade to turns and messages.
DeleteSession(r) ==
    /\ pc[r] = "remove"
    /\ exists' = FALSE
    /\ state' = [t \in Turns |-> "NONE"]
    /\ Return(r, "ok")
    /\ UNCHANGED <<aged, op, turn, verdict, done>>

-----------------------------------------------------------------------------
(***************************************************************************)
(* begin_turn.                                                             *)
(***************************************************************************)

\* The turn exists and has the same request hash: the recovery is committed.
BeginExisting(r) ==
    /\ pc[r] = "want_turn" /\ op[r] = "begin"
    /\ ActiveFree
    /\ state[turn[r]] # "NONE"
    /\ state' = Recovered
    /\ Goto(r, "resolve")
    /\ UNCHANGED <<exists, aged, op, turn, verdict, reply, done>>

\* It exists with another hash: rolled back.
BeginConflict(r) ==
    /\ pc[r] = "want_turn" /\ op[r] = "begin"
    /\ ActiveFree
    /\ state[turn[r]] # "NONE"
    /\ Return(r, "conflict")
    /\ UNCHANGED <<rows, op, turn, verdict, done>>

\* Another turn is active, or stale with the recovery not flushed: rolled back.
BeginBusy(r) ==
    /\ pc[r] = "want_turn" /\ op[r] = "begin"
    /\ ActiveFree
    /\ state[turn[r]] = "NONE" /\ Active # {}
    /\ Return(r, "in_progress")
    /\ UNCHANGED <<rows, op, turn, verdict, done>>

\* A new client_turn_id in a session without an active turn.
BeginChecked(r) ==
    /\ pc[r] = "want_turn" /\ op[r] = "begin"
    /\ state[turn[r]] = "NONE" /\ Active = {}
    /\ Goto(r, "insert")
    /\ UNCHANGED <<rows, op, turn, verdict, reply, done>>

\* The turn, PENDING when it is inserted, and its messages are committed.
InsertTurn(r) ==
    /\ pc[r] = "insert"
    /\ state' = [state EXCEPT ![turn[r]] = "STREAMING"]
    /\ Goto(r, "admit")
    /\ Tell(r, "started")
    /\ UNCHANGED <<exists, aged, op, turn, verdict, done>>

\* _resolve_existing looks at the turn again after the commit has expired it:
\* a COMPLETED one is replayed, another one refused, a deleted one an error.
ResolveExisting(r) ==
    /\ pc[r] = "resolve"
    /\ \/ /\ state[turn[r]] = "COMPLETED"
          /\ done' = done \cup {turn[r]}
          /\ Return(r, "replayed")
       \/ /\ state[turn[r]] \notin {"COMPLETED", "NONE"}
          /\ Return(r, "refused")
          /\ UNCHANGED done
       \/ /\ state[turn[r]] = "NONE"
          /\ Return(r, "error")
          /\ UNCHANGED done
    /\ UNCHANGED <<rows, op, turn, verdict>>

-----------------------------------------------------------------------------
(***************************************************************************)
(* The stream.                                                             *)
(***************************************************************************)

\* mark_terminal is called next.
Fail(r, s) ==
    /\ Goto(r, "mark")
    /\ verdict' = [verdict EXCEPT ![r] = s]

\* generation_admission.acquire.
Admit(r) ==
    /\ pc[r] = "admit"
    /\ \/ Goto(r, "ready") /\ UNCHANGED verdict
       \/ Fail(r, "FAILED")
    /\ UNCHANGED <<rows, op, turn, reply, done>>

\* The first event is taken from the generator.
StartStream(r) ==
    /\ pc[r] = "ready"
    /\ Goto(r, "streaming")
    /\ UNCHANGED <<rows, op, turn, verdict, reply, done>>

\* The client is gone before the generator starts, or while it is suspended at
\* a yield: it is closed with GeneratorExit, which no except clause catches.
DropStream(r) ==
    /\ pc[r] \in {"ready", "streaming"}
    /\ Return(r, "error")
    /\ UNCHANGED <<rows, op, turn, verdict, done>>

\* The generation ends, fails, or is cancelled.
EndGeneration(r) ==
    /\ pc[r] = "streaming"
    /\ \/ Goto(r, "finalize") /\ UNCHANGED verdict
       \/ Fail(r, "FAILED")
       \/ Fail(r, "CANCELLED")
    /\ UNCHANGED <<rows, op, turn, reply, done>>

\* Mutant: finalize_turn does not look at the state of the turn.
FinalizeAnything(r) ==
    /\ pc[r] = "finalize"
    /\ TurnFree(turn[r])
    /\ IF state[turn[r]] # "NONE" THEN Goto(r, "activity") /\ UNCHANGED verdict
                                  ELSE Fail(r, "FAILED")
    /\ UNCHANGED <<rows, op, turn, reply, done>>

\* finalize_turn locks the turn; one that is gone or no longer active is an
\* error, and rolled back.
Finalize(r) ==
    /\ pc[r] = "finalize"
    /\ TurnFree(turn[r])
    /\ IF turn[r] \in Active THEN Goto(r, "activity") /\ UNCHANGED verdict
                             ELSE Fail(r, "FAILED")
    /\ UNCHANGED <<rows, op, turn, reply, done>>

\* Mutant: "done" is sent for an answer whose transaction was rolled back.
CommitLost(r) ==
    /\ pc[r] = "activity"
    /\ SessionFree
    /\ done' = done \cup {turn[r]}
    /\ Fail(r, "FAILED")
    /\ UNCHANGED <<rows, op, turn, reply>>

\* The session row is locked and everything committed; then "done" is sent.
\* A client that is found to be gone after that still has its turn marked.
CommitAnswer(r) ==
    /\ pc[r] = "activity"
    /\ SessionFree
    /\ state' = [state EXCEPT ![turn[r]] = "COMPLETED"]
    /\ done' = done \cup {turn[r]}
    /\ \/ Return(r, "ok") /\ UNCHANGED verdict
       \/ Fail(r, "CANCELLED") /\ UNCHANGED reply
    /\ UNCHANGED <<exists, aged, op, turn>>

\* A citation without evidence, a broken constraint, a lost connection.
FinalizeFault(r) ==
    /\ Faults
    /\ pc[r] \in {"finalize", "activity"}
    /\ Fail(r, "FAILED")
    /\ UNCHANGED <<rows, op, turn, reply, done>>

\* mark_terminal, then an error event where anybody still listens.
MarkTerminal(r) ==
    /\ pc[r] = "mark"
    /\ TurnFree(turn[r])
    /\ state' = IF turn[r] \in Active THEN [state EXCEPT ![turn[r]] = verdict[r]]
                                      ELSE state
    /\ Return(r, "error")
    /\ UNCHANGED <<exists, aged, op, turn, verdict, done>>

-----------------------------------------------------------------------------
(***************************************************************************)
(* PostgreSQL, time, and the process.                                      *)
(***************************************************************************)

\* A request that holds the session waits for a turn whose holder waits for
\* the session.
Deadlocked(r, q) ==
    /\ pc[r] = "want_turn"
    /\ pc[q] = "activity" /\ turn[q] \in Active

\* Mutant: nobody is aborted.
KeepWaiting(r, q) == FALSE

\* The database aborts one of the two: the reader answers 500, or the
\* finalization fails.
AbortOne(r, q) ==
    /\ Deadlocked(r, q)
    /\ \/ Return(r, "error") /\ UNCHANGED verdict
       \/ Fail(q, "FAILED") /\ UNCHANGED reply
    /\ UNCHANGED <<rows, op, turn, done>>

DetectDeadlock == \E r, q \in Requests : AbortOne(r, q)

\* started_at is never refreshed: every turn gets old.
Age(t) ==
    /\ t \in Active \ aged
    /\ aged' = aged \cup {t}
    /\ UNCHANGED <<exists, state, pc, op, turn, verdict, reply, done>>

\* A statement of any other transaction fails: it is rolled back.
Fault(r) ==
    /\ Faults
    /\ pc[r] \in SessionPcs \cup {"want_session", "resolve", "mark"}
    /\ Return(r, "error")
    /\ UNCHANGED <<rows, op, turn, verdict, done>>

\* The server stops: transactions roll back, streams are gone.
Crash ==
    /\ Faults
    /\ \E r \in Requests : pc[r] # "idle"
    /\ pc' = [r \in Requests |-> "idle"]
    /\ reply' = [r \in Requests |-> IF pc[r] = "idle" THEN reply[r] ELSE "error"]
    /\ UNCHANGED <<rows, op, turn, verdict, done>>

Locking(r) ==
    \/ LockSession(r)
    \/ ReadSessionRow(r)
    \/ DeleteBusy(r) \/ DeleteChecked(r)
    \/ BeginExisting(r) \/ BeginConflict(r) \/ BeginBusy(r) \/ BeginChecked(r)
    \/ CommitAnswer(r)

Working(r) ==
    \/ DeleteSession(r)
    \/ InsertTurn(r) \/ ResolveExisting(r)
    \/ Admit(r) \/ StartStream(r) \/ DropStream(r) \/ EndGeneration(r)
    \/ Finalize(r) \/ MarkTerminal(r)

Next ==
    \/ \E r \in Requests : Read(r) \/ Delete(r) \/ Begin(r)
    \/ \E r \in Requests : Locking(r) \/ Working(r)
    \/ \E r \in Requests : FinalizeFault(r) \/ Fault(r)
    \/ DetectDeadlock
    \/ \E t \in Turns : Age(t)
    \/ Crash

Spec == Init /\ [][Next]_vars

\* Waiters of a row are served in turn; the deadlock detector runs.
FairSpec ==
    /\ Spec
    /\ \A r \in Requests : SF_vars(Locking(r)) /\ WF_vars(Working(r))
    /\ WF_vars(DetectDeadlock)
    /\ \A t \in Turns : WF_vars(Age(t))

-----------------------------------------------------------------------------
(***************************************************************************)
(* Properties.                                                             *)
(***************************************************************************)

\* Types of the rows and of the requests.
TypeOK ==
    /\ exists \in BOOLEAN
    /\ state \in [Turns -> TurnStates]
    /\ aged \subseteq Turns
    /\ pc \in [Requests -> Pcs]
    /\ op \in [Requests -> Ops]
    /\ turn \in [Requests -> Turns \cup {NoTurn}]
    /\ verdict \in [Requests -> {"FAILED", "CANCELLED"}]
    /\ reply \in [Requests -> Replies]
    /\ done \subseteq Turns

\* A session has one active turn at most, although it is looked for and
\* inserted in different statements: the row locks suffice, the partial unique
\* index is never hit.
OneActiveTurn == \A t, u \in Active : t = u

\* However a turn is recovered, finalized late or marked, one that has ended
\* keeps its state until its session is deleted.
TerminalTurnIsFinal ==
    [][\A t \in Turns : state[t] \in Terminal => state'[t] = state[t] \/ ~exists']_vars

\* "done" is only ever sent for an answer that is saved, by the stream and by
\* a replay alike.
DoneMeansSaved == \A t \in done : state[t] = "COMPLETED" \/ ~exists

\* A deleted session has no turns, whatever stream ends afterwards.
NothingAfterDelete == ~exists => \A t \in Turns : state[t] = "NONE"

\* The provider is called by one request for each turn, whatever is repeated.
OneStreamPerTurn ==
    \A r, q \in Requests :
        pc[r] \in StreamPcs /\ pc[q] \in StreamPcs /\ turn[r] = turn[q] => r = q

\* No request waits for ever for a row, another request or the provider.
RequestEnds == \A r \in Requests : pc[r] # "idle" ~> pc[r] = "idle"

\* As long as the session is asked for again and again, and neither it nor the
\* server always fails, a turn whose stream was dropped or died is not active
\* for ever.
OrphanIsReconciled ==
    /\ []<><<\E r \in Requests : Read(r)>>_vars
    /\ <>[][~Crash /\ \A r \in Requests : ~Fault(r)]_vars
    => \A t \in Turns : t \in Active ~> t \notin Active

(***************************************************************************)
(* What documents say and the code does not do.                            *)
(***************************************************************************)

\* "DELETE returns 409 SESSION_BUSY for a fresh active turn"
\* (chat-session-history-v1): a stale one is recovered first.
BusyMeansFresh ==
    [][\A r \in Requests :
        reply[r] # "busy" /\ reply'[r] = "busy" => ~(Active \subseteq aged)]_vars

\* "A concurrent completion cannot be overwritten because recovery uses row
\* locks" (chat-history-orphan-recovery-v1): without a fault, what
\* finalize_turn has accepted is COMPLETED.
CompletionSurvives ==
    [][\A r \in Requests :
        pc[r] = "activity" /\ pc'[r] # "activity" =>
            state'[turn[r]] = "COMPLETED"]_vars
=============================================================================
