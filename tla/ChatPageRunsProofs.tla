------------------------- MODULE ChatPageRunsProofs -------------------------
(***************************************************************************)
(* Proofs about ChatTurns, DocumentsPage and ExperimentRuns, for any       *)
(* number of turns, requests, documents, repeats and faults.               *)
(*                                                                         *)
(* Chat turns: the row locks of the session make what begin_turn and       *)
(* delete_session checked stay true until they commit (CheckedHolds); a    *)
(* turn that is being finalized stays active because nobody recovers a     *)
(* locked turn (FinalizedIsActive) and because nobody else streams it.     *)
(*                                                                         *)
(* Documents page: what is in work is followed by a timer or by a load     *)
(* that will set one, and every chain of polls is paid for by the page     *)
(* being shown (ChainsAreCounted, PollsEndWithWork).                       *)
(*                                                                         *)
(* Experiments: the records of a progress file were planned by the runner  *)
(* of that file (Planned), and a finalist's records rest on a recorded     *)
(* abstention (EarnedIn); a winner is then safe whatever was resumed.      *)
(***************************************************************************)
EXTENDS ChatTurns, DocumentsPage, ExperimentRuns, FiniteSetTheorems, TLAPS

-----------------------------------------------------------------------------
(* Chat turns.                                                             *)

\* The request that begins, resolves or streams a turn is about one.
BeginHasTurn ==
    \A r \in Requests :
        /\ op[r] = "begin" => turn[r] \in Turns
        /\ pc[r] \in StreamPcs \cup {"insert", "resolve"} => op[r] = "begin"

\* The session row is locked by one request, and exists while it is.
SessionByOne ==
    \A r \in Requests :
        HoldsSession(r) =>
            /\ exists
            /\ \A q \in Requests : HoldsSession(q) => q = r

\* What was checked under the lock still holds.
CheckedHolds ==
    \A r \in Requests :
        /\ pc[r] \in {"insert", "remove"} => Active = {}
        /\ pc[r] = "insert" => state[turn[r]] = "NONE"

StreamHasRow ==
    \A r \in Requests : pc[r] \in StreamPcs => state[turn[r]] # "NONE" \/ ~exists

FinalizedIsActive ==
    \A r \in Requests : pc[r] = "activity" => turn[r] \in Active

IInv ==
    /\ TypeOK
    /\ BeginHasTurn
    /\ SessionByOne
    /\ CheckedHolds
    /\ StreamHasRow
    /\ FinalizedIsActive
    /\ OneActiveTurn
    /\ DoneMeansSaved
    /\ NothingAfterDelete
    /\ OneStreamPerTurn

LEMMA InitHolds == Init => IInv
  BY ConstantsAssumption
  DEF Init, IInv, TypeOK, BeginHasTurn, SessionByOne, CheckedHolds, StreamHasRow,
      FinalizedIsActive, OneActiveTurn, DoneMeansSaved, NothingAfterDelete,
      OneStreamPerTurn, Active, HoldsSession, TurnStates, Terminal, Ops, Replies,
      Pcs, SessionPcs, StreamPcs

\* Every step keeps the invariant.
LEMMA StepHolds == IInv /\ [Next]_vars => IInv'
<1> SUFFICES ASSUME IInv, [Next]_vars PROVE IInv'
  OBVIOUS
<1> USE DEF IInv, TypeOK, BeginHasTurn, SessionByOne, CheckedHolds, StreamHasRow,
            FinalizedIsActive, OneActiveTurn, DoneMeansSaved, NothingAfterDelete,
            OneStreamPerTurn
<1> USE DEF Active, ActiveFree, SessionFree, TurnFree, HoldsSession, HoldsTurn,
            Goto, Tell, Return, Fail, rows
<1> USE DEF TurnStates, Terminal, Ops, Replies, Pcs, SessionPcs, StreamPcs
<1>1. ASSUME NEW r \in Requests, Read(r) PROVE IInv'
  BY <1>1 DEF Read, Arrive
<1>2. ASSUME NEW r \in Requests, Delete(r) PROVE IInv'
  BY <1>2 DEF Delete, Arrive
<1>3. ASSUME NEW r \in Requests, Begin(r) PROVE IInv'
  BY <1>3 DEF Begin, Arrive
<1>4. ASSUME NEW r \in Requests, LockSession(r) PROVE IInv'
  BY <1>4 DEF LockSession
<1>5. ASSUME NEW r \in Requests, ReadSessionRow(r) PROVE IInv'
  BY <1>5 DEF ReadSessionRow, Recovered
<1>6. ASSUME NEW r \in Requests, DeleteBusy(r) PROVE IInv'
  BY <1>6 DEF DeleteBusy
<1>7. ASSUME NEW r \in Requests, DeleteChecked(r) PROVE IInv'
  BY <1>7 DEF DeleteChecked
<1>8. ASSUME NEW r \in Requests, DeleteSession(r) PROVE IInv'
  <2>1. /\ ~exists' /\ Active' = {}
        /\ \A t \in Turns : state'[t] = "NONE"
        /\ \A q \in Requests : pc'[q] = IF q = r THEN "idle" ELSE pc[q]
        /\ \A q \in Requests : pc[q] # "activity"
        /\ UNCHANGED <<op, turn, done>>
    BY <1>8 DEF DeleteSession
  <2>2. TypeOK'
    BY <1>8 DEF DeleteSession
  <2>3. SessionByOne' /\ CheckedHolds'
    <3>1. \A q \in Requests : ~HoldsSession(q)'
      BY <1>8, <2>1 DEF DeleteSession
    <3> QED BY <2>1, <3>1
  <2>4. FinalizedIsActive' /\ OneActiveTurn' /\ OneStreamPerTurn' /\ BeginHasTurn'
    BY <2>1
  <2>5. StreamHasRow' /\ DoneMeansSaved' /\ NothingAfterDelete'
    BY <2>1
  <2> QED BY <2>2, <2>3, <2>4, <2>5
<1>9. ASSUME NEW r \in Requests, BeginExisting(r) PROVE IInv'
  BY <1>9 DEF BeginExisting, Recovered
<1>10. ASSUME NEW r \in Requests, BeginConflict(r) PROVE IInv'
  BY <1>10 DEF BeginConflict
<1>11. ASSUME NEW r \in Requests, BeginBusy(r) PROVE IInv'
  BY <1>11 DEF BeginBusy
<1>12. ASSUME NEW r \in Requests, BeginChecked(r) PROVE IInv'
  BY <1>12 DEF BeginChecked
<1>13. ASSUME NEW r \in Requests, InsertTurn(r) PROVE IInv'
  BY <1>13 DEF InsertTurn
<1>14. ASSUME NEW r \in Requests, ResolveExisting(r) PROVE IInv'
  BY <1>14 DEF ResolveExisting
<1>15. ASSUME NEW r \in Requests, Admit(r) PROVE IInv'
  BY <1>15 DEF Admit
<1>16. ASSUME NEW r \in Requests, StartStream(r) PROVE IInv'
  BY <1>16 DEF StartStream
<1>17. ASSUME NEW r \in Requests, DropStream(r) PROVE IInv'
  BY <1>17 DEF DropStream
<1>18. ASSUME NEW r \in Requests, EndGeneration(r) PROVE IInv'
  BY <1>18 DEF EndGeneration
<1>19. ASSUME NEW r \in Requests, Finalize(r) PROVE IInv'
  BY <1>19 DEF Finalize
<1>20. ASSUME NEW r \in Requests, CommitAnswer(r) PROVE IInv'
  BY <1>20 DEF CommitAnswer
<1>21. ASSUME NEW r \in Requests, FinalizeFault(r) PROVE IInv'
  BY <1>21 DEF FinalizeFault
<1>22. ASSUME NEW r \in Requests, Fault(r) PROVE IInv'
  BY <1>22 DEF Fault
<1>23. ASSUME NEW r \in Requests, MarkTerminal(r) PROVE IInv'
  BY <1>23 DEF MarkTerminal
<1>24. ASSUME NEW r \in Requests, NEW q \in Requests, AbortOne(r, q) PROVE IInv'
  BY <1>24 DEF AbortOne, Deadlocked
<1>25. ASSUME NEW t \in Turns, Age(t) PROVE IInv'
  BY <1>25 DEF Age
<1>26. CASE Crash
  BY <1>26 DEF Crash
<1>27. CASE UNCHANGED vars
  BY <1>27 DEF vars
<1> HIDE DEF IInv
<1> QED
  BY <1>1, <1>2, <1>3, <1>4, <1>5, <1>6, <1>7, <1>8, <1>9, <1>10, <1>11,
     <1>12, <1>13, <1>14, <1>15, <1>16, <1>17, <1>18, <1>19, <1>20, <1>21,
     <1>22, <1>23, <1>24, <1>25, <1>26, <1>27
  DEF Next, Locking, Working, DetectDeadlock

THEOREM Invariance == Spec => []IInv
  BY InitHolds, StepHolds, PTL DEF Spec

\* Rows and requests have their types.
THEOREM TypeCorrect == Spec => []TypeOK
  BY Invariance, PTL DEF IInv

\* The row locks of begin_turn, get_session and delete_session alone keep a
\* second turn of a session from becoming active.
THEOREM OneActiveTurnHolds == Spec => []OneActiveTurn
  BY Invariance, PTL DEF IInv

\* A "done" event, of the stream or of a replay, is about a saved answer.
THEOREM DoneMeansSavedHolds == Spec => []DoneMeansSaved
  BY Invariance, PTL DEF IInv

\* No stream that ends late brings a turn of a deleted session back.
THEOREM NothingAfterDeleteHolds == Spec => []NothingAfterDelete
  BY Invariance, PTL DEF IInv

\* The provider is called for a client_turn_id by one request at most.
THEOREM OneStreamPerTurnHolds == Spec => []OneStreamPerTurn
  BY Invariance, PTL DEF IInv

\* finalize_turn, mark_terminal and the recovery leave a turn that has ended
\* alone: each looks at its state under the row lock.
THEOREM TerminalTurnIsFinalHolds == Spec => TerminalTurnIsFinal
<1>1. ASSUME IInv, [Next]_vars
      PROVE  \A t \in Turns :
                state[t] \in Terminal => state'[t] = state[t] \/ ~exists'
  <2> SUFFICES ASSUME NEW t \in Turns, state[t] \in Terminal
               PROVE  state'[t] = state[t] \/ ~exists'
    OBVIOUS
  <2> USE DEF Goto, Tell, Return, Fail, rows, Terminal, Active
  <2>1. ASSUME NEW r \in Requests, ReadSessionRow(r) \/ BeginExisting(r)
        PROVE  state'[t] = state[t]
    BY <1>1, <2>1 DEF ReadSessionRow, BeginExisting, Recovered
  <2>2. ASSUME NEW r \in Requests, InsertTurn(r)
        PROVE  state'[t] = state[t]
    BY <1>1, <2>2 DEF InsertTurn, IInv, TypeOK, CheckedHolds
  <2>3. ASSUME NEW r \in Requests, CommitAnswer(r) \/ MarkTerminal(r)
        PROVE  state'[t] = state[t]
    BY <1>1, <2>3 DEF CommitAnswer, MarkTerminal, IInv, TypeOK, FinalizedIsActive
  <2>4. ASSUME NEW r \in Requests, DeleteSession(r)
        PROVE  ~exists'
    BY <2>4 DEF DeleteSession
  <2>5. ASSUME NEW r \in Requests,
               \/ Read(r) \/ Delete(r) \/ Begin(r) \/ LockSession(r)
               \/ DeleteBusy(r) \/ DeleteChecked(r)
               \/ BeginConflict(r) \/ BeginBusy(r) \/ BeginChecked(r)
               \/ FinalizeFault(r) \/ Fault(r) \/ ResolveExisting(r) \/ Admit(r)
               \/ StartStream(r) \/ DropStream(r) \/ EndGeneration(r) \/ Finalize(r)
        PROVE  state' = state
    BY <2>5
    DEF Read, Delete, Begin, Arrive, LockSession, DeleteBusy, DeleteChecked,
        BeginConflict, BeginBusy, BeginChecked, FinalizeFault, Fault,
        ResolveExisting, Admit, StartStream, DropStream, EndGeneration, Finalize
  <2>6. CASE DetectDeadlock \/ (\E u \in Turns : Age(u)) \/ Crash \/ UNCHANGED vars
    BY <2>6 DEF DetectDeadlock, AbortOne, Age, Crash, vars
  <2> QED
    BY <1>1, <2>1, <2>2, <2>3, <2>4, <2>5, <2>6 DEF Next, Locking, Working
<1> QED BY Invariance, <1>1, PTL DEF Spec, TerminalTurnIsFinal

-----------------------------------------------------------------------------
(* The documents page: its inductive invariant.                            *)

Callers == {"none", "user", "poll", "upload", "again"} \cup Docs
Loads == [by : Callers, at : {"none", "asked", "rows", "answered"}, live : BOOLEAN,
          rows : [Docs -> Rows]]
Uploads == [at : {"idle", "source", "prepare", "accepted", "refused", "load", "again"},
            doc : Docs \cup {NoDoc}]
Acts == [at : {"idle", "index", "delete", "done", "load"}, stale : BOOLEAN]

PageTyping ==
    /\ rec \in [Docs -> Rows] /\ shown \in [Docs -> Rows] /\ load \in Loads
    /\ failing \subseteq Docs /\ used \subseteq Docs /\ tracked \in Docs \cup {NoDoc}
    /\ ready \in BOOLEAN /\ act \in [Docs -> Acts] /\ up \in Uploads
    /\ up.at \in {"source", "prepare", "accepted"} => up.doc \in Docs

HidesOK ==
    /\ hides \in 0..MaxHides /\ visible \in BOOLEAN
    /\ visible \/ hides > 0

\* Every hidden tab adds one chain of polls at most, and only when it is shown.
ChainsAreCounted ==
    /\ timers \in Nat
    /\ timers + Again <= (IF visible THEN 1 ELSE 0) + hides

\* No chain of polls outlives what it follows.
PollsEndWithWork == ~HasActive(shown, tracked) => timers = 0 /\ Again = 0

Polling == HidesOK /\ ChainsAreCounted /\ PollsEndWithWork /\ ActiveIsFollowed

PageInv == PageTyping /\ Polling

-----------------------------------------------------------------------------
(* Polls.                                                                  *)

\* Where the polls stand after a commit of the page.
LEMMA CommitPolls ==
    ASSUME Polling, NEW rs, NEW t, NEW again \in {0, Again}, Commit(rs, t, again),
           UNCHANGED <<visible, hides>>,
           HasActive(shown', tracked') => Again' = Again - again,
           HasActive(shown', tracked') \/ Again' = 0
    PROVE  Polling'
<1>1. HasActive(shown, tracked)' = HasActive(shown', tracked')
  BY DEF HasActive, Listed
<1> DEFINE before == HasActive(shown, tracked)
           after == HasActive(shown', tracked')
<1>2. timers' = IF ~after THEN 0 ELSE IF before THEN timers + again ELSE 1
  BY DEF Commit
<1>3. Again \in {0, 1} /\ Again' \in {0, 1}
  BY DEF Again
<1>4. /\ HidesOK /\ timers \in Nat
      /\ timers + Again <= (IF visible THEN 1 ELSE 0) + hides
      /\ ~before => timers = 0 /\ Again = 0
      /\ before => timers > 0 \/ Again = 1
  BY DEF Polling, ChainsAreCounted, PollsEndWithWork, ActiveIsFollowed
<1>5. after \/ Again' = 0
  OBVIOUS
<1>6. after => Again' = Again - again
  OBVIOUS
<1>7. SUFFICES
        /\ HidesOK'
        /\ timers' \in Nat /\ timers' + Again' <= (IF visible THEN 1 ELSE 0) + hides
        /\ ~after => timers' = 0 /\ Again' = 0
        /\ after => timers' > 0 \/ Again' = 1
  BY <1>1 DEF Polling, ChainsAreCounted, PollsEndWithWork, ActiveIsFollowed
<1> HIDE DEF before, after
<1>8. HidesOK' /\ hides \in Nat /\ (visible \/ hides > 0)
  BY <1>4, PageAssumption DEF HidesOK
<1>9. timers' \in Nat /\ (after => timers' > 0 \/ Again' = 1)
  BY <1>2, <1>3, <1>4, <1>6
<1>10. timers' + Again' <= (IF visible THEN 1 ELSE 0) + hides
  <2>1. CASE ~after
    BY <1>2, <1>5, <1>8, <2>1
  <2>2. CASE after /\ before
    BY <1>2, <1>3, <1>4, <1>6, <1>8, <2>2
  <2>3. CASE after /\ ~before
    BY <1>2, <1>3, <1>4, <1>6, <1>8, <2>3
  <2> QED
    BY <2>1, <2>2, <2>3
<1> QED
  BY <1>2, <1>5, <1>8, <1>9, <1>10

\* A commit of a coroutine that is no poll, with a list in flight.
LEMMA CommitLeaves ==
    ASSUME Polling, NEW rs, NEW t, Commit(rs, t, 0), UNCHANGED <<visible, hides>>,
           HasActive(shown', tracked') => Again' = Again,
           HasActive(shown', tracked') \/ Again' = 0
    PROVE  Polling'
<1>1. Again = Again - 0
  BY DEF Again
<1> QED
  BY <1>1, CommitPolls

\* A step that commits nothing and leaves the polls alone.
LEMMA PollsStand ==
    ASSUME Polling, UNCHANGED <<shown, tracked, polling>>, Again' = Again
    PROVE  Polling'
  BY DEF Polling, HidesOK, ChainsAreCounted, PollsEndWithWork, ActiveIsFollowed,
         HasActive, Listed, polling

\* Who asks for the list takes no poll's place.
LEMMA AskPolls ==
    ASSUME PageTyping, NEW by \in Callers \ {"poll"}, Ask(by)
    PROVE  Again' = Again
<1>1. CASE load = NoLoad
  <2>1. load' = [NoLoad EXCEPT !.by = by, !.at = "asked", !.live = TRUE]
    BY <1>1 DEF Ask
  <2> QED
    BY <1>1, <2>1 DEF Again, NoLoad
<1>2. CASE load # NoLoad
  BY <1>2 DEF Ask, Again
<1> QED
  BY <1>1, <1>2

LEMMA LoadPolls ==
    ASSUME PageTyping, Polling, LoadStep \/ Refresh
    PROVE  Polling'
<1> USE DEF PageTyping, device, page, polling, Loads
<1>1. CASE ListRows
  BY <1>1, PollsStand DEF ListRows, Again
<1>2. CASE ListJobs
  BY <1>2, PollsStand DEF ListJobs, Again
<1>3. CASE Loaded
  BY <1>3, CommitPolls DEF Loaded, Again, NoLoad
<1>4. CASE LoadFailed
  <2>1. Again' = 0
    <3>1. CASE load.by = "upload"
      <4>1. load' = [NoLoad EXCEPT !.by = "again", !.at = "asked"]
        BY <1>4, <3>1 DEF LoadFailed
      <4> QED
        BY <4>1 DEF Again, NoLoad
    <3>2. CASE load.by # "upload"
      BY <1>4, <3>2 DEF LoadFailed, Again, NoLoad
    <3> QED
      BY <3>1, <3>2
  <2>2. Again' = Again - Again
    BY <2>1 DEF Again
  <2> QED
    BY <1>4, <2>1, <2>2, CommitPolls DEF LoadFailed
<1>5. CASE Refresh
  BY <1>5, PollsStand, AskPolls DEF Refresh, Callers
<1> QED
  BY <1>1, <1>2, <1>3, <1>4, <1>5 DEF LoadStep

LEMMA TimerPolls ==
    ASSUME PageTyping, Polling, Poll \/ Hide \/ Show
    PROVE  Polling'
<1> USE DEF PageTyping, Loads, Polling, HidesOK, ChainsAreCounted, PollsEndWithWork,
            ActiveIsFollowed, HasActive, Listed
<1>1. CASE Poll
  <2>1. Again = 0 /\ Again' = 1 /\ timers' = timers - 1
    BY <1>1 DEF Poll, Ask, Again, NoLoad
  <2> QED
    BY <1>1, <2>1 DEF Poll
<1>2. CASE Hide
  <2>1. Again' = Again /\ Again \in {0, 1}
    BY <1>2 DEF Hide, Again
  <2>2. HidesOK'
    <3>1. hides' \in 0..MaxHides /\ hides' > 0
      BY <1>2, PageAssumption DEF Hide
    <3>2. visible' \in BOOLEAN
      BY <1>2 DEF Hide
    <3> QED
      BY <3>1, <3>2
  <2>3. visible /\ ~visible' /\ hides' = hides + 1 /\ hides \in Nat /\ timers' = timers
    BY <1>2, PageAssumption DEF Hide
  <2>4. ChainsAreCounted'
    BY <2>1, <2>3
  <2> QED
    BY <1>2, <2>1, <2>2, <2>4 DEF Hide
<1>3. CASE Show
  BY <1>3 DEF Show, Again
<1> QED
  BY <1>1, <1>2, <1>3

LEMMA CleanedPolls ==
    ASSUME PageTyping, load' = Cleaned(load)
    PROVE  /\ HasActive(shown', tracked') => Again' = Again
           /\ HasActive(shown', tracked') \/ Again' = 0
  BY DEF PageTyping, Loads, Cleaned, Again

LEMMA UploadPolls ==
    ASSUME PageTyping, Polling, UploadStep \/ \E d \in Docs : StartUpload(d)
    PROVE  Polling'
<1> USE DEF device, page, polling
<1>1. ASSUME NEW d \in Docs, StartUpload(d)
      PROVE  Polling'
  BY <1>1, PollsStand, AskPolls DEF StartUpload, Again, Callers
<1>2. CASE UploadServed
  BY <1>2, PollsStand DEF UploadServed, Again
<1>3. CASE UploadAccepted
  <2>1. CASE load = NoLoad
    BY <1>3, <2>1, CommitPolls DEF UploadAccepted, Again, NoLoad
  <2>2. CASE load # NoLoad
    <3>1. Commit(shown, up.doc, 0) /\ load' = Cleaned(load)
      BY <1>3, <2>2 DEF UploadAccepted
    <3> QED
      BY <1>3, <3>1, CleanedPolls, CommitLeaves DEF UploadAccepted
  <2> QED
    BY <2>1, <2>2
<1>4. CASE UploadFailed
  BY <1>4, PollsStand, AskPolls DEF UploadFailed, Callers
<1> QED
  BY <1>1, <1>2, <1>3, <1>4 DEF UploadStep

LEMMA RowPolls ==
    ASSUME PageTyping, Polling, NEW d \in Docs,
           RowStep(d) \/ StartIndex(d) \/ StartDelete(d)
    PROVE  Polling'
<1> USE DEF device, page, polling
<1>1. CASE RowServed(d)
  BY <1>1, PollsStand DEF RowServed, Again
<1>2. CASE RowDone(d)
  <2>1. CASE load = NoLoad
    BY <1>2, <2>1, CommitPolls, PageAssumption DEF RowDone, Again, NoLoad
  <2>2. CASE load # NoLoad
    <3>1. /\ Commit(shown, IF act[d].stale THEN NoDoc ELSE tracked, 0)
          /\ load' = Cleaned(load)
      BY <1>2, <2>2 DEF RowDone
    <3> QED
      BY <1>2, <3>1, CleanedPolls, CommitLeaves DEF RowDone
  <2> QED
    BY <2>1, <2>2
<1>3. CASE RowFailed(d) \/ StartIndex(d) \/ StartDelete(d)
  BY <1>3, PollsStand DEF RowFailed, StartIndex, StartDelete, Again
<1> QED
  BY <1>1, <1>2, <1>3 DEF RowStep

LEMMA DevicePolls ==
    ASSUME Polling, Outage \/ Back \/ \E d \in Docs : WorkerStep(d)
    PROVE  Polling'
  BY PollsStand DEF Outage, Back, WorkerStep, Again, device, page, polling

-----------------------------------------------------------------------------
(* Types.                                                                  *)

LEMMA RowTypes ==
    /\ NoRow \in Rows
    /\ \A r \in Rows : /\ r.state \in States
                       /\ r.job \in {"none", "SUCCEEDED", "FAILED"} \cup ActiveJobs
    /\ \A s \in States, j \in {"none", "SUCCEEDED", "FAILED"} \cup ActiveJobs :
           [state |-> s, job |-> j] \in Rows
    /\ \A r \in Rows : \A j \in {"none", "SUCCEEDED", "FAILED"} \cup ActiveJobs :
           [r EXCEPT !.job = j] \in Rows
    /\ {"QUEUED", "RUNNING"} \subseteq ActiveJobs
  BY DEF Rows, NoRow, States, ActiveJobs

LEMMA SetTypes ==
    ASSUME PageTyping, NEW d \in Docs, NEW s \in States,
           NEW j \in {"none", "SUCCEEDED", "FAILED"} \cup ActiveJobs, Set(d, s, j)
    PROVE  rec' \in [Docs -> Rows]
  BY RowTypes DEF Set, PageTyping

LEMMA EnqueueTypes ==
    ASSUME PageTyping, NEW d \in Docs, NEW s \in States, Enqueue(d, s)
    PROVE  rec' \in [Docs -> Rows]
  BY RowTypes, SetTypes DEF Enqueue, PageTyping

LEMMA CommitTypes ==
    ASSUME NEW rs \in [Docs -> Rows], NEW t \in Docs \cup {NoDoc},
           NEW again, Commit(rs, t, again)
    PROVE  shown' \in [Docs -> Rows] /\ tracked' \in Docs \cup {NoDoc}
  BY DEF Commit, AfterReport

LEMMA LoadTypes ==
    /\ NoLoad \in Loads
    /\ \A by \in Callers, live \in BOOLEAN :
          [NoLoad EXCEPT !.by = by, !.at = "asked", !.live = live] \in Loads
    /\ \A by \in Callers : [NoLoad EXCEPT !.by = by, !.at = "asked"] \in Loads
    /\ \A l \in Loads : /\ Cleaned(l) \in Loads
                        /\ l.rows \in [Docs -> Rows] /\ l.by \in Callers
    /\ \A by \in Callers : Ask(by) /\ load \in Loads => load' \in Loads
  BY RowTypes DEF NoLoad, Loads, Callers, Cleaned, Ask

LEMMA ActTypes ==
    /\ Resting \in Acts
    /\ \A a \in Acts : /\ [a EXCEPT !.at = "done"] \in Acts
                      /\ [a EXCEPT !.at = "index"] \in Acts
    /\ \A b \in BOOLEAN : [at |-> "delete", stale |-> b] \in Acts
  BY DEF Resting, Acts

LEMMA LoadStepTypes ==
    ASSUME PageTyping, LoadStep \/ Refresh \/ Poll
    PROVE  PageTyping'
<1> USE DEF PageTyping, device, page, polling
<1>1. CASE ListRows
  <2>1. [d \in Docs |-> [rec[d] EXCEPT !.job = "none"]] \in [Docs -> Rows]
    BY RowTypes
  <2>2. load' \in Loads
    BY <1>1, <2>1 DEF ListRows, Loads
  <2> QED
    BY <1>1, <2>2 DEF ListRows
<1>2. CASE ListJobs
  <2>1. [d \in Docs |-> [load.rows[d] EXCEPT !.job = rec[d].job]] \in [Docs -> Rows]
    BY RowTypes, LoadTypes
  <2>2. load' \in Loads
    BY <1>2, <2>1 DEF ListJobs, Loads
  <2> QED
    BY <1>2, <2>2 DEF ListJobs
<1>3. CASE Loaded
  <2>1. shown' \in [Docs -> Rows] /\ tracked' \in Docs \cup {NoDoc}
    BY <1>3, CommitTypes, LoadTypes DEF Loaded
  <2>2. act' \in [Docs -> Acts] /\ up' \in Uploads
    BY <1>3 DEF Loaded, Resume, Acts, Uploads, Resting
  <2>3. up'.at \in {"source", "prepare", "accepted"} => up'.doc \in Docs
    BY <1>3 DEF Loaded, Resume
  <2> QED
    BY <1>3, <2>1, <2>2, <2>3, LoadTypes DEF Loaded
<1>4. CASE LoadFailed
  <2>1. shown' \in [Docs -> Rows] /\ tracked' \in Docs \cup {NoDoc}
    BY <1>4, CommitTypes DEF LoadFailed
  <2>2. load' \in Loads
    BY <1>4, LoadTypes DEF LoadFailed, Callers
  <2>3. act' \in [Docs -> Acts] /\ up' \in Uploads
    <3>1. CASE load.by = "upload"
      BY <1>4, <3>1 DEF LoadFailed, Uploads
    <3>2. CASE load.by # "upload"
      BY <1>4, <3>2, ActTypes DEF LoadFailed, Resume, Uploads
    <3> QED
      BY <3>1, <3>2
  <2>4. up'.at \in {"source", "prepare", "accepted"} => up'.doc \in Docs
    BY <1>4 DEF LoadFailed, Resume, Uploads
  <2> QED
    BY <1>4, <2>1, <2>2, <2>3, <2>4 DEF LoadFailed
<1>5. CASE Refresh \/ Poll
  <2>1. load' \in Loads
    BY <1>5, LoadTypes DEF Refresh, Poll, Callers
  <2> QED
    BY <1>5, <2>1 DEF Refresh, Poll
<1> QED
  BY <1>1, <1>2, <1>3, <1>4, <1>5 DEF LoadStep

LEMMA UploadTypes ==
    ASSUME PageTyping, UploadStep \/ \E d \in Docs : StartUpload(d)
    PROVE  PageTyping'
<1> USE DEF PageTyping, device, page, polling
<1>1. ASSUME NEW d \in Docs, StartUpload(d)
      PROVE  PageTyping'
  <2>1. load' \in Loads
    BY <1>1, LoadTypes DEF StartUpload, Callers
  <2>2. /\ up' \in Uploads
        /\ up'.at \in {"source", "prepare", "accepted"} => up'.doc \in Docs
    BY <1>1 DEF StartUpload, Waits, Uploads
  <2> QED
    BY <1>1, <2>1, <2>2 DEF StartUpload
<1>2. CASE UploadServed
  <2>1. up.doc \in Docs /\ rec[up.doc].state \in States /\ "ACCEPTED" \in States
    BY <1>2, RowTypes DEF UploadServed, States
  <2>2. rec' \in [Docs -> Rows]
    BY <1>2, <2>1, SetTypes, EnqueueTypes DEF UploadServed
  <2>3. up' \in Uploads /\ up'.doc \in Docs
    BY <1>2, <2>1 DEF UploadServed, Uploads
  <2> QED
    BY <1>2, <2>2, <2>3 DEF UploadServed
<1>3. CASE UploadAccepted
  <2>1. shown' \in [Docs -> Rows] /\ tracked' \in Docs \cup {NoDoc}
    BY <1>3, CommitTypes DEF UploadAccepted
  <2>2. load' \in Loads
    BY <1>3, LoadTypes DEF UploadAccepted, Callers, Loads
  <2>3. up' \in Uploads /\ up'.at \notin {"source", "prepare", "accepted"}
    BY <1>3 DEF UploadAccepted, Waits, Uploads
  <2> QED
    BY <1>3, <2>1, <2>2, <2>3 DEF UploadAccepted
<1>4. CASE UploadFailed
  <2>1. load' \in Loads
    BY <1>4, LoadTypes DEF UploadFailed, Callers
  <2>2. up' \in Uploads /\ up'.at \notin {"source", "prepare", "accepted"}
    BY <1>4 DEF UploadFailed, Waits, Uploads
  <2> QED
    BY <1>4, <2>1, <2>2 DEF UploadFailed
<1> QED
  BY <1>1, <1>2, <1>3, <1>4 DEF UploadStep

LEMMA RowStepTypes ==
    ASSUME PageTyping, NEW d \in Docs, RowStep(d) \/ StartIndex(d) \/ StartDelete(d)
    PROVE  PageTyping'
<1> USE DEF PageTyping, device, page, polling
<1>1. CASE RowServed(d)
  <2>1. act' = [act EXCEPT ![d] = Resting] \/ act' = [act EXCEPT ![d].at = "done"]
    BY <1>1 DEF RowServed
  <2>4. act' \in [Docs -> Acts]
    <3>1. CASE act' = [act EXCEPT ![d] = Resting]
      BY <3>1, ActTypes
    <3>2. CASE act' = [act EXCEPT ![d].at = "done"]
      BY <3>2, ActTypes
    <3> QED
      BY <2>1, <3>1, <3>2
  <2>2. rec[d].state \in States /\ "PREPARED_NOT_INDEXED" \in States
    BY RowTypes DEF States
  <2>3. rec' \in [Docs -> Rows]
    BY <1>1, <2>2, RowTypes, EnqueueTypes DEF RowServed
  <2> QED
    BY <1>1, <2>3, <2>4 DEF RowServed
<1>2. CASE RowDone(d)
  <2>1. shown' \in [Docs -> Rows] /\ tracked' \in Docs \cup {NoDoc}
    BY <1>2, CommitTypes DEF RowDone
  <2>2. load' \in Loads
    BY <1>2, LoadTypes DEF RowDone, Callers, Loads
  <2>3. act' \in [Docs -> Acts]
    BY <1>2 DEF RowDone, Waits, Acts
  <2> QED
    BY <1>2, <2>1, <2>2, <2>3 DEF RowDone
<1>3. CASE RowFailed(d) \/ StartIndex(d) \/ StartDelete(d)
  <2>1. act' \in [Docs -> Acts]
    BY <1>3, ActTypes DEF RowFailed, StartIndex, StartDelete
  <2> QED
    BY <1>3, <2>1 DEF RowFailed, StartIndex, StartDelete
<1> QED
  BY <1>1, <1>2, <1>3 DEF RowStep

LEMMA DeviceTypes ==
    ASSUME PageTyping, Outage \/ Back \/ Hide \/ Show \/ \E d \in Docs : WorkerStep(d)
    PROVE  PageTyping'
<1> USE DEF PageTyping, device, page, polling
<1>1. CASE Outage \/ Hide \/ Show
  BY <1>1 DEF Outage, Hide, Show
<1>2. CASE Back
  BY <1>2, RowTypes DEF Back
<1>3. ASSUME NEW d \in Docs, WorkerStep(d)
      PROVE  PageTyping'
  <2>1. rec[d].state \in States
    BY RowTypes
  <2>2. rec' \in [Docs -> Rows]
    BY <1>3, <2>1, SetTypes, RowTypes DEF WorkerStep, States
  <2>3. failing' \subseteq Docs
    BY <1>3 DEF WorkerStep
  <2> QED
    BY <1>3, <2>2, <2>3 DEF WorkerStep
<1> QED
  BY <1>1, <1>2, <1>3

-----------------------------------------------------------------------------
(* The theorems about the page.                                            *)

LEMMA PageInitHolds == PageInit => PageInv
<1> SUFFICES ASSUME PageInit
             PROVE  PageInv
  OBVIOUS
<1>1. load \in Loads
  BY LoadTypes, RowTypes DEF PageInit, NoLoad, Loads, Callers
<1>2. PageTyping
  BY <1>1, RowTypes DEF PageInit, PageTyping, Uploads, Acts, Resting
<1>3. ~HasActive(shown, tracked)
  BY DEF PageInit, HasActive, Listed
<1>4. Again = 0 /\ timers = 0
  BY DEF PageInit, Again, NoLoad
<1>5. Polling
  BY <1>3, <1>4, PageAssumption
     DEF PageInit, Polling, HidesOK, ChainsAreCounted, PollsEndWithWork, ActiveIsFollowed
<1> QED
  BY <1>2, <1>5 DEF PageInv

LEMMA PageNextHolds == PageInv /\ [PageNext]_pageVars => PageInv'
<1> SUFFICES ASSUME PageTyping, Polling, [PageNext]_pageVars
             PROVE  PageTyping' /\ Polling'
  BY DEF PageInv
<1>1. CASE LoadStep \/ Refresh
  BY <1>1, LoadStepTypes, LoadPolls
<1>2. CASE Poll
  BY <1>2, LoadStepTypes, TimerPolls
<1>3. CASE Hide \/ Show
  BY <1>3, DeviceTypes, TimerPolls
<1>4. CASE Outage \/ Back \/ \E d \in Docs : WorkerStep(d)
  BY <1>4, DeviceTypes, DevicePolls
<1>5. CASE UploadStep \/ \E d \in Docs : StartUpload(d)
  BY <1>5, UploadTypes, UploadPolls
<1>6. ASSUME NEW d \in Docs, RowStep(d) \/ StartIndex(d) \/ StartDelete(d)
      PROVE  PageTyping' /\ Polling'
  BY <1>6, RowStepTypes, RowPolls
<1>7. CASE UNCHANGED pageVars
  <2>1. Polling'
    BY <1>7, PollsStand DEF pageVars, page, Again
  <2> QED
    BY <1>7, <2>1 DEF pageVars, device, page, PageTyping
<1> QED
  BY <1>1, <1>2, <1>3, <1>4, <1>5, <1>6, <1>7 DEF PageNext

\* The inductive invariant of the page holds in every reachable state.
THEOREM PageInvariantHolds == PageSpec => []PageInv
<1>1. PageInit => PageInv
  BY PageInitHolds
<1>2. PageInv /\ [PageNext]_pageVars => PageInv'
  BY PageNextHolds
<1> QED
  BY <1>1, <1>2, PTL DEF PageSpec

\* Every variable of the page keeps its domain; there are no more chains of
\* polls than the tab was hidden, and one (visibilitychange in documents-page).
THEOREM PageTypesHold == PageSpec => []PageTypeOK
<1>1. PageInv => PageTypeOK
  <2> SUFFICES ASSUME PageInv
               PROVE  PageTypeOK
    OBVIOUS
  <2>1. timers \in 0..(1 + MaxHides)
    BY PageAssumption DEF PageInv, Polling, HidesOK, ChainsAreCounted, Again
  <2>2. PageTyping
    BY DEF PageInv
  <2>3. load.rows \in [Docs -> Rows] /\ load.by \in Callers
    BY <2>2, LoadTypes DEF PageTyping
  <2>4. up.at \in {"idle", "source", "prepare", "accepted", "refused", "load", "again"}
    BY <2>2 DEF PageTyping, Uploads
  <2>5. \A d \in Docs : act[d].at \in {"idle", "index", "delete", "done", "load"}
    BY <2>2 DEF PageTyping, Acts
  <2> QED
    BY <2>1, <2>2, <2>3, <2>4, <2>5 DEF PageTyping, PageTypeOK, Callers
<1> QED
  BY <1>1, PageInvariantHolds, PTL

\* While the page shows something that is being processed, a poll waits or is
\* in flight: whichever request fails, overtakes another or is refused
\* because one is in flight, and however often the tab is hidden.
THEOREM ActiveIsFollowedHolds == PageSpec => []ActiveIsFollowed
<1>1. PageInv => ActiveIsFollowed
  BY DEF PageInv, Polling
<1> QED
  BY <1>1, PageInvariantHolds, PTL

\* And only then: once nothing on the page is active no poll waits, and the
\* one in flight schedules no other (the cleanup of the effect).
THEOREM PollsEnd == PageSpec => []PollsEndWithWork
<1>1. PageInv => PollsEndWithWork
  BY DEF PageInv, Polling
<1> QED
  BY <1>1, PageInvariantHolds, PTL

-----------------------------------------------------------------------------
(* The experiments: what the records tell.                                 *)

\* The one key whose record keeps an unsafe combination out of the finalists.
SafetyKey(v) ==
    [purpose |-> IF v = "v2|P1" THEN "presentation-safety" ELSE "cross-safety",
     variant |-> v, case |-> "unanswerable", run |-> 1, prompt |-> 0]

\* Where the unanswerable cases of a candidate are asked.
Planned(k) ==
    /\ k.purpose \notin {"idle", "complete"}
    /\ kind \in {"grounding", "ablation"} =>
           (k.case = "unanswerable" <=> k.purpose = "safety-3x")
    /\ kind = "validation" =>
           (k.case = "unanswerable" <=> k.purpose = "safety-v3-3x")
    /\ kind = "abstention" =>
           /\ k.case = "unanswerable" /\ k.variant \in Labels => k.purpose = "safety"
           /\ k.purpose = "safety" => k.case = "unanswerable"
    /\ kind = "presentation" =>
           /\ k.purpose = "baseline-unanswerable" => k.variant = "v2|P0"
           /\ k.purpose \in {"presentation-safety", "cross-safety"} =>
                  k = SafetyKey(k.variant)
           /\ k.purpose = "finalist-all-unanswerable" => k.case = "unanswerable"
           /\ k.case = "unanswerable" /\ k.variant # "v2|P0" =>
                  \/ k.purpose = "finalist-all-unanswerable"
                  \/ k = SafetyKey(k.variant)

\* A combination was only run through the unanswerable cases as a finalist
\* after its own safety case was recorded, and the record is an abstention.
EarnedIn(k, recs) ==
    kind = "presentation" /\ k.purpose = "finalist-all-unanswerable"
            /\ k.variant # "v2|P0" =>
        /\ SafetyKey(k.variant) \in DOMAIN recs
        /\ recs[SafetyKey(k.variant)] = "good"

Sound(recs) ==
    /\ IsFiniteSet(DOMAIN recs)
    /\ \A k \in DOMAIN recs : Planned(k) /\ EarnedIn(k, recs)

RunsInv ==
    /\ kind \in Kinds
    /\ Sound(disk) /\ Sound(mem)
    /\ todo \notin {Idle, Complete} =>
           Planned(todo) /\ EarnedIn(todo, mem) /\ todo \notin DOMAIN mem
    /\ Replaces /\ todo # Idle => mem = disk
    /\ WinnerIsSafe

\* The prompt that the keys of a plan name.
Asked == IF NamesPrompt THEN prompt ELSE 0

LEMMA RepeatKeys ==
    ASSUME NEW p, NEW vs, NEW c, NEW n, NEW k \in Repeat(p, vs, c, n)
    PROVE  /\ k.purpose = p /\ k.case = c /\ k.variant \in vs /\ k.run \in 1..n
           /\ k = Key(p, k.variant, c, k.run) /\ k.prompt = Asked
  BY DEF Repeat, Key, Asked

LEMMA TargetedKeys ==
    ASSUME NEW p, NEW vs, NEW k \in Targeted(p, vs)
    PROVE  k.purpose = p /\ k.case = "target" /\ k.prompt = Asked
  BY RepeatKeys DEF Targeted

LEMMA AnswerableKeys ==
    ASSUME NEW p, NEW vs, NEW k \in Answerable(p, vs)
    PROVE  k.purpose = p /\ k.case \in {"target", "other"} /\ k.prompt = Asked
  BY DEF Answerable, Key, Asked

LEMMA UnanswerableKeys ==
    ASSUME NEW p, NEW vs, NEW n, NEW k \in Unanswerable(p, vs, n)
    PROVE  /\ k.purpose = p /\ k.case = "unanswerable" /\ k.variant \in vs
           /\ k.run \in 1..n /\ k = Key(p, k.variant, "unanswerable", k.run)
           /\ k.prompt = Asked
  BY RepeatKeys DEF Unanswerable

\* What a plan asks for, kind by kind.
LEMMA SimpleKeys ==
    ASSUME NEW recs, NEW i, NEW k,
           \/ /\ kind = "capacity" /\ i \in DOMAIN CapacityStages
              /\ k \in CapacityStages[i]
           \/ /\ kind = "grounding" /\ i \in DOMAIN GroundingStages(recs)
              /\ k \in GroundingStages(recs)[i]
           \/ /\ kind = "validation" /\ i \in DOMAIN ValidationStages
              /\ k \in ValidationStages[i]
           \/ /\ kind = "sweep" /\ i \in DOMAIN SweepStages
              /\ k \in SweepStages[i]
    PROVE  Planned(k) /\ k.prompt = Asked /\ i \in 1..6
<1>1. CASE kind = "capacity"
  <2>1. \/ i = 1 /\ \E vs : k \in Targeted("targeted-5x", vs)
        \/ i = 2 /\ \E vs : k \in Repeat("full-answerable", vs, "other", 1)
        \/ i = 3 /\ \E vs : k \in Repeat("synthetic", vs, "synthetic", 1)
        \/ i = 4 /\ \E vs : k \in Unanswerable("safety-3x", vs, SafetyRuns)
    BY <1>1 DEF CapacityStages
  <2> QED
    BY <1>1, <2>1, TargetedKeys, RepeatKeys, UnanswerableKeys DEF Planned
<1>2. CASE kind = "grounding"
  <2>1. \/ i = 1 /\ \E vs : k \in Targeted("targeted-5x", vs)
        \/ i = 2 /\ \E vs : k \in Repeat("full-answerable", vs, "other", 1)
        \/ i = 3 /\ \E vs : k \in Repeat("synthetic", vs, "synthetic", 1)
        \/ i = 4 /\ \E vs : k \in Unanswerable("safety-3x", vs, SafetyRuns)
    BY <1>2 DEF GroundingStages
  <2> QED
    BY <1>2, <2>1, TargetedKeys, RepeatKeys, UnanswerableKeys DEF Planned
<1>3. CASE kind = "validation"
  <2>1. \/ i = 1 /\ \E vs : k \in Targeted("targeted-v3-5x", vs)
        \/ i = 2 /\ \E vs : k \in Answerable("full-answerable-same-run", vs)
        \/ i = 3 /\ \E vs : k \in Unanswerable("safety-v3-3x", vs, SafetyRuns)
    BY <1>3 DEF ValidationStages
  <2> QED
    BY <1>3, <2>1, TargetedKeys, AnswerableKeys, UnanswerableKeys DEF Planned
<1>4. CASE kind = "sweep"
  <2>1. i = 1 /\ \E c : k = Key("sweep", "v2", c, 1)
    BY <1>4 DEF SweepStages
  <2> QED
    BY <1>4, <2>1 DEF Planned, Key, Asked
<1> QED
  BY <1>1, <1>2, <1>3, <1>4

LEMMA AblationKeys ==
    ASSUME NEW i \in DOMAIN AblationStages, NEW k \in AblationStages[i],
           kind = "ablation"
    PROVE  Planned(k) /\ i \in 1..6
<1> DEFINE phases(v) == <<Targeted("targeted-5x", {v}),
                          Answerable("full-answerable", {v}),
                          Unanswerable("safety-3x", {v}, SafetyRuns)>>
<1>1. AblationStages = phases("A") \o phases("B")
  BY DEF AblationStages
<1>2. /\ Len(phases("A")) = 3 /\ Len(phases("B")) = 3
      /\ DOMAIN (phases("A") \o phases("B")) = 1..6
  OBVIOUS
<1>3. \E v : k \in phases(v)[1] \/ k \in phases(v)[2] \/ k \in phases(v)[3]
  <2> HIDE DEF phases
  <2>1. CASE i \in 1..3
    <3>1. AblationStages[i] = phases("A")[i]
      <4>1. (phases("A") \o phases("B"))[i] = phases("A")[i]
        BY <1>2, <2>1 DEF phases
      <4> QED
        BY <1>1, <4>1
    <3> QED
      BY <2>1, <3>1
  <2>2. CASE i \in 4..6
    <3>1. AblationStages[i] = phases("B")[i - 3]
      <4>1. (phases("A") \o phases("B"))[i] = phases("B")[i - 3]
        BY <1>2, <2>2 DEF phases
      <4> QED
        BY <1>1, <4>1
    <3>2. i - 3 = 1 \/ i - 3 = 2 \/ i - 3 = 3
      BY <2>2
    <3> QED
      BY <3>1, <3>2
  <2> QED
    BY <1>1, <1>2, <2>1, <2>2
<1>4. i \in 1..6
  BY <1>1, <1>2
<1>5. \/ \E v : k \in Targeted("targeted-5x", {v})
      \/ \E v : k \in Answerable("full-answerable", {v})
      \/ \E v : k \in Unanswerable("safety-3x", {v}, SafetyRuns)
  BY <1>3
<1>6. CASE \E v : k \in Targeted("targeted-5x", {v})
  BY <1>4, <1>6, TargetedKeys DEF Planned
<1>7. CASE \E v : k \in Answerable("full-answerable", {v})
  BY <1>4, <1>7, AnswerableKeys DEF Planned
<1>8. CASE \E v : k \in Unanswerable("safety-3x", {v}, SafetyRuns)
  BY <1>4, <1>8, UnanswerableKeys DEF Planned
<1> QED
  BY <1>5, <1>6, <1>7, <1>8

LEMMA AbstentionKeys ==
    ASSUME NEW recs, NEW i \in DOMAIN AbstentionStages(recs),
           NEW k \in AbstentionStages(recs)[i], kind = "abstention"
    PROVE  Planned(k) /\ i \in 1..6
<1>1. \/ \E c, r : k = Key("baseline", "legal-rag-v2", c, r)
      \/ k \in Repeat("targeted", Labels, "target", TargetRuns)
      \/ k \in Unanswerable("safety", Labels, 1)
      \/ \E vs : k \in Answerable("full", vs)
      \/ k = Key("order", "legal-rag-v2", "target", 201)
      \/ \E v : k = Key("minimal", v, "target", 301)
  <2>1. CASE i = 1
    BY <2>1 DEF AbstentionStages
  <2>2. CASE i = 2
    BY <2>2 DEF AbstentionStages
  <2>3. CASE i = 3
    BY <2>3 DEF AbstentionStages
  <2>4. CASE i = 4
    BY <2>4 DEF AbstentionStages
  <2>5. CASE i = 5
    BY <2>5 DEF AbstentionStages
  <2> QED
    BY <2>1, <2>2, <2>3, <2>4, <2>5 DEF AbstentionStages
<1>2. i \in 1..6
  BY DEF AbstentionStages
<1>3. CASE \/ \E c, r : k = Key("baseline", "legal-rag-v2", c, r)
           \/ k = Key("order", "legal-rag-v2", "target", 201)
           \/ \E v : k = Key("minimal", v, "target", 301)
  BY <1>2, <1>3 DEF Planned, Key, Labels
<1>4. CASE \/ k \in Repeat("targeted", Labels, "target", TargetRuns)
           \/ k \in Unanswerable("safety", Labels, 1)
           \/ \E vs : k \in Answerable("full", vs)
  BY <1>2, <1>4, RepeatKeys, AnswerableKeys, UnanswerableKeys DEF Planned
<1> QED
  BY <1>1, <1>3, <1>4

\* A combination goes on when its safety case was answered by an abstention.
LEMMA FinalistsAreSafe ==
    ASSUME NEW recs, Sound(recs), kind = "presentation",
           NEW v \in FinalistCombos(recs), v # "v2|P0"
    PROVE  /\ SafetyKey(v) \in DOMAIN recs /\ recs[SafetyKey(v)] = "good"
           /\ v \in {"compact|P0", "v2|P1", "compact|P1"}
<1>1. v \in Cross(recs) /\ Safe(recs, ComboSafety(recs, v))
  BY DEF FinalistCombos
<1>2. v \in {"compact|P0", "v2|P1", "compact|P1"}
  BY <1>1 DEF Cross
<1>3. PICK k \in ComboSafety(recs, v) : TRUE
  BY <1>1 DEF Safe
<1>4. k \in DOMAIN recs /\ k.variant = v /\ recs[k] = "good"
  BY <1>1, <1>3 DEF Safe, All, ComboSafety
<1>5. k.purpose \in {"presentation-safety", "cross-safety", "baseline-unanswerable"}
  BY <1>3 DEF ComboSafety
<1>6. k = SafetyKey(v)
  BY <1>4, <1>5 DEF Sound, Planned
<1> QED
  BY <1>2, <1>4, <1>6

LEMMA PresentationKeys ==
    ASSUME NEW recs, Sound(recs), NEW i \in DOMAIN PresentationStages(recs),
           NEW k \in PresentationStages(recs)[i], kind = "presentation"
    PROVE  Planned(k) /\ EarnedIn(k, recs) /\ i \in 1..6
<1> DEFINE crossed == Cross(recs) \ {"v2|P1"}
           finalists == FinalistCombos(recs)
<1>1. crossed \subseteq {"compact|P0", "compact|P1"}
  BY DEF Cross
<1>2. \/ \E p, vs : k \in Targeted(p, vs)
                       /\ p \in {"baseline-false", "presentation-screen", "cross-matrix"}
      \/ k \in Unanswerable("baseline-unanswerable", {"v2|P0"}, SafetyRuns)
      \/ k = Key("oracle", "v2|P0", "target", 1)
      \/ k \in Unanswerable("presentation-safety", {"v2|P1"}, 1)
      \/ k \in Unanswerable("cross-safety", crossed, 1)
      \/ k \in Repeat("finalist-all-answerable", finalists, "other", 1)
      \/ k \in Unanswerable("finalist-all-unanswerable", finalists, 1)
      \/ k = Key("duplicate", "previous-combined", "target", 1)
  BY DEF PresentationStages
<1>3. i \in 1..6
  BY DEF PresentationStages
<1>4. CASE \E p, vs : k \in Targeted(p, vs)
                       /\ p \in {"baseline-false", "presentation-screen", "cross-matrix"}
  BY <1>3, <1>4, TargetedKeys DEF Planned, EarnedIn
<1>5. CASE \/ k \in Unanswerable("baseline-unanswerable", {"v2|P0"}, SafetyRuns)
           \/ k \in Repeat("finalist-all-answerable", finalists, "other", 1)
  BY <1>3, <1>5, UnanswerableKeys, RepeatKeys DEF Planned, EarnedIn
<1>6. CASE \/ k = Key("oracle", "v2|P0", "target", 1)
           \/ k = Key("duplicate", "previous-combined", "target", 1)
  BY <1>3, <1>6 DEF Planned, EarnedIn, Key
<1>7. CASE \/ k \in Unanswerable("presentation-safety", {"v2|P1"}, 1)
           \/ k \in Unanswerable("cross-safety", crossed, 1)
  <2>1. /\ k.case = "unanswerable" /\ k.run = 1
        /\ \/ k.purpose = "presentation-safety" /\ k.variant = "v2|P1"
           \/ k.purpose = "cross-safety" /\ k.variant \in {"compact|P0", "compact|P1"}
        /\ k = Key(k.purpose, k.variant, k.case, k.run)
    BY <1>1, <1>7, UnanswerableKeys
  <2>2. k = SafetyKey(k.variant)
    BY <2>1 DEF Key, NamesPrompt, SafetyKey
  <2> QED
    BY <1>3, <2>1, <2>2 DEF Planned, EarnedIn
<1>8. CASE k \in Unanswerable("finalist-all-unanswerable", finalists, 1)
  <2>1. /\ k.purpose = "finalist-all-unanswerable" /\ k.variant \in finalists
        /\ k.case = "unanswerable"
    BY <1>8, UnanswerableKeys
  <2> QED
    BY <1>3, <2>1, FinalistsAreSafe DEF Planned, EarnedIn
<1> QED
  BY <1>2, <1>4, <1>5, <1>6, <1>7, <1>8

\* Every key a plan asks for is one of its kind, and earned.
LEMMA PlansAreSound ==
    ASSUME kind \in Kinds, NEW recs, Sound(recs),
           NEW i \in DOMAIN Stages(recs), NEW k \in Stages(recs)[i]
    PROVE  /\ Planned(k) /\ EarnedIn(k, recs) /\ i \in 1..6
           /\ NamesPrompt => k.prompt = prompt
<1> USE DEF NamesPrompt
<1>1. CASE kind \in {"capacity", "grounding", "validation", "sweep"}
  <2>1. Planned(k) /\ i \in 1..6 /\ k.prompt = Asked
    BY <1>1, SimpleKeys DEF Stages
  <2> QED
    BY <1>1, <2>1 DEF EarnedIn, Asked
<1>2. CASE kind = "ablation"
  BY <1>2, AblationKeys DEF Stages, EarnedIn
<1>3. CASE kind = "abstention"
  BY <1>3, AbstentionKeys DEF Stages, EarnedIn
<1>4. CASE kind = "presentation"
  BY <1>4, PresentationKeys DEF Stages
<1> QED
  BY <1>1, <1>2, <1>3, <1>4, ExperimentAssumption

LEMMA FirstOfSix ==
    ASSUME NEW open, open \subseteq 1..6, open # {}
    PROVE  \E i \in open : \A j \in open : i <= j
<1>1. CASE 1 \in open
  BY <1>1
<1>2. CASE 1 \notin open /\ 2 \in open
  BY <1>2
<1>3. CASE open \cap 1..2 = {} /\ 3 \in open
  BY <1>3
<1>4. CASE open \cap 1..3 = {} /\ 4 \in open
  BY <1>4
<1>5. CASE open \cap 1..4 = {} /\ 5 \in open
  BY <1>5
<1>6. CASE open \cap 1..5 = {}
  <2>1. open \subseteq {6}
    BY <1>6
  <2>2. open = {6}
    BY <2>1
  <2> QED
    BY <2>2
<1> QED
  BY <1>1, <1>2, <1>3, <1>4, <1>5, <1>6

LEMMA NextKeyIsPlanned ==
    ASSUME NEW plan, NEW recs, NextKey(plan, recs) # Complete,
           \A i \in DOMAIN plan : plan[i] # {} => i \in 1..6
    PROVE  /\ \E i \in DOMAIN plan : NextKey(plan, recs) \in plan[i]
           /\ NextKey(plan, recs) \notin DOMAIN recs
<1> DEFINE open == {i \in DOMAIN plan : ~(plan[i] \subseteq DOMAIN recs)}
           first == CHOOSE i \in open : \A j \in open : i <= j
           left == plan[first] \ DOMAIN recs
<1>1. open \subseteq 1..6 /\ open # {}
  BY DEF NextKey
<1>2. \E i \in open : \A j \in open : i <= j
  <2> HIDE DEF open
  <2> QED
    BY <1>1, FirstOfSix
<1>3. first \in open
  <2> HIDE DEF open
  <2> QED
    BY <1>2
<1>4. left # {} /\ first \in DOMAIN plan
  <2> HIDE DEF first
  <2> QED
    BY <1>3
<1>5. NextKey(plan, recs) = CHOOSE k \in left : TRUE
  BY <1>1 DEF NextKey
<1>6. NextKey(plan, recs) \in left
  <2> HIDE DEF left
  <2> QED
    BY <1>4, <1>5
<1> QED
  BY <1>4, <1>6

\* The records of this prompt are sound where all of them are.
LEMMA CurrentIsSound ==
    ASSUME NEW recs, Sound(recs)
    PROVE  Sound(Current(recs))
<1>1. CASE ~NamesPrompt
  BY <1>1 DEF Current
<1>2. CASE NamesPrompt
  <2>1. DOMAIN Current(recs) \subseteq DOMAIN recs
    BY <1>2 DEF Current
  <2>2. IsFiniteSet(DOMAIN Current(recs))
    BY <2>1, FS_Subset DEF Sound
  <2>3. \A k : EarnedIn(k, Current(recs))
    BY <1>2 DEF EarnedIn, NamesPrompt
  <2> QED
    BY <2>1, <2>2, <2>3 DEF Sound
<1> QED
  BY <1>1, <1>2

\* A process goes on with a key that it planned, from the records it has.
LEMMA GoOnIsSound ==
    ASSUME kind \in Kinds, NEW recs, Sound(recs), GoOn(recs),
           todo' \notin {Idle, Complete}
    PROVE  Planned(todo') /\ EarnedIn(todo', recs) /\ todo' \notin DOMAIN recs
<1> DEFINE current == Current(recs)
<1>1. todo' = NextKey(Stages(current), current)
  BY DEF GoOn
<1>2. Sound(current)
  BY CurrentIsSound
<1>3. \A i \in DOMAIN Stages(current) : Stages(current)[i] # {} => i \in 1..6
  BY <1>2, PlansAreSound
<1>4. /\ \E i \in DOMAIN Stages(current) : todo' \in Stages(current)[i]
      /\ todo' \notin DOMAIN current
  <2> HIDE DEF current
  <2> QED
    BY <1>1, <1>3, NextKeyIsPlanned
<1>5. /\ Planned(todo') /\ EarnedIn(todo', current)
      /\ NamesPrompt => todo'.prompt = prompt
  BY <1>2, <1>4, PlansAreSound
<1>6. kind = "presentation" => current = recs
  BY DEF Current, NamesPrompt
<1>7. todo' \notin DOMAIN recs
  BY <1>4, <1>5 DEF Current
<1> QED
  BY <1>5, <1>6, <1>7 DEF EarnedIn

\* A record is stored under a key that was planned from the records.
LEMMA RecordIsSound ==
    ASSUME NEW recs, Sound(recs), NEW k, Planned(k), EarnedIn(k, recs),
           k \notin DOMAIN recs, NEW o
    PROVE  /\ Sound(Store(recs, k, o))
           /\ \A j \in DOMAIN recs : /\ j \in DOMAIN Store(recs, k, o)
                                     /\ Store(recs, k, o)[j] = recs[j]
<1> DEFINE more == Store(recs, k, o)
<1>1. DOMAIN more = DOMAIN recs \cup {k}
  BY DEF Store
<1>2. \A j \in DOMAIN recs : more[j] = recs[j]
  BY DEF Store
<1>3. IsFiniteSet(DOMAIN more)
  BY <1>1, FS_AddElement DEF Sound
<1>4. \A j \in DOMAIN more : Planned(j) /\ EarnedIn(j, more)
  <2> HIDE DEF more
  <2> QED
    BY <1>1, <1>2 DEF Sound, EarnedIn
<1> QED
  BY <1>1, <1>2, <1>3, <1>4 DEF Sound

LEMMA NoRecordsAreSound == Sound(NoRecords)
<1>1. DOMAIN NoRecords = {}
  BY DEF NoRecords
<1> QED
  BY <1>1, FS_EmptySet DEF Sound

-----------------------------------------------------------------------------
(* The experiments: the candidate that a report names.                     *)

\* No candidate is chosen whose unanswerable cases are not all recorded as
\* abstentions, from whatever sound records.
SafeIn(v, recs) ==
    LET unanswerable == {k \in DOMAIN recs : k.variant = v /\ k.case = "unanswerable"}
    IN unanswerable # {} /\ \A k \in unanswerable : recs[k] = "good"

LEMMA SafePurpose ==
    ASSUME NEW recs, NEW v, NEW p, Safe(recs, Of(recs, p, v)),
           \A k \in DOMAIN recs : k.purpose = p => k.case = "unanswerable",
           \A k \in DOMAIN recs :
               k.variant = v /\ k.case = "unanswerable" => k.purpose = p
    PROVE  SafeIn(v, recs)
  BY DEF Safe, All, Of, SafeIn

LEMMA BestOfTwo ==
    ASSUME NEW vs \in SUBSET Labels, vs # {}, NEW f, \A v \in Labels : f[v] \in Nat
    PROVE  BestBy(vs, f) \in vs
<1>1. \E v \in vs : \A w \in vs : f[w] <= f[v]
  <2>1. CASE \E v \in vs : vs = {v}
    <3>1. PICK v \in vs : vs = {v}
      BY <2>1
    <3> QED
      BY <3>1
  <2>2. CASE vs = Labels
    <3>1. f["variant-a"] \in Nat /\ f["fewshot"] \in Nat
      BY DEF Labels
    <3> QED
      BY <2>2, <3>1 DEF Labels
  <2> QED
    BY <2>1, <2>2 DEF Labels
<1> QED
  BY <1>1 DEF BestBy

LEMMA GroundingIsSafe ==
    ASSUME NEW recs, Sound(recs), kind = "grounding",
           GroundingWinner(recs) # NoCandidate
    PROVE  SafeIn(GroundingWinner(recs), recs)
<1> DEFINE v == GroundingWinner(recs)
<1>1. Safe(recs, Of(recs, "safety-3x", v))
  BY DEF GroundingWinner
<1> QED
  BY <1>1, SafePurpose DEF Sound, Planned

LEMMA AblationIsSafe ==
    ASSUME NEW recs, Sound(recs), kind = "ablation",
           AblationWinner(recs) # NoCandidate
    PROVE  SafeIn(AblationWinner(recs), recs)
<1> DEFINE v == AblationWinner(recs)
<1>1. Safe(recs, Of(recs, "safety-3x", v))
  BY DEF AblationWinner
<1> QED
  BY <1>1, SafePurpose DEF Sound, Planned

LEMMA ValidationIsSafe ==
    ASSUME NEW recs, Sound(recs), kind = "validation",
           ValidationWinner(recs) # NoCandidate
    PROVE  SafeIn(ValidationWinner(recs), recs)
<1>1. /\ ValidationWinner(recs) = "v3"
      /\ Safe(recs, Of(recs, "safety-v3-3x", "v3"))
  BY DEF ValidationWinner
<1> QED
  BY <1>1, SafePurpose DEF Sound, Planned

LEMMA AbstentionIsSafe ==
    ASSUME NEW recs, Sound(recs), kind = "abstention",
           AbstentionWinner(recs) # NoCandidate
    PROVE  SafeIn(AbstentionWinner(recs), recs)
<1> DEFINE v == AbstentionWinner(recs)
           best == [w \in Labels |-> Full(recs, w)]
<1>1. EligibleLabels(recs) # {} /\ v = BestBy(EligibleLabels(recs), best)
  BY DEF AbstentionWinner
<1>2. \A w \in Labels : best[w] \in Nat
  <2> SUFFICES ASSUME NEW w \in Labels
               PROVE  Full(recs, w) \in Nat
    OBVIOUS
  <2> DEFINE good == {k \in Of(recs, "full", w) : recs[k] = "good"}
  <2>1. good \subseteq DOMAIN recs
    BY DEF Of
  <2>2. IsFiniteSet(good)
    BY <2>1, FS_Subset DEF Sound
  <2> QED
    BY <2>2, FS_CardinalityType DEF Full, Good
<1>3. EligibleLabels(recs) \in SUBSET Labels
  BY DEF EligibleLabels, SafeLabels
<1>4. v \in EligibleLabels(recs)
  <2> HIDE DEF best
  <2> QED
    BY <1>1, <1>2, <1>3, BestOfTwo
<1>5. v \in Labels /\ Safe(recs, Of(recs, "safety", v))
  BY <1>4 DEF EligibleLabels, SafeLabels
<1> QED
  BY <1>5, SafePurpose DEF Sound, Planned

LEMMA PresentationIsSafe ==
    ASSUME NEW recs, Sound(recs), kind = "presentation",
           PresentationWinner(recs) # NoCandidate
    PROVE  SafeIn(PresentationWinner(recs), recs)
<1> DEFINE v == PresentationWinner(recs)
<1>1. ComboAccepts(recs, v) /\ v # "v2|P0"
  BY DEF PresentationWinner
<1> HIDE DEF v
<1>2. Safe(recs, Of(recs, "finalist-all-unanswerable", v))
  BY <1>1 DEF ComboAccepts
<1>3. PICK k \in Of(recs, "finalist-all-unanswerable", v) : TRUE
  BY <1>2 DEF Safe
<1>4. /\ k \in DOMAIN recs /\ k.variant = v /\ k.case = "unanswerable"
      /\ recs[SafetyKey(v)] = "good"
  BY <1>1, <1>3 DEF Of, Sound, Planned, EarnedIn
<1>5. \A j \in DOMAIN recs : j.variant = v /\ j.case = "unanswerable" =>
          recs[j] = "good"
  BY <1>1, <1>2, <1>4 DEF Sound, Planned, Of, Safe, All
<1> QED
  BY <1>4, <1>5 DEF SafeIn, v

LEMMA WinnersAreSafe ==
    ASSUME kind \in Kinds, NEW recs, Sound(recs), Winner(recs) # NoCandidate
    PROVE  SafeIn(Winner(recs), recs)
  BY ExperimentAssumption, GroundingIsSafe, AblationIsSafe, ValidationIsSafe,
     AbstentionIsSafe, PresentationIsSafe DEF Winner

-----------------------------------------------------------------------------
(* The experiments: every step keeps the invariant.                        *)

LEMMA StartKeeps ==
    ASSUME RunsInv, NEW fresh \in BOOLEAN, Start(fresh)
    PROVE  RunsInv'
<1> DEFINE recs == IF fresh \/ Sweeps THEN NoRecords ELSE disk
<1>1. /\ kind \in Kinds /\ Sound(recs) /\ GoOn(recs) /\ mem' = recs
      /\ UNCHANGED <<kind, prompt, report>>
  BY NoRecordsAreSound DEF RunsInv, Start, GoOn
<1>2. disk' = NoRecords \/ disk' = disk
  BY DEF Start
<1>3. Sound(disk') /\ Sound(mem')
  BY <1>1, <1>2, NoRecordsAreSound DEF RunsInv
<1>4. Replaces => mem' = disk'
  BY <1>1 DEF Start, Sweeps, Replaces
<1> HIDE DEF recs
<1>5. todo' \notin {Idle, Complete} =>
          Planned(todo') /\ EarnedIn(todo', recs) /\ todo' \notin DOMAIN recs
  BY <1>1, GoOnIsSound
<1>6. WinnerIsSafe'
  BY <1>1 DEF RunsInv, WinnerIsSafe, IsReport
<1> QED
  BY <1>1, <1>3, <1>4, <1>5, <1>6
     DEF RunsInv, Sound, Planned, EarnedIn, SafetyKey, Labels, Replaces, Idle, Complete

LEMMA EnsureKeeps ==
    ASSUME RunsInv, Ensure
    PROVE  /\ RunsInv'
           /\ Replaces => \A k \in DOMAIN disk : k \in DOMAIN disk' /\ disk'[k] = disk[k]
<1>1. /\ todo \notin {Idle, Complete} /\ Planned(todo) /\ EarnedIn(todo, mem)
      /\ todo \notin DOMAIN mem /\ Sound(mem) /\ kind \in Kinds
      /\ UNCHANGED <<kind, prompt, report>>
  BY DEF RunsInv, Ensure
<1>2. PICK o : /\ GoOn(Store(mem, todo, o)) /\ disk' = Store(mem, todo, o)
  BY DEF Ensure
<1> DEFINE recs == Store(mem, todo, o)
<1>3. /\ Sound(recs)
      /\ \A j \in DOMAIN mem : j \in DOMAIN recs /\ recs[j] = mem[j]
  BY <1>1, RecordIsSound
<1> HIDE DEF recs
<1>4. disk' = recs /\ mem' = recs
  BY <1>2 DEF GoOn, recs
<1>5. todo' \notin {Idle, Complete} =>
          Planned(todo') /\ EarnedIn(todo', recs) /\ todo' \notin DOMAIN recs
  BY <1>1, <1>2, <1>3, GoOnIsSound DEF recs
<1>6. WinnerIsSafe'
  BY <1>1 DEF RunsInv, WinnerIsSafe, IsReport
<1>7. RunsInv'
  BY <1>1, <1>3, <1>4, <1>5, <1>6
     DEF RunsInv, Sound, Planned, EarnedIn, SafetyKey, Labels, Replaces, Idle, Complete
<1>8. Replaces => mem = disk
  BY <1>1 DEF RunsInv
<1> QED
  BY <1>3, <1>4, <1>7, <1>8

LEMMA EndKeeps ==
    ASSUME RunsInv, RunFails \/ KilledInSave \/ KilledInReport
    PROVE  RunsInv'
<1>1. /\ todo' = Idle /\ mem' = NoRecords /\ UNCHANGED kind
      /\ disk' = disk \/ disk' = NoRecords
      /\ UNCHANGED <<report, prompt>> \/ report' = TornReport
  BY DEF RunFails, KilledInSave, KilledInReport, Gone
<1>2. Sound(disk') /\ Sound(mem')
  BY <1>1, NoRecordsAreSound DEF RunsInv
<1>3. WinnerIsSafe'
  BY <1>1 DEF RunsInv, WinnerIsSafe, IsReport, TornReport
<1> QED
  BY <1>1, <1>2, <1>3 DEF RunsInv, Sound, Planned, EarnedIn, SafetyKey, Labels, Idle

LEMMA ReportKeeps ==
    ASSUME RunsInv, Report
    PROVE  RunsInv'
<1> DEFINE recs == Current(mem)
<1>1. /\ todo' = Idle /\ mem' = NoRecords /\ UNCHANGED <<kind, prompt, disk>>
      /\ report' = [is |-> "report", records |-> recs, winner |-> Winner(recs)]
  BY DEF Report
<1>2. Sound(recs) /\ kind \in Kinds
  BY CurrentIsSound DEF RunsInv
<1>3. Sound(disk') /\ Sound(mem')
  BY <1>1, NoRecordsAreSound DEF RunsInv
<1>4. WinnerIsSafe'
  <2> HIDE DEF recs
  <2>1. Winner(recs) # NoCandidate => SafeIn(Winner(recs), recs)
    BY <1>2, WinnersAreSafe
  <2> QED
    BY <1>1, <2>1 DEF WinnerIsSafe, SafeIn, IsReport, NoCandidate
<1> QED
  BY <1>1, <1>3, <1>4
     DEF RunsInv, Sound, Planned, EarnedIn, SafetyKey, Labels, Idle

\* The prompts and everything else may change while no run is going.
LEMMA EditKeeps ==
    ASSUME RunsInv, EditPrompt \/ UNCHANGED runsVars
    PROVE  RunsInv'
<1>1. /\ UNCHANGED <<kind, disk, mem, todo, report>>
      /\ (todo = Idle /\ ~IsReport) \/ UNCHANGED prompt
  BY DEF EditPrompt, runsVars
<1>2. WinnerIsSafe'
  BY <1>1 DEF RunsInv, WinnerIsSafe, IsReport
<1> QED
  BY <1>1, <1>2
     DEF RunsInv, Sound, Planned, EarnedIn, SafetyKey, Labels, Replaces, Idle, Complete

LEMMA RunsInitHolds == RunsInit => RunsInv
<1> SUFFICES ASSUME RunsInit
             PROVE  RunsInv
  OBVIOUS
<1>1. kind \in Kinds /\ Sound(disk) /\ Sound(mem) /\ todo = Idle /\ ~IsReport
  BY NoRecordsAreSound DEF RunsInit, IsReport, NoReport
<1> QED
  BY <1>1 DEF RunsInv, WinnerIsSafe

LEMMA RunsNextHolds == RunsInv /\ [RunsNext]_runsVars => RunsInv'
<1> SUFFICES ASSUME RunsInv, [RunsNext]_runsVars
             PROVE  RunsInv'
  OBVIOUS
<1> QED
  BY StartKeeps, EnsureKeeps, EndKeeps, ReportKeeps, EditKeeps DEF RunsNext

\* The inductive invariant of the experiments holds in every reachable state.
THEOREM RunsInvariantHolds == RunsSpec => []RunsInv
  BY RunsInitHolds, RunsNextHolds, PTL DEF RunsSpec

\* The runners keep their types: a stored outcome is one its key can have.
THEOREM RunsTypesHold == RunsSpec => []RunsTypeOK
<1> USE DEF RunsTypeOK, NoReport, TornReport
<1>1. RunsInit => RunsTypeOK
  <2> SUFFICES ASSUME RunsInit
               PROVE  RunsTypeOK
    OBVIOUS
  <2>1. disk = NoRecords /\ mem = NoRecords /\ prior = NoRecords
    BY DEF RunsInit
  <2>2. DOMAIN NoRecords = {}
    BY DEF NoRecords
  <2>3. prompt \in 0..MaxPrompt /\ faults \in 0..MaxFaults
    BY ExperimentAssumption DEF RunsInit
  <2> QED
    BY <2>1, <2>2, <2>3 DEF RunsInit
<1>2. RunsTypeOK /\ [RunsNext]_runsVars => RunsTypeOK'
  <2> SUFFICES ASSUME RunsTypeOK, [RunsNext]_runsVars
               PROVE  RunsTypeOK'
    OBVIOUS
  <2>1. ASSUME NEW fresh \in BOOLEAN, Start(fresh)
        PROVE  RunsTypeOK'
    <3>1. /\ disk' \in {NoRecords, disk} /\ mem' \in {NoRecords, disk}
          /\ prior' \in {NoRecords, disk} /\ torn' \in BOOLEAN
          /\ UNCHANGED <<kind, prompt, report, faults>>
      BY <2>1 DEF Start, GoOn
    <3> QED
      BY <3>1 DEF NoRecords, Outcomes
  <2>2. CASE Ensure
    <3>1. PICK o \in Outcomes(todo) :
              GoOn(Store(mem, todo, o)) /\ disk' = Store(mem, todo, o)
      BY <2>2 DEF Ensure
    <3>2. /\ mem' = disk' /\ disk' = Store(mem, todo, o) /\ torn' = FALSE
          /\ UNCHANGED <<kind, prompt, prior, report, faults>>
      BY <2>2, <3>1 DEF Ensure, GoOn
    <3>3. \A k \in DOMAIN disk' : disk'[k] \in Outcomes(k)
      BY <3>2 DEF Store
    <3> QED
      BY <3>2, <3>3 DEF Outcomes
  <2>3. CASE RunFails \/ KilledInSave \/ KilledInReport
    <3>1. /\ disk' \in {NoRecords, disk} /\ mem' = NoRecords /\ prior' = NoRecords
          /\ UNCHANGED <<kind, prompt>>
      BY <2>3 DEF RunFails, KilledInSave, KilledInReport, Gone
    <3>2. faults' \in 0..MaxFaults
      BY <2>3, ExperimentAssumption DEF RunFails, KilledInSave, KilledInReport, Gone
    <3>3. torn' \in BOOLEAN /\ report'.is \in {"none", "torn", "report"}
      <4>1. torn' \in BOOLEAN
        BY <2>3 DEF RunFails, KilledInSave, KilledInReport
      <4>2. report'.is \in {"none", "torn", "report"}
        BY <2>3 DEF RunFails, KilledInSave, KilledInReport
      <4> QED
        BY <4>1, <4>2
    <3>4. \A recs \in {disk', mem', prior'} :
              \A k \in DOMAIN recs : recs[k] \in Outcomes(k)
      <4>1. DOMAIN NoRecords = {}
        BY DEF NoRecords
      <4> QED
        BY <3>1, <4>1
    <3>5. \A k : Outcomes(k)' = Outcomes(k)
      BY <3>1 DEF Outcomes
    <3> QED
      BY <3>1, <3>2, <3>3, <3>4, <3>5
  <2>4. CASE Report
    BY <2>4 DEF Report, NoRecords, Outcomes
  <2>5. CASE EditPrompt
    BY <2>5, ExperimentAssumption DEF EditPrompt, Outcomes
  <2>6. CASE UNCHANGED runsVars
    BY <2>6 DEF runsVars, Outcomes
  <2> QED
    BY <2>1, <2>2, <2>3, <2>4, <2>5, <2>6 DEF RunsNext
<1> QED
  BY <1>1, <1>2, PTL DEF RunsSpec

\* However often it was interrupted and resumed, and whatever prompts its records
\* were made with, a report names a candidate only from records that hold each
\* unanswerable case of the candidate as an abstention (promotion gates).
THEOREM WinnerIsSafeHolds == RunsSpec => []WinnerIsSafe
<1>1. RunsInv => WinnerIsSafe
  BY DEF RunsInv
<1> QED
  BY <1>1, RunsInvariantHolds, PTL

\* No step but a fresh start takes a recorded answer out of a store that
\* replaces its file, or changes one (ProgressStore.ensure and save).
THEOREM RecordsAreKeptHolds == RunsSpec => RecordsAreKept
<1> DEFINE Kept == Replaces =>
               \/ \A k \in DOMAIN disk : k \in DOMAIN disk' /\ disk'[k] = disk[k]
               \/ Start(TRUE)
<1>1. RunsInv /\ [RunsNext]_runsVars => [Kept]_runsVars
  <2> SUFFICES ASSUME RunsInv, RunsNext, Replaces, ~Start(TRUE)
               PROVE  \A k \in DOMAIN disk : k \in DOMAIN disk' /\ disk'[k] = disk[k]
    OBVIOUS
  <2>1. CASE Ensure
    BY <2>1, EnsureKeeps
  <2>2. CASE ~Ensure
    <3>1. Start(FALSE) \/ RunFails \/ KilledInReport \/ Report \/ EditPrompt
      BY <2>2 DEF RunsNext, KilledInSave
    <3>2. disk' = disk
      BY <3>1 DEF Start, RunFails, KilledInReport, Report, EditPrompt
    <3> QED
      BY <3>2
  <2> QED
    BY <2>1, <2>2
<1> QED
  BY <1>1, RunsInvariantHolds, PTL DEF RunsSpec, RecordsAreKept

\* A combination of prompt and presentation goes through the unanswerable cases
\* only after its own safety case was recorded as an abstention, also in a run
\* that is resumed (evidence_presentation_v1/runner.py).
THEOREM FinalistsAreEarned == RunsSpec => [](\A k \in DOMAIN disk : EarnedIn(k, disk))
<1>1. RunsInv => \A k \in DOMAIN disk : EarnedIn(k, disk)
  BY DEF RunsInv, Sound
<1> QED
  BY <1>1, RunsInvariantHolds, PTL

=============================================================================
