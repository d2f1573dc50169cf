------------------------ MODULE ControlChannelProofs ------------------------
(***************************************************************************)
(* Proofs about ControlChannel, for any number of documents, threads,      *)
(* faults, restarts and crashes.                                           *)
(*                                                                         *)
(* What keeps a document pending until the platform knows it is a chain:   *)
(* an outbox row that is pending has a revision (PendingHasRow), so every  *)
(* manifest that is collected, sent or late has one; the platform never    *)
(* forgets a manifest, so one that was answered is stored (AnsweredMeans-  *)
(* Stored), and only an answered one is marked.                            *)
(***************************************************************************)
EXTENDS ControlChannel, TLAPS

PendingHasRow == \A d \in pending : revision[d] > 0

AnsweredMeansStored ==
    \A t \in Threads :
        pc[t] = "answered" /\ req[t].doc # NoDoc => stored[req[t].doc] > 0

\* A dead process runs no thread and has no channel.
DownIsQuiet ==
    mpc = "down" => state = "DISCONNECTED" /\ \A t \in Threads : pc[t] = "off"

IInv ==
    /\ TypeOK
    /\ PendingHasRow
    /\ AnsweredMeansStored
    /\ StoredBeforeMarked
    /\ DownIsQuiet
    /\ HaltedRuntime

\* A request that is not a heartbeat is a manifest, of some revision.
LEMMA RequestKinds ==
    ASSUME NEW r \in Requests
    PROVE  /\ r.n \in Nat
           /\ r.doc # NoDoc => r \in Manifests /\ r.doc \in Docs /\ r.n \in 1..MaxRev /\ r.n > 0
  BY ConstantsAssumption DEF Requests, Manifests, Heartbeats

LEMMA NoRequestIsOne == NoRequest \in Requests /\ NoRequest.doc = NoDoc
  BY DEF NoRequest, Requests, Heartbeats

\* The platform writes one of its two tables, and never forgets a manifest.
LEMMA StoreKeeps ==
    ASSUME NEW r \in Requests, Store(r),
           stored \in [Docs -> 0..MaxRev], seen \in Nat
    PROVE  /\ stored' \in [Docs -> 0..MaxRev]
           /\ seen' \in Nat
           /\ r.doc # NoDoc => stored'[r.doc] > 0
           /\ \A d \in Docs : stored[d] > 0 => stored'[d] > 0
<1>1. CASE r.doc = NoDoc
  BY <1>1, RequestKinds DEF Store
<1>2. CASE r.doc # NoDoc
  <2>1. r.doc \in Docs /\ r.n \in 1..MaxRev /\ r.n > 0
    BY <1>2, RequestKinds
  <2>2. stored' = [stored EXCEPT ![r.doc] = r.n] /\ seen' = seen
    BY <1>2 DEF Store
  <2> QED BY <2>1, <2>2, ConstantsAssumption
<1> QED BY <1>1, <1>2

LEMMA InitHolds == Init => IInv
<1> SUFFICES ASSUME Init PROVE IInv
  OBVIOUS
<1> USE ConstantsAssumption DEF Init
<1>1. revision \in [Docs -> 0..MaxRev] /\ stored \in [Docs -> 0..MaxRev]
  OBVIOUS
<1>2. req \in [Threads -> Requests] /\ todo \in [Threads -> SUBSET Manifests]
  BY NoRequestIsOne
<1>3. pc \in [Threads -> ThreadPcs] /\ state \in ChannelStates
  BY DEF ThreadPcs, ChannelStates
<1>4. /\ faults \in 0..MaxFaults /\ restarts \in 0..MaxRestarts
      /\ crashes \in 0..MaxCrashes /\ gen \in Nat /\ seen \in Nat
  OBVIOUS
<1>5. late \subseteq [request : Requests, authed : BOOLEAN] /\ pending \subseteq Docs
  OBVIOUS
<1>6. TypeOK
  BY <1>1, <1>2, <1>3, <1>4, <1>5 DEF TypeOK
<1>7. PendingHasRow /\ AnsweredMeansStored /\ StoredBeforeMarked
  BY DEF PendingHasRow, AnsweredMeansStored, StoredBeforeMarked
<1>8. DownIsQuiet /\ HaltedRuntime
  BY DEF DownIsQuiet, HaltedRuntime, Terminal
<1> QED BY <1>6, <1>7, <1>8 DEF IInv

\* What a tick collects are manifests.
LEMMA CollectedAreManifests ==
    ASSUME TypeOK, PendingHasRow
    PROVE  {[doc |-> d, n |-> revision[d]] : d \in pending} \in SUBSET Manifests
<1> SUFFICES ASSUME NEW d \in pending
             PROVE  [doc |-> d, n |-> revision[d]] \in Manifests
  OBVIOUS
<1>1. d \in Docs /\ revision[d] \in 0..MaxRev /\ revision[d] > 0
  BY DEF TypeOK, PendingHasRow
<1>2. revision[d] \in 1..MaxRev
  BY <1>1, ConstantsAssumption
<1> QED BY <1>1, <1>2 DEF Manifests

LEMMA ManifestsAreRequests == Manifests \subseteq Requests
  BY DEF Requests

\* Every step keeps the types.
LEMMA TypeStep ==
    ASSUME IInv, [Next]_vars
    PROVE  TypeOK'
<1> USE ConstantsAssumption
    DEF outboxVars, channelVars, processVars, threadVars, platformVars, counters,
        IInv, TypeOK, ChannelStates, Terminal, ThreadPcs, InFlight
<1>1. CASE UNCHANGED vars
  BY <1>1 DEF vars
<1>2. ASSUME NEW d \in Docs, EnqueueManifest(d) PROVE TypeOK'
  BY <1>2 DEF EnqueueManifest
<1>3. ASSUME NEW t \in Threads, Continue(t) PROVE TypeOK'
  BY <1>3 DEF Continue
<1>4. ASSUME NEW t \in Threads, EndLoop(t) PROVE TypeOK'
  BY <1>4 DEF EndLoop
<1>5. ASSUME NEW t \in Threads, PublishPresence(t) PROVE TypeOK'
  <2>1. [doc |-> NoDoc, n |-> gen] \in Requests
    BY DEF Requests, Heartbeats
  <2> QED BY <1>5, <2>1 DEF PublishPresence
<1>6. ASSUME NEW t \in Threads, CollectPending(t) PROVE TypeOK'
  BY <1>6, CollectedAreManifests, NoRequestIsOne DEF CollectPending
<1>7. ASSUME NEW t \in Threads, PublishManifest(t) PROVE TypeOK'
  BY <1>7, ManifestsAreRequests DEF PublishManifest
<1>8. ASSUME NEW t \in Threads, MarkDelivered(t) PROVE TypeOK'
  BY <1>8, NoRequestIsOne DEF MarkDelivered
<1>9. ASSUME NEW t \in Threads, FinishTick(t) PROVE TypeOK'
  BY <1>9 DEF FinishTick
<1>10. ASSUME NEW t \in Threads, Refused(t) PROVE TypeOK'
  BY <1>10, NoRequestIsOne DEF Refused
<1>11. ASSUME NEW t \in Threads, RevokeRuntime(t) PROVE TypeOK'
  BY <1>11 DEF RevokeRuntime
<1>12. ASSUME NEW t \in Threads, Outdated(t) PROVE TypeOK'
  BY <1>12, NoRequestIsOne DEF Outdated
<1>13. ASSUME NEW t \in Threads, SetUpdateRequired(t) PROVE TypeOK'
  BY <1>13 DEF SetUpdateRequired
<1>14. ASSUME NEW t \in Threads, Authenticate(t) PROVE TypeOK'
  BY <1>14 DEF Authenticate
<1>15. ASSUME NEW t \in Threads, Handle(t) PROVE TypeOK'
  BY <1>15, StoreKeeps DEF Handle
<1>16. ASSUME NEW t \in Threads, Unanswered(t) PROVE TypeOK'
  <2>1. [request |-> req[t], authed |-> pc[t] = "authed"]
          \in [request : Requests, authed : BOOLEAN]
    OBVIOUS
  <2>2. late' \subseteq [request : Requests, authed : BOOLEAN]
    BY <1>16, <2>1 DEF Unanswered
  <2> QED BY <1>16, <2>2, NoRequestIsOne DEF Unanswered
<1>17. CASE HandleLate
  BY <1>17, StoreKeeps DEF HandleLate
<1>18. CASE Revoke
  BY <1>18 DEF Revoke
<1>19. CASE Upgrade
  BY <1>19 DEF Upgrade
<1>20. CASE Launch
  BY <1>20 DEF Launch, StartThread
<1>21. CASE Watchdog
  BY <1>21 DEF Watchdog, StartThread
<1>22. CASE StopReturns
  BY <1>22 DEF StopReturns
<1>23. CASE Boot
  BY <1>23 DEF Boot
<1>24. CASE RequestStop
  BY <1>24 DEF RequestStop
<1>25. CASE Crash
  <2>1. PICK S \in SUBSET {t \in Threads : pc[t] \in {"sent", "authed"}} :
          late' = late \cup
                  {[request |-> req[t], authed |-> pc[t] = "authed"] : t \in S}
    BY <1>25 DEF Crash
  <2> DEFINE Late == [request : Requests, authed : BOOLEAN]
  <2>2. \A t \in Threads : [request |-> req[t], authed |-> pc[t] = "authed"] \in Late
    OBVIOUS
  <2>3. ASSUME NEW l \in late' PROVE l \in Late
    <3>1. CASE l \in late
      BY <3>1
    <3>2. CASE l \notin late
      <4>1. PICK t \in S : l = [request |-> req[t], authed |-> pc[t] = "authed"]
        BY <2>1, <3>2
      <4> QED BY <4>1, <2>2
    <3> QED BY <3>1, <3>2
  <2>4. /\ mpc' = "down" /\ runtime' = "OFFLINE" /\ state' = "DISCONNECTED"
        /\ stopEvent' = FALSE /\ thread' = NoThread
        /\ crashes < MaxCrashes /\ crashes' = crashes + 1
        /\ pc' = [t \in Threads |-> "off"]
        /\ req' = [t \in Threads |-> NoRequest]
        /\ todo' = [t \in Threads |-> {}]
        /\ UNCHANGED <<outboxVars, gen, platformVars, faults, restarts>>
    BY <1>25 DEF Crash
  <2>5. late' \subseteq [request : Requests, authed : BOOLEAN]
    BY <2>3
  <2>6. /\ pc' \in [Threads -> ThreadPcs]
        /\ req' \in [Threads -> Requests]
        /\ todo' \in [Threads -> SUBSET Manifests]
    BY <2>4, NoRequestIsOne
  <2>7. crashes' \in 0..MaxCrashes
    BY <2>4
  <2>8. /\ revision' \in [Docs -> 0..MaxRev] /\ pending' \subseteq Docs
        /\ stored' \in [Docs -> 0..MaxRev] /\ seen' \in Nat /\ gen' \in Nat
        /\ revoked' \in BOOLEAN /\ upgraded' \in BOOLEAN
        /\ faults' \in 0..MaxFaults /\ restarts' \in 0..MaxRestarts
    BY <2>4
  <2>9. /\ state' \in ChannelStates /\ stopEvent' \in BOOLEAN
        /\ thread' \in Threads \cup {NoThread}
        /\ runtime' \in {"OFFLINE", "READY"} \cup Terminal
        /\ mpc' \in {"down", "stopped", "run", "joining"}
    BY <2>4
  <2> QED BY <2>5, <2>6, <2>7, <2>8, <2>9
<1> QED
  BY <1>1, <1>2, <1>3, <1>4, <1>5, <1>6, <1>7, <1>8, <1>9, <1>10, <1>11,
     <1>12, <1>13, <1>14, <1>15, <1>16, <1>17, <1>18, <1>19, <1>20, <1>21,
     <1>22, <1>23, <1>24, <1>25
  DEF Next, Heartbeat, Launcher

\* A row that is pending keeps its revision, and rows are only added with one.
LEMMA RowStep ==
    ASSUME IInv, [Next]_vars
    PROVE  PendingHasRow'
<1> USE ConstantsAssumption
    DEF outboxVars, channelVars, processVars, threadVars, platformVars, counters,
        IInv, TypeOK, PendingHasRow
<1>1. CASE UNCHANGED vars
  BY <1>1 DEF vars
<1>2. ASSUME NEW d \in Docs, EnqueueManifest(d) PROVE PendingHasRow'
  BY <1>2 DEF EnqueueManifest
<1>3. ASSUME NEW t \in Threads, Continue(t) PROVE PendingHasRow'
  BY <1>3 DEF Continue
<1>4. ASSUME NEW t \in Threads, EndLoop(t) PROVE PendingHasRow'
  BY <1>4 DEF EndLoop
<1>5. ASSUME NEW t \in Threads, PublishPresence(t) PROVE PendingHasRow'
  BY <1>5 DEF PublishPresence
<1>6. ASSUME NEW t \in Threads, CollectPending(t) PROVE PendingHasRow'
  BY <1>6 DEF CollectPending
<1>7. ASSUME NEW t \in Threads, PublishManifest(t) PROVE PendingHasRow'
  BY <1>7 DEF PublishManifest
<1>8. ASSUME NEW t \in Threads, MarkDelivered(t) PROVE PendingHasRow'
  BY <1>8 DEF MarkDelivered
<1>9. ASSUME NEW t \in Threads, FinishTick(t) PROVE PendingHasRow'
  BY <1>9 DEF FinishTick
<1>10. ASSUME NEW t \in Threads, Refused(t) PROVE PendingHasRow'
  BY <1>10 DEF Refused
<1>11. ASSUME NEW t \in Threads, RevokeRuntime(t) PROVE PendingHasRow'
  BY <1>11 DEF RevokeRuntime
<1>12. ASSUME NEW t \in Threads, Outdated(t) PROVE PendingHasRow'
  BY <1>12 DEF Outdated
<1>13. ASSUME NEW t \in Threads, SetUpdateRequired(t) PROVE PendingHasRow'
  BY <1>13 DEF SetUpdateRequired
<1>14. ASSUME NEW t \in Threads, Authenticate(t) PROVE PendingHasRow'
  BY <1>14 DEF Authenticate
<1>15. ASSUME NEW t \in Threads, Handle(t) PROVE PendingHasRow'
  BY <1>15 DEF Handle
<1>16. ASSUME NEW t \in Threads, Unanswered(t) PROVE PendingHasRow'
  BY <1>16 DEF Unanswered
<1>17. CASE HandleLate
  BY <1>17 DEF HandleLate
<1>18. CASE Revoke
  BY <1>18 DEF Revoke
<1>19. CASE Upgrade
  BY <1>19 DEF Upgrade
<1>20. CASE Launch
  BY <1>20 DEF Launch, StartThread
<1>21. CASE Watchdog
  BY <1>21 DEF Watchdog, StartThread
<1>22. CASE StopReturns
  BY <1>22 DEF StopReturns
<1>23. CASE Boot
  BY <1>23 DEF Boot
<1>24. CASE RequestStop
  BY <1>24 DEF RequestStop
<1>25. CASE Crash
  BY <1>25 DEF Crash
<1> QED
  BY <1>1, <1>2, <1>3, <1>4, <1>5, <1>6, <1>7, <1>8, <1>9, <1>10, <1>11,
     <1>12, <1>13, <1>14, <1>15, <1>16, <1>17, <1>18, <1>19, <1>20, <1>21,
     <1>22, <1>23, <1>24, <1>25
  DEF Next, Heartbeat, Launcher

\* An answered manifest stays stored.
LEMMA AnswerStep ==
    ASSUME IInv, [Next]_vars
    PROVE  AnsweredMeansStored'
<1> USE ConstantsAssumption
    DEF outboxVars, channelVars, processVars, threadVars, platformVars, counters,
        IInv, TypeOK, AnsweredMeansStored
<1>1. CASE UNCHANGED vars
  BY <1>1 DEF vars
<1>2. ASSUME NEW d \in Docs, EnqueueManifest(d) PROVE AnsweredMeansStored'
  BY <1>2 DEF EnqueueManifest
<1>3. ASSUME NEW t \in Threads, Continue(t) PROVE AnsweredMeansStored'
  BY <1>3 DEF Continue
<1>4. ASSUME NEW t \in Threads, EndLoop(t) PROVE AnsweredMeansStored'
  BY <1>4 DEF EndLoop
<1>5. ASSUME NEW t \in Threads, PublishPresence(t) PROVE AnsweredMeansStored'
  BY <1>5 DEF PublishPresence
<1>6. ASSUME NEW t \in Threads, CollectPending(t) PROVE AnsweredMeansStored'
  BY <1>6 DEF CollectPending
<1>7. ASSUME NEW t \in Threads, PublishManifest(t) PROVE AnsweredMeansStored'
  BY <1>7 DEF PublishManifest
<1>8. ASSUME NEW t \in Threads, MarkDelivered(t) PROVE AnsweredMeansStored'
  BY <1>8 DEF MarkDelivered
<1>9. ASSUME NEW t \in Threads, FinishTick(t) PROVE AnsweredMeansStored'
  BY <1>9 DEF FinishTick
<1>10. ASSUME NEW t \in Threads, Refused(t) PROVE AnsweredMeansStored'
  BY <1>10 DEF Refused
<1>11. ASSUME NEW t \in Threads, RevokeRuntime(t) PROVE AnsweredMeansStored'
  BY <1>11 DEF RevokeRuntime
<1>12. ASSUME NEW t \in Threads, Outdated(t) PROVE AnsweredMeansStored'
  BY <1>12 DEF Outdated
<1>13. ASSUME NEW t \in Threads, SetUpdateRequired(t) PROVE AnsweredMeansStored'
  BY <1>13 DEF SetUpdateRequired
<1>14. ASSUME NEW t \in Threads, Authenticate(t) PROVE AnsweredMeansStored'
  BY <1>14 DEF Authenticate
<1>15. ASSUME NEW t \in Threads, Handle(t) PROVE AnsweredMeansStored'
  BY <1>15, StoreKeeps, RequestKinds DEF Handle
<1>16. ASSUME NEW t \in Threads, Unanswered(t) PROVE AnsweredMeansStored'
  BY <1>16 DEF Unanswered
<1>17. CASE HandleLate
  BY <1>17, StoreKeeps, RequestKinds DEF HandleLate
<1>18. CASE Revoke
  BY <1>18 DEF Revoke
<1>19. CASE Upgrade
  BY <1>19 DEF Upgrade
<1>20. CASE Launch
  BY <1>20 DEF Launch, StartThread
<1>21. CASE Watchdog
  BY <1>21 DEF Watchdog, StartThread
<1>22. CASE StopReturns
  BY <1>22 DEF StopReturns
<1>23. CASE Boot
  BY <1>23 DEF Boot
<1>24. CASE RequestStop
  BY <1>24 DEF RequestStop
<1>25. CASE Crash
  BY <1>25 DEF Crash
<1> QED
  BY <1>1, <1>2, <1>3, <1>4, <1>5, <1>6, <1>7, <1>8, <1>9, <1>10, <1>11,
     <1>12, <1>13, <1>14, <1>15, <1>16, <1>17, <1>18, <1>19, <1>20, <1>21,
     <1>22, <1>23, <1>24, <1>25
  DEF Next, Heartbeat, Launcher

\* Only an answered manifest closes a row.
LEMMA MarkStep ==
    ASSUME IInv, [Next]_vars
    PROVE  StoredBeforeMarked'
<1> USE ConstantsAssumption
    DEF outboxVars, channelVars, processVars, threadVars, platformVars, counters,
        IInv, TypeOK, PendingHasRow, AnsweredMeansStored, StoredBeforeMarked
<1>1. CASE UNCHANGED vars
  BY <1>1 DEF vars
<1>2. ASSUME NEW d \in Docs, EnqueueManifest(d) PROVE StoredBeforeMarked'
  BY <1>2 DEF EnqueueManifest
<1>3. ASSUME NEW t \in Threads, Continue(t) PROVE StoredBeforeMarked'
  BY <1>3 DEF Continue
<1>4. ASSUME NEW t \in Threads, EndLoop(t) PROVE StoredBeforeMarked'
  BY <1>4 DEF EndLoop
<1>5. ASSUME NEW t \in Threads, PublishPresence(t) PROVE StoredBeforeMarked'
  BY <1>5 DEF PublishPresence
<1>6. ASSUME NEW t \in Threads, CollectPending(t) PROVE StoredBeforeMarked'
  BY <1>6 DEF CollectPending
<1>7. ASSUME NEW t \in Threads, PublishManifest(t) PROVE StoredBeforeMarked'
  BY <1>7 DEF PublishManifest
<1>8. ASSUME NEW t \in Threads, MarkDelivered(t) PROVE StoredBeforeMarked'
  BY <1>8 DEF MarkDelivered
<1>9. ASSUME NEW t \in Threads, FinishTick(t) PROVE StoredBeforeMarked'
  BY <1>9 DEF FinishTick
<1>10. ASSUME NEW t \in Threads, Refused(t) PROVE StoredBeforeMarked'
  BY <1>10 DEF Refused
<1>11. ASSUME NEW t \in Threads, RevokeRuntime(t) PROVE StoredBeforeMarked'
  BY <1>11 DEF RevokeRuntime
<1>12. ASSUME NEW t \in Threads, Outdated(t) PROVE StoredBeforeMarked'
  BY <1>12 DEF Outdated
<1>13. ASSUME NEW t \in Threads, SetUpdateRequired(t) PROVE StoredBeforeMarked'
  BY <1>13 DEF SetUpdateRequired
<1>14. ASSUME NEW t \in Threads, Authenticate(t) PROVE StoredBeforeMarked'
  BY <1>14 DEF Authenticate
<1>15. ASSUME NEW t \in Threads, Handle(t) PROVE StoredBeforeMarked'
  BY <1>15, StoreKeeps DEF Handle
<1>16. ASSUME NEW t \in Threads, Unanswered(t) PROVE StoredBeforeMarked'
  BY <1>16 DEF Unanswered
<1>17. CASE HandleLate
  BY <1>17, StoreKeeps DEF HandleLate
<1>18. CASE Revoke
  BY <1>18 DEF Revoke
<1>19. CASE Upgrade
  BY <1>19 DEF Upgrade
<1>20. CASE Launch
  BY <1>20 DEF Launch, StartThread
<1>21. CASE Watchdog
  BY <1>21 DEF Watchdog, StartThread
<1>22. CASE StopReturns
  BY <1>22 DEF StopReturns
<1>23. CASE Boot
  BY <1>23 DEF Boot
<1>24. CASE RequestStop
  BY <1>24 DEF RequestStop
<1>25. CASE Crash
  BY <1>25 DEF Crash
<1> QED
  BY <1>1, <1>2, <1>3, <1>4, <1>5, <1>6, <1>7, <1>8, <1>9, <1>10, <1>11,
     <1>12, <1>13, <1>14, <1>15, <1>16, <1>17, <1>18, <1>19, <1>20, <1>21,
     <1>22, <1>23, <1>24, <1>25
  DEF Next, Heartbeat, Launcher

\* Nothing but a new process comes to life after a crash.
LEMMA DownStep ==
    ASSUME IInv, [Next]_vars
    PROVE  DownIsQuiet'
<1> USE ConstantsAssumption
    DEF outboxVars, channelVars, processVars, threadVars, platformVars, counters,
        IInv, TypeOK, DownIsQuiet, InFlight
<1>1. CASE UNCHANGED vars
  BY <1>1 DEF vars
<1>2. ASSUME NEW d \in Docs, EnqueueManifest(d) PROVE DownIsQuiet'
  BY <1>2 DEF EnqueueManifest
<1>3. ASSUME NEW t \in Threads, Continue(t) PROVE DownIsQuiet'
  BY <1>3 DEF Continue
<1>4. ASSUME NEW t \in Threads, EndLoop(t) PROVE DownIsQuiet'
  BY <1>4 DEF EndLoop
<1>5. ASSUME NEW t \in Threads, PublishPresence(t) PROVE DownIsQuiet'
  BY <1>5 DEF PublishPresence
<1>6. ASSUME NEW t \in Threads, CollectPending(t) PROVE DownIsQuiet'
  BY <1>6 DEF CollectPending
<1>7. ASSUME NEW t \in Threads, PublishManifest(t) PROVE DownIsQuiet'
  BY <1>7 DEF PublishManifest
<1>8. ASSUME NEW t \in Threads, MarkDelivered(t) PROVE DownIsQuiet'
  BY <1>8 DEF MarkDelivered
<1>9. ASSUME NEW t \in Threads, FinishTick(t) PROVE DownIsQuiet'
  BY <1>9 DEF FinishTick
<1>10. ASSUME NEW t \in Threads, Refused(t) PROVE DownIsQuiet'
  BY <1>10 DEF Refused
<1>11. ASSUME NEW t \in Threads, RevokeRuntime(t) PROVE DownIsQuiet'
  BY <1>11 DEF RevokeRuntime
<1>12. ASSUME NEW t \in Threads, Outdated(t) PROVE DownIsQuiet'
  BY <1>12 DEF Outdated
<1>13. ASSUME NEW t \in Threads, SetUpdateRequired(t) PROVE DownIsQuiet'
  BY <1>13 DEF SetUpdateRequired
<1>14. ASSUME NEW t \in Threads, Authenticate(t) PROVE DownIsQuiet'
  BY <1>14 DEF Authenticate
<1>15. ASSUME NEW t \in Threads, Handle(t) PROVE DownIsQuiet'
  BY <1>15 DEF Handle
<1>16. ASSUME NEW t \in Threads, Unanswered(t) PROVE DownIsQuiet'
  BY <1>16 DEF Unanswered
<1>17. CASE HandleLate
  BY <1>17 DEF HandleLate
<1>18. CASE Revoke
  BY <1>18 DEF Revoke
<1>19. CASE Upgrade
  BY <1>19 DEF Upgrade
<1>20. CASE Launch
  BY <1>20 DEF Launch, StartThread
<1>21. CASE Watchdog
  BY <1>21 DEF Watchdog, StartThread
<1>22. CASE StopReturns
  BY <1>22 DEF StopReturns
<1>23. CASE Boot
  BY <1>23 DEF Boot
<1>24. CASE RequestStop
  BY <1>24 DEF RequestStop
<1>25. CASE Crash
  BY <1>25 DEF Crash
<1> QED
  BY <1>1, <1>2, <1>3, <1>4, <1>5, <1>6, <1>7, <1>8, <1>9, <1>10, <1>11,
     <1>12, <1>13, <1>14, <1>15, <1>16, <1>17, <1>18, <1>19, <1>20, <1>21,
     <1>22, <1>23, <1>24, <1>25
  DEF Next, Heartbeat, Launcher

\* The runtime follows the channel.
LEMMA HaltStep ==
    ASSUME IInv, [Next]_vars
    PROVE  HaltedRuntime'
<1> USE ConstantsAssumption
    DEF outboxVars, channelVars, processVars, threadVars, platformVars, counters,
        IInv, TypeOK, DownIsQuiet, HaltedRuntime, Terminal, InFlight, ThreadPcs
<1>1. CASE UNCHANGED vars
  BY <1>1 DEF vars
<1>2. ASSUME NEW d \in Docs, EnqueueManifest(d) PROVE HaltedRuntime'
  BY <1>2 DEF EnqueueManifest
<1>3. ASSUME NEW t \in Threads, Continue(t) PROVE HaltedRuntime'
  BY <1>3 DEF Continue
<1>4. ASSUME NEW t \in Threads, EndLoop(t) PROVE HaltedRuntime'
  BY <1>4 DEF EndLoop
<1>5. ASSUME NEW t \in Threads, PublishPresence(t) PROVE HaltedRuntime'
  BY <1>5 DEF PublishPresence
<1>6. ASSUME NEW t \in Threads, CollectPending(t) PROVE HaltedRuntime'
  BY <1>6 DEF CollectPending
<1>7. ASSUME NEW t \in Threads, PublishManifest(t) PROVE HaltedRuntime'
  BY <1>7 DEF PublishManifest
<1>8. ASSUME NEW t \in Threads, MarkDelivered(t) PROVE HaltedRuntime'
  BY <1>8 DEF MarkDelivered
<1>9. ASSUME NEW t \in Threads, FinishTick(t) PROVE HaltedRuntime'
  BY <1>9 DEF FinishTick
<1>10. ASSUME NEW t \in Threads, Refused(t) PROVE HaltedRuntime'
  BY <1>10 DEF Refused
<1>11. ASSUME NEW t \in Threads, RevokeRuntime(t) PROVE HaltedRuntime'
  BY <1>11 DEF RevokeRuntime
<1>12. ASSUME NEW t \in Threads, Outdated(t) PROVE HaltedRuntime'
  BY <1>12 DEF Outdated
<1>13. ASSUME NEW t \in Threads, SetUpdateRequired(t) PROVE HaltedRuntime'
  BY <1>13 DEF SetUpdateRequired
<1>14. ASSUME NEW t \in Threads, Authenticate(t) PROVE HaltedRuntime'
  BY <1>14 DEF Authenticate
<1>15. ASSUME NEW t \in Threads, Handle(t) PROVE HaltedRuntime'
  BY <1>15 DEF Handle
<1>16. ASSUME NEW t \in Threads, Unanswered(t) PROVE HaltedRuntime'
  BY <1>16 DEF Unanswered
<1>17. CASE HandleLate
  BY <1>17 DEF HandleLate
<1>18. CASE Revoke
  BY <1>18 DEF Revoke
<1>19. CASE Upgrade
  BY <1>19 DEF Upgrade
<1>20. CASE Launch
  BY <1>20 DEF Launch, StartThread
<1>21. CASE Watchdog
  BY <1>21 DEF Watchdog, StartThread
<1>22. CASE StopReturns
  BY <1>22 DEF StopReturns
<1>23. CASE Boot
  BY <1>23 DEF Boot
<1>24. CASE RequestStop
  BY <1>24 DEF RequestStop
<1>25. CASE Crash
  BY <1>25 DEF Crash
<1> QED
  BY <1>1, <1>2, <1>3, <1>4, <1>5, <1>6, <1>7, <1>8, <1>9, <1>10, <1>11,
     <1>12, <1>13, <1>14, <1>15, <1>16, <1>17, <1>18, <1>19, <1>20, <1>21,
     <1>22, <1>23, <1>24, <1>25
  DEF Next, Heartbeat, Launcher

\* Init => IInv, IInv /\ [Next]_vars => IInv'.
THEOREM Invariance == Spec => []IInv
<1>1. IInv /\ [Next]_vars => IInv'
  BY TypeStep, RowStep, AnswerStep, MarkStep, DownStep, HaltStep DEF IInv
<1> QED BY InitHolds, <1>1, PTL DEF Spec

\* Every variable stays within its type.
THEOREM TypeCorrect == Spec => []TypeOK
<1>1. IInv => TypeOK
  BY DEF IInv
<1> QED BY Invariance, <1>1, PTL

\* A document leaves the outbox only once the platform knows it.
THEOREM StoredBeforeMarkedHolds == Spec => []StoredBeforeMarked
<1>1. IInv => StoredBeforeMarked
  BY DEF IInv
<1> QED BY Invariance, <1>1, PTL

\* When the channel has given up, the runtime has, or is about to.
THEOREM HaltedRuntimeHolds == Spec => []HaltedRuntime
<1>1. IInv => HaltedRuntime
  BY DEF IInv
<1> QED BY Invariance, <1>1, PTL

\* A revoked device writes only what was authenticated before.
THEOREM RevokedPlatformIsQuietHolds == Spec => RevokedPlatformIsQuiet
<1> DEFINE Goal == ~Authenticated' /\ UNCHANGED <<stored, seen>>
<1>1. TypeOK /\ [Next]_vars => [revoked /\ ~Authenticated => Goal]_vars
  <2> SUFFICES ASSUME TypeOK, Next, revoked, ~Authenticated PROVE Goal
    OBVIOUS
  <2>1. /\ pc \in [Threads -> ThreadPcs] /\ revoked = TRUE
        /\ \A t \in Threads : pc[t] # "authed"
        /\ \A l \in late : ~l.authed
    BY DEF TypeOK, Authenticated
  <2> SUFFICES /\ \A u \in Threads : pc'[u] # "authed"
               /\ \A l \in late' : ~l.authed
               /\ UNCHANGED <<stored, seen>>
    BY Zenon DEF Authenticated
  <2>3. ASSUME NEW t \in Threads, Heartbeat(t)
        PROVE  /\ \A u \in Threads : pc'[u] # "authed"
               /\ UNCHANGED <<late, stored, seen>>
    BY <2>1, <2>3
    DEF Heartbeat, Continue, EndLoop, PublishPresence, CollectPending,
        PublishManifest, MarkDelivered, FinishTick, Refused, RevokeRuntime,
        Outdated, SetUpdateRequired, Authenticate, Handle, platformVars
  <2>4. ASSUME NEW t \in Threads, Unanswered(t)
        PROVE  /\ \A u \in Threads : pc'[u] # "authed"
               /\ \A l \in late' : ~l.authed
               /\ UNCHANGED <<stored, seen>>
    <3>1. /\ \A u \in Threads : pc'[u] # "authed"
          /\ UNCHANGED <<stored, seen>>
      BY <2>1, <2>4 DEF Unanswered, platformVars
    <3>2. \/ late' = late
          \/ late' = late \cup {[request |-> req[t], authed |-> pc[t] = "authed"]}
      BY <2>4 DEF Unanswered
    <3>3. ASSUME NEW l \in late' PROVE ~l.authed
      <4>1. CASE l \in late
        BY <4>1, <2>1
      <4>2. CASE l = [request |-> req[t], authed |-> pc[t] = "authed"]
        BY <4>2, <2>1
      <4> QED BY <3>2, <4>1, <4>2
    <3> QED BY <3>1, <3>3
  <2>5. CASE HandleLate
    BY <2>1, <2>5 DEF HandleLate, threadVars
  <2>6. CASE Crash
    <3>1. /\ \A u \in Threads : pc'[u] # "authed"
          /\ UNCHANGED <<stored, seen>>
      BY <2>6 DEF Crash, platformVars
    <3>2. PICK S \in SUBSET {t \in Threads : pc[t] \in {"sent", "authed"}} :
            late' = late \cup
                    {[request |-> req[t], authed |-> pc[t] = "authed"] : t \in S}
      BY <2>6 DEF Crash
    <3>3. ASSUME NEW l \in late' PROVE ~l.authed
      <4>1. CASE l \in late
        BY <4>1, <2>1
      <4>2. CASE l \notin late
        <5>1. PICK t \in S : l = [request |-> req[t], authed |-> pc[t] = "authed"]
          BY <3>2, <4>2
        <5> QED BY <5>1, <2>1
      <4> QED BY <4>1, <4>2
    <3> QED BY <3>1, <3>3
  <2>7. CASE Launcher
    <3>1. ASSUME NEW t \in Threads, StartThread(t)
          PROVE  /\ \A u \in Threads : pc'[u] # "authed"
                 /\ UNCHANGED <<late, stored, seen>>
      BY <2>1, <3>1 DEF StartThread, platformVars
    <3>2. CASE StopReturns \/ Boot
      BY <2>1, <3>2 DEF StopReturns, Boot, platformVars, threadVars
    <3> QED BY <2>1, <2>7, <3>1, <3>2 DEF Launcher, Launch, Watchdog
  <2>8. CASE (\E d \in Docs : EnqueueManifest(d)) \/ Revoke \/ Upgrade \/ RequestStop
    BY <2>1, <2>8
    DEF EnqueueManifest, Revoke, Upgrade, RequestStop, platformVars, threadVars
  <2> QED BY <2>1, <2>3, <2>4, <2>5, <2>6, <2>7, <2>8 DEF Next
<1> QED BY TypeCorrect, <1>1, PTL DEF Spec, RevokedPlatformIsQuiet

=============================================================================
