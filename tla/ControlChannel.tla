--------------------------- MODULE ControlChannel ---------------------------
(***************************************************************************)
(* The outbound control channel of ZKD Compute                             *)
(* (src/app/local_compute/control_channel.py) and the platform service     *)
(* that answers it (src/app/compute_control.py).  A daemon thread sends a  *)
(* heartbeat, then every pending manifest of the catalog's outbox, one     *)
(* signed request after the other; the launcher starts it, watches it and  *)
(* restarts it from the tray.                                              *)
(*                                                                         *)
(* The device is paired in every state.  A manifest is known by its        *)
(* document and the revision the outbox gave it, a heartbeat by the        *)
(* endpoint generation it announces.  Abstracted: signatures and nonces    *)
(* (every request is well signed and carries a fresh nonce), the length of *)
(* the waits between two attempts, and the order of the pending rows,      *)
(* which rows of one second do not have: a tick sends them in any order.   *)
(***************************************************************************)
EXTENDS Naturals

CONSTANTS
    Docs,        \* document ids
    NoDoc,       \* the subject of a heartbeat
    Threads,     \* threads that may run ControlChannel._run
    NoThread,
    MaxRev,      \* bound: how often a manifest of one document is queued
    MaxFaults,   \* bound: how many requests go without an answer
    MaxRestarts, \* bound: how often the tray restarts the runtime
    MaxCrashes   \* bound: how often the process dies

ASSUME ConstantsAssumption ==
    /\ NoDoc \notin Docs
    /\ NoThread \notin Threads
    /\ MaxRev \in Nat \ {0}
    /\ MaxFaults \in Nat
    /\ MaxRestarts \in Nat
    /\ MaxCrashes \in Nat

VARIABLES
    revision,  \* control_manifest_outbox.revision, 0 without a row
    pending,   \* documents whose row has delivered_at IS NULL
    state,     \* ControlChannel.state
    stopEvent, \* ControlChannel._stop_event
    thread,    \* ControlChannel._thread
    runtime,   \* LocalComputeRuntime.state, "OFFLINE" without a process
    gen,       \* LocalComputeRuntime.endpoint_generation, numbered
    mpc,       \* the launcher: "down", "stopped", "run" or "joining"
    pc, req, todo,   \* each thread: where it is, its request, its snapshot
    late,      \* requests their sender gave up while they were on the way
    stored,    \* local_document_manifests: the revision of each, 0 without a row
    seen,      \* compute_presence.endpoint_generation, 0 without a row
    revoked,   \* compute_devices.revoked_at is set
    upgraded,  \* the platform speaks a newer protocol version
    faults, restarts, crashes

outboxVars == <<revision, pending>>
channelVars == <<state, stopEvent, thread>>
processVars == <<runtime, gen, mpc>>
threadVars == <<pc, req, todo>>
platformVars == <<stored, seen, revoked, upgraded>>
counters == <<faults, restarts, crashes>>
vars == <<outboxVars, channelVars, processVars, threadVars, late, platformVars,
          counters>>

(***************************************************************************)
(* States and requests                                                     *)
(***************************************************************************)

Terminal == {"REVOKED", "UPDATE_REQUIRED"}
ChannelStates ==
    {"DISCONNECTED", "CONNECTING", "CONNECTED", "BACKING_OFF"} \cup Terminal

Manifests == [doc : Docs, n : 1..MaxRev]
Heartbeats == [doc : {NoDoc}, n : Nat]
Requests == Manifests \cup Heartbeats
NoRequest == [doc |-> NoDoc, n |-> 0]

\* A request is on its way ("sent"), past _device_auth ("authed") or its
\* effect is committed ("answered").
InFlight == {"sent", "authed", "answered"}
ThreadPcs ==
    {"off", "loop", "begin", "deliver", "refused", "outdated"} \cup InFlight

Alive == {t \in Threads : pc[t] # "off"}

TypeOK ==
    /\ revision \in [Docs -> 0..MaxRev]
    /\ pending \subseteq Docs
    /\ state \in ChannelStates
    /\ stopEvent \in BOOLEAN
    /\ thread \in Threads \cup {NoThread}
    /\ runtime \in {"OFFLINE", "READY"} \cup Terminal
    /\ gen \in Nat
    /\ mpc \in {"down", "stopped", "run", "joining"}
    /\ pc \in [Threads -> ThreadPcs]
    /\ req \in [Threads -> Requests]
    /\ todo \in [Threads -> SUBSET Manifests]
    /\ late \subseteq [request : Requests, authed : BOOLEAN]
    /\ stored \in [Docs -> 0..MaxRev]
    /\ seen \in Nat
    /\ revoked \in BOOLEAN
    /\ upgraded \in BOOLEAN
    /\ faults \in 0..MaxFaults
    /\ restarts \in 0..MaxRestarts
    /\ crashes \in 0..MaxCrashes

\* A paired device, registered at the platform, about to be started.
Init ==
    /\ revision = [d \in Docs |-> 0]
    /\ pending = {}
    /\ state = "DISCONNECTED"
    /\ stopEvent = FALSE
    /\ thread = NoThread
    /\ runtime = "READY"
    /\ gen = 1
    /\ mpc = "stopped"
    /\ pc = [t \in Threads |-> "off"]
    /\ req = [t \in Threads |-> NoRequest]
    /\ todo = [t \in Threads |-> {}]
    /\ late = {}
    /\ stored = [d \in Docs |-> 0]
    /\ seen = 0
    /\ revoked = FALSE
    /\ upgraded = FALSE
    /\ faults = 0
    /\ restarts = 0
    /\ crashes = 0

(***************************************************************************)
(* The outbox                                                              *)
(***************************************************************************)

\* One row per document: a newer manifest replaces the payload and reopens it.
EnqueueManifest(d) ==
    /\ mpc # "down"
    /\ revision[d] < MaxRev
    /\ revision' = [revision EXCEPT ![d] = @ + 1]
    /\ pending' = pending \cup {d}
    /\ UNCHANGED <<channelVars, processVars, threadVars, late, platformVars,
                   counters>>

(***************************************************************************)
(* The heartbeat thread                                                    *)
(***************************************************************************)

\* The loop goes on, and tick passes the same test: what happens before it
\* assigns CONNECTING is overwritten.
Continue(t) ==
    /\ pc[t] = "loop"
    /\ ~stopEvent
    /\ state \notin Terminal
    /\ pc' = [pc EXCEPT ![t] = "begin"]
    /\ UNCHANGED <<outboxVars, channelVars, processVars, req, todo, late,
                   platformVars, counters>>

EndLoop(t) ==
    /\ pc[t] = "loop"
    /\ stopEvent \/ state \in Terminal
    /\ pc' = [pc EXCEPT ![t] = "off"]
    /\ UNCHANGED <<outboxVars, channelVars, processVars, req, todo, late,
                   platformVars, counters>>

PublishPresence(t) ==
    /\ pc[t] = "begin"
    /\ state' = "CONNECTING"
    /\ pc' = [pc EXCEPT ![t] = "sent"]
    /\ req' = [req EXCEPT ![t] = [doc |-> NoDoc, n |-> gen]]
    /\ UNCHANGED <<outboxVars, stopEvent, thread, processVars, todo, late,
                   platformVars, counters>>

\* The heartbeat is acknowledged: the tick reads what the outbox holds now.
CollectPending(t) ==
    /\ pc[t] = "answered"
    /\ req[t].doc = NoDoc
    /\ pc' = [pc EXCEPT ![t] = "deliver"]
    /\ req' = [req EXCEPT ![t] = NoRequest]
    /\ todo' = [todo EXCEPT ![t] = {[doc |-> d, n |-> revision[d]] : d \in pending}]
    /\ UNCHANGED <<outboxVars, channelVars, processVars, late, platformVars,
                   counters>>

\* A bug: the row is closed before the platform has answered.
MarkThenPublish(t) ==
    /\ pc[t] = "deliver"
    /\ \E m \in todo[t] :
        /\ req' = [req EXCEPT ![t] = m]
        /\ todo' = [todo EXCEPT ![t] = @ \ {m}]
        /\ pending' = pending \ {m.doc}
    /\ pc' = [pc EXCEPT ![t] = "sent"]
    /\ UNCHANGED <<revision, channelVars, processVars, late, platformVars,
                   counters>>

PublishManifest(t) ==
    /\ pc[t] = "deliver"
    /\ \E m \in todo[t] :
        /\ req' = [req EXCEPT ![t] = m]
        /\ todo' = [todo EXCEPT ![t] = @ \ {m}]
    /\ pc' = [pc EXCEPT ![t] = "sent"]
    /\ UNCHANGED <<outboxVars, channelVars, processVars, late, platformVars,
                   counters>>

\* mark_control_manifest_delivered closes the row of the document, whatever
\* its revision is by now.
MarkDelivered(t) ==
    /\ pc[t] = "answered"
    /\ req[t].doc # NoDoc
    /\ pending' = pending \ {req[t].doc}
    /\ pc' = [pc EXCEPT ![t] = "deliver"]
    /\ req' = [req EXCEPT ![t] = NoRequest]
    /\ UNCHANGED <<revision, channelVars, processVars, todo, late, platformVars,
                   counters>>

FinishTick(t) ==
    /\ pc[t] = "deliver"
    /\ todo[t] = {}
    /\ state' = "CONNECTED"
    /\ pc' = [pc EXCEPT ![t] = "loop"]
    /\ UNCHANGED <<outboxVars, stopEvent, thread, processVars, req, todo, late,
                   platformVars, counters>>

\* No answer arrives: the tick gives up and will start over.  The request may
\* still reach the platform.
Unanswered(t) ==
    /\ pc[t] \in InFlight
    /\ faults < MaxFaults
    /\ faults' = faults + 1
    /\ state' = "BACKING_OFF"
    /\ pc' = [pc EXCEPT ![t] = "loop"]
    /\ req' = [req EXCEPT ![t] = NoRequest]
    /\ todo' = [todo EXCEPT ![t] = {}]
    /\ \/ late' = late
       \/ /\ pc[t] # "answered"
          /\ late' = late \cup {[request |-> req[t], authed |-> pc[t] = "authed"]}
    /\ UNCHANGED <<outboxVars, stopEvent, thread, processVars, platformVars,
                   restarts, crashes>>

\* A bug: the revocation is retried like an outage.
RefusedAsOutage(t) ==
    /\ pc[t] = "sent"
    /\ revoked
    /\ state' = "BACKING_OFF"
    /\ pc' = [pc EXCEPT ![t] = "loop"]
    /\ req' = [req EXCEPT ![t] = NoRequest]
    /\ todo' = [todo EXCEPT ![t] = {}]
    /\ UNCHANGED <<outboxVars, stopEvent, thread, processVars, late,
                   platformVars, counters>>

\* DEVICE_REVOKED: first the channel, then the runtime.
Refused(t) ==
    /\ pc[t] = "sent"
    /\ revoked
    /\ state' = "REVOKED"
    /\ pc' = [pc EXCEPT ![t] = "refused"]
    /\ req' = [req EXCEPT ![t] = NoRequest]
    /\ todo' = [todo EXCEPT ![t] = {}]
    /\ UNCHANGED <<outboxVars, stopEvent, thread, processVars, late,
                   platformVars, counters>>

RevokeRuntime(t) ==
    /\ pc[t] = "refused"
    /\ runtime' = "REVOKED"
    /\ pc' = [pc EXCEPT ![t] = "loop"]
    /\ UNCHANGED <<outboxVars, channelVars, gen, mpc, req, todo, late,
                   platformVars, counters>>

\* PROTOCOL_VERSION_UNSUPPORTED: only the heartbeat carries the version.
Outdated(t) ==
    /\ pc[t] = "authed"
    /\ upgraded
    /\ req[t].doc = NoDoc
    /\ state' = "UPDATE_REQUIRED"
    /\ pc' = [pc EXCEPT ![t] = "outdated"]
    /\ req' = [req EXCEPT ![t] = NoRequest]
    /\ UNCHANGED <<outboxVars, stopEvent, thread, processVars, todo, late,
                   platformVars, counters>>

SetUpdateRequired(t) ==
    /\ pc[t] = "outdated"
    /\ runtime' = "UPDATE_REQUIRED"
    /\ pc' = [pc EXCEPT ![t] = "loop"]
    /\ UNCHANGED <<outboxVars, channelVars, gen, mpc, req, todo, late,
                   platformVars, counters>>

(***************************************************************************)
(* The platform                                                            *)
(***************************************************************************)

\* _device_auth commits the nonce; the handler then writes in a transaction
\* of its own, so that a revocation may fall in between.
Authenticate(t) ==
    /\ pc[t] = "sent"
    /\ ~revoked
    /\ pc' = [pc EXCEPT ![t] = "authed"]
    /\ UNCHANGED <<outboxVars, channelVars, processVars, req, todo, late,
                   platformVars, counters>>

\* The last write wins: a manifest has no revision on the wire.
Accepts(r) == r.doc # NoDoc \/ ~upgraded
Store(r) ==
    IF r.doc = NoDoc
    THEN seen' = r.n /\ UNCHANGED stored
    ELSE stored' = [stored EXCEPT ![r.doc] = r.n] /\ UNCHANGED seen

Handle(t) ==
    /\ pc[t] = "authed"
    /\ Accepts(req[t])
    /\ Store(req[t])
    /\ pc' = [pc EXCEPT ![t] = "answered"]
    /\ UNCHANGED <<outboxVars, channelVars, processVars, req, todo, late,
                   revoked, upgraded, counters>>

\* A request nobody waits for any more arrives after all.
HandleLate ==
    /\ \E l \in late :
        /\ late' = late \ {l}
        /\ IF (l.authed \/ ~revoked) /\ Accepts(l.request)
           THEN Store(l.request)
           ELSE UNCHANGED <<stored, seen>>
    /\ UNCHANGED <<outboxVars, channelVars, processVars, threadVars, revoked,
                   upgraded, counters>>

Revoke ==
    /\ ~revoked
    /\ revoked' = TRUE
    /\ UNCHANGED <<outboxVars, channelVars, processVars, threadVars, late,
                   stored, seen, upgraded, counters>>

Upgrade ==
    /\ ~upgraded
    /\ upgraded' = TRUE
    /\ UNCHANGED <<outboxVars, channelVars, processVars, threadVars, late,
                   stored, seen, revoked, counters>>

(***************************************************************************)
(* The launcher                                                            *)
(***************************************************************************)

\* A bug: the new thread still sees the old request to stop.
StartStopped(t) ==
    /\ pc[t] = "off"
    /\ thread' = t
    /\ pc' = [pc EXCEPT ![t] = "loop"]
    /\ mpc' = "run"
    /\ UNCHANGED <<outboxVars, state, stopEvent, runtime, gen, req, todo, late,
                   platformVars, counters>>

\* ControlChannel.start with no live _thread.
StartThread(t) ==
    /\ pc[t] = "off"
    /\ stopEvent' = FALSE
    /\ thread' = t
    /\ pc' = [pc EXCEPT ![t] = "loop"]
    /\ mpc' = "run"
    /\ UNCHANGED <<outboxVars, state, runtime, gen, req, todo, late,
                   platformVars, counters>>

Launch == mpc = "stopped" /\ \E t \in Threads : StartThread(t)

\* The main loop finds the daemon dead although should_run holds.
Watchdog ==
    /\ mpc = "run"
    /\ state \notin Terminal
    /\ thread \notin Alive
    /\ \E t \in Threads : StartThread(t)

\* "Restart Compute" in the tray menu.
RequestStop ==
    /\ mpc = "run"
    /\ restarts < MaxRestarts
    /\ restarts' = restarts + 1
    /\ stopEvent' = TRUE
    /\ mpc' = "joining"
    /\ UNCHANGED <<outboxVars, state, thread, runtime, gen, threadVars, late,
                   platformVars, faults, crashes>>

\* join(timeout=2) returns, with the thread ended or in a request that may
\* take ten seconds; the handle is dropped either way.
StopReturns ==
    /\ mpc = "joining"
    /\ thread' = NoThread
    /\ gen' = gen + 1
    /\ mpc' = "stopped"
    /\ UNCHANGED <<outboxVars, state, stopEvent, runtime, threadVars, late,
                   platformVars, counters>>

\* The process dies, and with it all but the catalog; some of its requests
\* are still on their way.
Crash ==
    /\ mpc # "down"
    /\ crashes < MaxCrashes
    /\ crashes' = crashes + 1
    /\ mpc' = "down"
    /\ runtime' = "OFFLINE"
    /\ state' = "DISCONNECTED"
    /\ stopEvent' = FALSE
    /\ thread' = NoThread
    /\ pc' = [t \in Threads |-> "off"]
    /\ req' = [t \in Threads |-> NoRequest]
    /\ todo' = [t \in Threads |-> {}]
    /\ \E S \in SUBSET {t \in Threads : pc[t] \in {"sent", "authed"}} :
         late' = late \cup
                 {[request |-> req[t], authed |-> pc[t] = "authed"] : t \in S}
    /\ UNCHANGED <<outboxVars, gen, platformVars, faults, restarts>>

\* A new process, with a new endpoint generation.
Boot ==
    /\ mpc = "down"
    /\ runtime' = "READY"
    /\ gen' = gen + 1
    /\ mpc' = "stopped"
    /\ UNCHANGED <<outboxVars, channelVars, threadVars, late, platformVars,
                   counters>>

(***************************************************************************)
(* The specification                                                       *)
(***************************************************************************)

\* What a thread, and the platform for it, do when nothing goes wrong.
Heartbeat(t) ==
    \/ Continue(t) \/ EndLoop(t) \/ PublishPresence(t) \/ CollectPending(t)
    \/ PublishManifest(t) \/ MarkDelivered(t) \/ FinishTick(t)
    \/ Refused(t) \/ RevokeRuntime(t) \/ Outdated(t) \/ SetUpdateRequired(t)
    \/ Authenticate(t) \/ Handle(t)

Launcher == Launch \/ Watchdog \/ StopReturns \/ Boot

Next ==
    \/ \E d \in Docs : EnqueueManifest(d)
    \/ \E t \in Threads : Heartbeat(t) \/ Unanswered(t)
    \/ HandleLate \/ Revoke \/ Upgrade
    \/ Launcher \/ RequestStop \/ Crash

Spec == Init /\ [][Next]_vars

\* The threads and the launcher's loop are scheduled, a request that is not
\* lost is answered, and a dead process is started again.
FairSpec ==
    /\ Spec
    /\ \A t \in Threads : WF_vars(Heartbeat(t))
    /\ WF_vars(Launcher)

(***************************************************************************)
(* Properties                                                              *)
(***************************************************************************)

\* The outbox keeps a document pending until the platform has a manifest of
\* it, whatever is lost, late or interrupted by a crash
\* (mark_control_manifest_delivered after publish_manifest in tick).
StoredBeforeMarked ==
    \A d \in Docs : revision[d] > 0 /\ d \notin pending => stored[d] > 0

\* When the channel has given up, the runtime refuses sessions or a thread is
\* about to make it do so (tick assigns state, then calls the runtime).
HaltedRuntime ==
    state \in Terminal =>
        \/ runtime \in Terminal
        \/ \E t \in Threads : pc[t] \in {"refused", "outdated"}

\* A request is past _device_auth, its write still to come.
Authenticated ==
    \/ \E t \in Threads : pc[t] = "authed"
    \/ \E l \in late : l.authed

\* _device_auth and the write are two transactions; yet a revoked device only
\* writes what was authenticated before, and nothing once that is through.
RevokedPlatformIsQuiet ==
    [][revoked /\ ~Authenticated =>
           ~Authenticated' /\ UNCHANGED <<stored, seen>>]_vars

\* A revoked device halts in the end, and stays halted after every restart,
\* although nothing of the revocation is stored on the device.
RevocationIsLearned ==
    revoked ~> [](runtime \in Terminal)

\* Every queued manifest leaves the outbox, across lost answers, crashes and
\* restarts, unless the platform turns the device away.
PendingIsDrained ==
    \A d \in Docs : d \in pending ~> d \notin pending \/ revoked \/ upgraded

\* What is not true: a process that has seen its revocation never takes it
\* back.  tick and _run both test for REVOKED, but a thread that outlives stop
\* may write the state it had decided on before.
RevokedIsFinal ==
    [][state = "REVOKED" => state' = "REVOKED" \/ mpc' = "down"]_vars

=============================================================================
