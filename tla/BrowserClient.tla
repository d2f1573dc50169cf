----------------------------- MODULE BrowserClient -----------------------------
(***************************************************************************)
(* The compute client of the browser application: one object for the       *)
(* signed-in user, shared by the pages, with a device list, a selected     *)
(* device and one local session in memory.  Every await of a call is a     *)
(* step boundary: the other page, a sign-out, the device and the platform  *)
(* move while answers are under way.  A discarded client is not modelled   *)
(* further: its calls run on, but on an object that nobody can reach.      *)
(***************************************************************************)
EXTENDS Naturals, FiniteSets

CONSTANTS
    Users, Devices,
    Owner,        \* [Devices -> Users], from the platform's device rows
    Ids,          \* session identifiers, used again when nobody holds them
    MaxStarts,    \* starts of a device's service
    MaxFaults,    \* failed requests, dropped sessions and expired cookies
    None

Pages == {"ask", "docs"}

ASSUME BrowserAssumption ==
    /\ Owner \in [Devices -> Users] /\ None \notin Users \cup Devices \cup Ids \cup Pages
    /\ {MaxStarts, MaxFaults} \subseteq Nat

VARIABLES
    power, generation,   \* of a device's local service
    listed,              \* what the platform knows of a device
    known,               \* sessions the local service holds
    lapsed,              \* sessions past their expiry
    cookie, user,        \* whom the platform and the application see signed in
    owner,               \* ownerUserId of the client in shared.ts
    devices, selected, session, boot,   \* the fields of the client
    call,                \* the call each page has under way on the client
    ready,               \* the last call of a page succeeded
    faults

local == <<power, generation, known, lapsed>>
account == <<cookie, user, owner>>
memory == <<devices, selected, session>>
vars == <<local, listed, account, memory, boot, call, ready, faults>>

Entry == [state : {"READY", "OFFLINE"}, generation : 0 .. MaxStarts]
Session == [id : Ids, device : Devices, generation : 1 .. MaxStarts]
NoDevices == [d \in {} |-> None]
Idle == [at |-> "idle"]

Init ==
    /\ power = [d \in Devices |-> FALSE] /\ generation = [d \in Devices |-> 0]
    /\ listed = [d \in Devices |-> [state |-> "OFFLINE", generation |-> 0]]
    /\ known = [d \in Devices |-> {}] /\ lapsed = {}
    /\ cookie = None /\ user = None /\ owner = None
    /\ devices = NoDevices /\ selected = None /\ session = None /\ boot = None
    /\ call = [p \in Pages |-> Idle]
    /\ ready = [p \in Pages |-> FALSE] /\ faults = 0

(***************************************************************************)
(* How a call goes on                                                      *)
(***************************************************************************)
At(p, at) == call[p].at = at
To(p, c) == call' = [call EXCEPT ![p] = c]
Waiting == {p \in Pages : At(p, "await")}
\* p and, when p runs the bootstrap, every call that shares its promise.
Sharing(p) == {p} \cup (IF boot = p THEN Waiting ELSE {})
Released(p) == IF boot = p THEN None ELSE boot

\* connect() is followed by the request of the page, which asks for a session
\* again; the request signs with the session it was given.
Resumed(c, s) ==
    IF c.stage = "connect" THEN [at |-> "ensure", stage |-> "request"]
    ELSE [at |-> "check", held |-> s]

Resolve(p, s) ==
    /\ call' = [q \in Pages |->
           IF q \in Sharing(p) THEN Resumed(call[q], s) ELSE call[q]]
    /\ boot' = Released(p)

Reject(p) ==
    /\ call' = [q \in Pages |-> IF q \in Sharing(p) THEN Idle ELSE call[q]]
    /\ ready' = [q \in Pages |-> ready[q] /\ q \notin Sharing(p)]
    /\ boot' = Released(p)

Usable == session # None /\ session.id \notin lapsed

(***************************************************************************)
(* Pages                                                                   *)
(***************************************************************************)
\* Mutant of LoadDocuments: the page connects as the ask page does.
LoadUndiscovered ==
    /\ user # None /\ At("docs", "idle")
    /\ To("docs", [at |-> "connect", stage |-> "connect", fresh |-> FALSE])
    /\ UNCHANGED <<local, listed, account, memory, boot, ready, faults>>

\* The documents page lists the devices first when it has no session; the ask
\* page connects, or sends an answer request on what there is.
LoadDocuments ==
    /\ user # None /\ At("docs", "idle")
    /\ To("docs", IF session = None
                  THEN [at |-> "list_sent", stage |-> "connect",
                        back |-> "connect", fresh |-> FALSE]
                  ELSE [at |-> "ensure", stage |-> "request"])
    /\ UNCHANGED <<local, listed, account, memory, boot, ready, faults>>

LoadSources ==
    /\ user # None /\ At("ask", "idle")
    /\ To("ask", [at |-> "connect", stage |-> "connect", fresh |-> FALSE])
    /\ UNCHANGED <<local, listed, account, memory, boot, ready, faults>>

Submit ==
    /\ user # None /\ At("ask", "idle") /\ ready["ask"]
    /\ To("ask", [at |-> "ensure", stage |-> "request"])
    /\ UNCHANGED <<local, listed, account, memory, boot, ready, faults>>

(***************************************************************************)
(* discover and selectDevice                                               *)
(***************************************************************************)
ListAnswer(p) ==
    LET c == call[p] IN
    /\ At(p, "list_sent") /\ cookie # None
    /\ To(p, [at |-> "list_got", stage |-> c.stage, back |-> c.back, fresh |-> c.fresh,
              got |-> [d \in {e \in Devices : Owner[e] = cookie} |-> listed[d]]])
    /\ UNCHANGED <<local, listed, account, memory, boot, ready, faults>>

Discover(p) ==
    LET c == call[p]
        s == session
        stale == s # None /\ (s.device \notin DOMAIN c.got
                    \/ c.got[s.device] # [state |-> "READY", generation |-> s.generation])
    IN
    /\ At(p, "list_got")
    /\ devices' = c.got
    /\ session' = IF stale THEN None ELSE session
    /\ selected' = IF selected \in DOMAIN c.got THEN selected ELSE None
    /\ To(p, [at |-> c.back, stage |-> c.stage, fresh |-> c.fresh])
    /\ UNCHANGED <<local, listed, account, boot, ready, faults>>

\* The device selectDevice returns, as a set: empty when it throws.
Chosen ==
    LET usable == {d \in DOMAIN devices :
                      devices[d].state = "READY" /\ devices[d].generation # 0}
    IN IF selected \in DOMAIN devices THEN usable \cap {selected}
       ELSE IF Cardinality(usable) = 1 THEN usable ELSE {}

Selecting(p) == At(p, "connect") \/ At(p, "bootstrap")

SelectLists(p) ==
    LET c == call[p] IN
    /\ Selecting(p) /\ DOMAIN devices = {} /\ ~c.fresh
    /\ To(p, [at |-> "list_sent", stage |-> c.stage, back |-> c.at, fresh |-> TRUE])
    /\ UNCHANGED <<local, listed, account, memory, boot, ready, faults>>

SelectDevice(p) ==
    LET c == call[p] IN
    /\ Selecting(p) /\ (DOMAIN devices # {} \/ c.fresh)
    /\ \/ \E d \in Chosen :
           /\ selected' = d
           /\ To(p, IF c.at = "connect" THEN [at |-> "ensure", stage |-> "connect"]
                       ELSE [at |-> "grant_sent", stage |-> c.stage, device |-> d,
                             generation |-> devices[d].generation])
           /\ UNCHANGED <<boot, ready>>
       \/ Chosen = {} /\ Reject(p) /\ UNCHANGED selected
    /\ UNCHANGED <<local, listed, account, devices, session, faults>>

(***************************************************************************)
(* ensureSession and bootstrap                                             *)
(***************************************************************************)
EnsureSession(p) ==
    LET c == call[p] IN
    /\ At(p, "ensure")
    /\ IF Usable THEN /\ To(p, Resumed(c, session))
                         /\ UNCHANGED <<session, boot>>
       ELSE /\ session' = None
            /\ IF boot # None
               THEN To(p, [at |-> "await", stage |-> c.stage]) /\ UNCHANGED boot
               ELSE /\ boot' = p
                    /\ To(p, [at |-> "bootstrap", stage |-> c.stage, fresh |-> FALSE])
    /\ UNCHANGED <<local, listed, account, devices, selected, ready, faults>>

\* The platform signs a grant for the generation it knows, for a device of the
\* signed-in user that it takes for READY; the client compares the generation
\* with the one it selected.  No session is there to be cleared.
GrantAnswer(p) ==
    LET c == call[p]
        d == c.device
    IN
    /\ At(p, "grant_sent")
    /\ \/ /\ cookie = Owner[d] /\ listed[d] = [state |-> "READY", generation |-> c.generation]
          /\ To(p, [c EXCEPT !.at = "open_sent"]) /\ UNCHANGED <<boot, ready>>
       \/ /\ cookie # Owner[d] \/ listed[d] # [state |-> "READY", generation |-> c.generation]
          /\ Reject(p)
    /\ UNCHANGED <<local, listed, account, memory, faults>>

InUse ==
    {s.id : s \in {session} \ {None}}
    \cup {call[p].held.id : p \in {q \in Pages : "held" \in DOMAIN call[q]}}

Serves(d, g) == power[d] /\ generation[d] = g

\* An endpoint of an earlier generation is gone: its port refuses.
OpenAnswer(p) ==
    LET c == call[p] IN
    /\ At(p, "open_sent")
    /\ \/ /\ Serves(c.device, c.generation)
          /\ Ids # InUse
          /\ LET i == CHOOSE j \in Ids \ InUse : TRUE IN
                /\ known' = [d \in Devices |-> {j \in known[d] : j \in InUse}
                                               \cup (IF d = c.device THEN {i} ELSE {})]
                /\ lapsed' = lapsed \cap InUse
                /\ To(p, [at |-> "open_got", stage |-> c.stage, held |->
                       [id |-> i, device |-> c.device, generation |-> c.generation]])
          /\ UNCHANGED <<boot, ready>>
       \/ ~Serves(c.device, c.generation) /\ Reject(p) /\ UNCHANGED <<known, lapsed>>
    /\ UNCHANGED <<power, generation, listed, account, memory, faults>>

Opened(p) ==
    LET s == call[p].held IN
    /\ At(p, "open_got")
    /\ session' = s /\ Resolve(p, s)
    /\ UNCHANGED <<local, listed, account, devices, selected, ready, faults>>

(***************************************************************************)
(* localRequest                                                            *)
(***************************************************************************)
\* The session of the client is looked at, the one the call holds is used.
CheckSession(p) ==
    /\ At(p, "check")
    /\ IF Usable
       THEN /\ To(p, [call[p] EXCEPT !.at = "sent"])
            /\ UNCHANGED <<session, boot, ready>>
       ELSE session' = None /\ Reject(p)
    /\ UNCHANGED <<local, listed, account, devices, selected, faults>>

\* A failed fetch is never LOCAL_COMPUTE_UNAVAILABLE, the one code that leads to
\* performReconnect: the call ends.
RequestAnswer(p) ==
    LET s == call[p].held IN
    /\ At(p, "sent")
    /\ \/ /\ Serves(s.device, s.generation)
          /\ To(p, [at |-> "answered", code |->
                 IF s.id \in known[s.device] \ lapsed THEN "OK" ELSE "SESSION_EXPIRED"])
          /\ known' = [known EXCEPT ![s.device] = @ \ (lapsed \cap {s.id})]
          /\ UNCHANGED <<boot, ready>>
       \/ ~Serves(s.device, s.generation) /\ Reject(p) /\ UNCHANGED known
    /\ UNCHANGED <<power, generation, lapsed, listed, account, memory, faults>>

\* SESSION_EXPIRED, of a session that has lapsed or that the service does not
\* know, drops whatever session the client has by now.
Finish(p) ==
    LET code == call[p].code IN
    /\ At(p, "answered") /\ To(p, Idle)
    /\ session' = IF code = "SESSION_EXPIRED" THEN None ELSE session
    /\ ready' = [ready EXCEPT ![p] = (code = "OK") /\ user # None]
    /\ UNCHANGED <<local, listed, account, devices, selected, boot, faults>>

(***************************************************************************)
(* Signing in and out                                                      *)
(***************************************************************************)
Forget == devices' = NoDevices /\ selected' = None /\ session' = None
Fresh == Forget /\ boot' = None /\ call' = [p \in Pages |-> Idle]

\* Mutant of Login: the client of an earlier user is emptied and used again.
LoginReuses(u) ==
    /\ user = None /\ cookie' = u /\ user' = u /\ owner' = u
    /\ IF owner = u THEN UNCHANGED memory ELSE Forget
    /\ ready' = [p \in Pages |-> FALSE]
    /\ UNCHANGED <<local, listed, boot, call, faults>>

Login(u) ==
    /\ user = None /\ cookie' = u /\ user' = u /\ owner' = u
    /\ IF owner = u THEN UNCHANGED <<memory, boot, call>> ELSE Fresh
    /\ ready' = [p \in Pages |-> FALSE]
    /\ UNCHANGED <<local, listed, faults>>

LogoutRequest ==
    /\ user # None /\ cookie # None /\ cookie' = None
    /\ UNCHANGED <<local, listed, user, owner, memory, boot, call, ready, faults>>

LogoutDone ==
    /\ user # None /\ cookie = None /\ user' = None /\ owner' = None /\ Fresh
    /\ ready' = [p \in Pages |-> FALSE]
    /\ UNCHANGED <<local, listed, cookie, faults>>

\* A 401 of another platform request signs the user out and keeps the client.
Unauthorized ==
    /\ user # None /\ cookie # None /\ faults < MaxFaults /\ faults' = faults + 1
    /\ cookie' = None /\ user' = None /\ ready' = [p \in Pages |-> FALSE]
    /\ UNCHANGED <<local, listed, owner, memory, boot, call>>

(***************************************************************************)
(* Devices, the platform's view of them, the network, time                 *)
(***************************************************************************)
StartService(d) ==
    /\ ~power[d] /\ generation[d] < MaxStarts
    /\ power' = [power EXCEPT ![d] = TRUE]
    /\ generation' = [generation EXCEPT ![d] = @ + 1]
    /\ UNCHANGED <<known, lapsed, listed, account, memory, boot, call, ready, faults>>

StopService(d) ==
    /\ power[d]
    /\ power' = [power EXCEPT ![d] = FALSE] /\ known' = [known EXCEPT ![d] = {}]
    /\ UNCHANGED <<generation, lapsed, listed, account, memory, boot, call, ready, faults>>

\* Presence is published by the device, or its last one has gone stale.
Presence(d) ==
    /\ listed' = [listed EXCEPT ![d] =
           IF power[d] THEN [state |-> "READY", generation |-> generation[d]]
           ELSE [@ EXCEPT !.state = "OFFLINE"]]
    /\ UNCHANGED <<local, account, memory, boot, call, ready, faults>>

DropSessions(d) ==
    /\ known[d] # {} /\ faults < MaxFaults /\ faults' = faults + 1
    /\ known' = [known EXCEPT ![d] = {}]
    /\ UNCHANGED <<power, generation, lapsed, listed, account, memory, boot, call, ready>>

\* Answers get lost on the way, also after the service acted on the request;
\* without a cookie the platform answers 401.
RequestFails(p) ==
    /\ call[p].at \in {"list_sent", "grant_sent", "open_sent", "open_got", "sent", "answered"}
    /\ \/ faults < MaxFaults /\ faults' = faults + 1
       \/ At(p, "list_sent") /\ cookie = None /\ UNCHANGED faults
    /\ Reject(p)
    /\ UNCHANGED <<local, listed, account, memory>>

\* A session lives for minutes and a request for seconds: that it lapses under a
\* request the service would answer is one of the faults.
Lapse(i) ==
    /\ i \in InUse \ lapsed /\ lapsed' = lapsed \cup {i}
    /\ \/ faults < MaxFaults /\ faults' = faults + 1
       \/ /\ \A p \in Pages : "held" \in DOMAIN call[p] /\ call[p].held.id = i
                => i \notin known[call[p].held.device]
          /\ UNCHANGED faults
    /\ UNCHANGED <<power, generation, known, listed, account, memory, boot, call, ready>>

(***************************************************************************)
(* The specification                                                       *)
(***************************************************************************)
CallStep(p) ==
    \/ ListAnswer(p) \/ Discover(p) \/ SelectLists(p) \/ SelectDevice(p)
    \/ EnsureSession(p) \/ GrantAnswer(p)
    \/ OpenAnswer(p) \/ Opened(p) \/ CheckSession(p)
    \/ RequestAnswer(p) \/ Finish(p) \/ RequestFails(p)

Next ==
    \/ LoadDocuments \/ LoadSources \/ Submit
    \/ \E p \in Pages : CallStep(p)
    \/ \E u \in Users : Login(u)
    \/ LogoutRequest \/ LogoutDone \/ Unauthorized
    \/ \E d \in Devices : StartService(d) \/ StopService(d) \/ Presence(d) \/ DropSessions(d)
    \/ \E i \in Ids : Lapse(i)

Spec == Init /\ [][Next]_vars

\* Requests are answered or fail, presence is published every few seconds, time
\* passes, and a page loads again: the poll and refresh of the documents page,
\* the retries and "Try Again" of the ask page.
FairSpec ==
    /\ Spec
    /\ WF_vars(CallStep("docs") \/ LoadDocuments)
    /\ WF_vars(CallStep("ask") \/ LoadSources)
    /\ WF_vars(\E d \in Devices : Presence(d))
    /\ WF_vars(\E i \in Ids : Lapse(i))

(***************************************************************************)
(* Properties                                                              *)
(***************************************************************************)
Bootstrapping == {"bootstrap", "grant_sent", "open_sent", "open_got"}
Steps == Bootstrapping \cup {"idle", "list_sent", "list_got", "connect", "ensure",
                             "await", "check", "sent", "answered"}

TypeOK ==
    /\ power \in [Devices -> BOOLEAN] /\ generation \in [Devices -> 0 .. MaxStarts]
    /\ listed \in [Devices -> Entry]
    /\ known \in [Devices -> SUBSET Ids] /\ lapsed \subseteq Ids
    /\ {cookie, user, owner} \subseteq Users \cup {None}
    /\ DOMAIN devices \subseteq Devices
    /\ \A d \in DOMAIN devices : devices[d] \in Entry
    /\ selected \in Devices \cup {None} /\ session \in Session \cup {None}
    /\ boot \in Pages \cup {None} /\ call["ask"].at \in Steps /\ call["docs"].at \in Steps
    /\ ready \in [Pages -> BOOLEAN] /\ faults \in 0 .. MaxFaults

\* However sign-outs and sign-ins fall between the steps of a bootstrap, the
\* client holds a session only of the device it has selected, and that device
\* belongs to the user the client was made for (shared.ts).
SessionBelongsToUser ==
    session # None
    => session.device = selected /\ Owner[session.device] = owner

Reachable ==
    user # None /\ cookie = user /\ \E d \in Devices : Owner[d] = user /\ power[d]

\* While the user stays signed in and the device stays up, the documents page
\* gets through again and again, whatever restarts, dropped sessions and failed
\* requests came before.
DocumentsRecover == []<>(Reachable => ready["docs"])

\* "restart/autostart/reconnect returns READY without re-pairing": so does the
\* ask page, when it is retried.
AskRecovers == []<>(Reachable => ready["ask"])
================================================================================
