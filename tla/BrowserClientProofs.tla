------------------------ MODULE BrowserClientProofs ------------------------
(***************************************************************************)
(* Proofs about BrowserClient, for any users, devices and bounds.          *)
(*                                                                         *)
(* A client lists the devices of one user, its owner, because the cookie   *)
(* only ever names that user while the client lives (CookieIsOwners).  So  *)
(* a list never drops the selected device (SelectedIsListed), and what two *)
(* pages have under way is about that device (WorkIsOnSelected).           *)
(***************************************************************************)
EXTENDS BrowserClient, TLAPS

Stages == {"connect", "request"}
Generations == 1 .. MaxStarts

\* The shapes of a call under way.
Resting == [at : {"idle"}]
Listing == [at : {"list_sent"}, stage : Stages, back : {"connect", "bootstrap"},
            fresh : BOOLEAN]
Selector == [at : {"connect", "bootstrap"}, stage : Stages, fresh : BOOLEAN]
Asking == [at : {"ensure", "await"}, stage : Stages]
Opening == [at : {"grant_sent", "open_sent"}, stage : Stages, device : Devices,
            generation : Generations]
Holding == [at : {"open_got"}, stage : Stages, held : Session]
Signing == [at : {"check", "sent"}, held : Session]
Answering == [at : {"answered"}, code : {"OK", "SESSION_EXPIRED"}]

\* The list that was answered is of the client's owner.
Mine == {d \in Devices : Owner[d] = owner}

Listed == [at : {"list_got"}, stage : Stages, back : {"connect", "bootstrap"},
           fresh : BOOLEAN, got : [Mine -> Entry]]

Calls == Resting \cup Listing \cup Listed \cup Selector \cup Asking \cup Opening
         \cup Holding \cup Signing \cup Answering

Typing ==
    /\ TypeOK
    /\ call \in [Pages -> Calls]
    /\ devices \in [{} -> Entry] \cup [Mine -> Entry]

\* The platform and the application see nobody or the owner signed in.
CookieIsOwners == {cookie, user} \subseteq {None, owner}

\* The selected device is on the client's list.
SelectedIsListed == selected # None => selected \in DOMAIN devices

\* What the calls and the memory hold is about the selected device.
WorkIsOnSelected ==
    /\ \A p \in Pages :
           /\ call[p].at \in {"grant_sent", "open_sent"} => call[p].device = selected
           /\ call[p].at \in {"open_got", "check", "sent"} =>
                  call[p].held.device = selected
    /\ session # None => session.device = selected

\* The page whose call runs the bootstrap, the listing within it included.
RunsBootstrap(p) ==
    \/ call[p].at \in Bootstrapping
    \/ call[p].at \in {"list_sent", "list_got"} /\ call[p].back = "bootstrap"

\* A bootstrap runs exactly while its promise is there, and only then does
\* another call wait for it.
WaitersAreServed ==
    /\ \A p \in Pages : RunsBootstrap(p) <=> boot = p
    /\ Waiting # {} => boot # None

IInv ==
    /\ Typing
    /\ CookieIsOwners
    /\ SelectedIsListed
    /\ WorkIsOnSelected
    /\ WaitersAreServed

-----------------------------------------------------------------------------
\* A call at a step has the shape of that step.
LEMMA Shapes ==
  ASSUME NEW c \in Calls
  PROVE  /\ c.at \in Steps
         /\ c.at = "idle" => c \in Resting
         /\ c.at = "list_sent" => c \in Listing
         /\ c.at = "list_got" => c \in Listed
         /\ c.at \in {"connect", "bootstrap"} => c \in Selector
         /\ c.at \in {"ensure", "await"} => c \in Asking
         /\ c.at \in {"grant_sent", "open_sent"} => c \in Opening
         /\ c.at = "open_got" => c \in Holding
         /\ c.at \in {"check", "sent"} => c \in Signing
         /\ c.at = "answered" => c \in Answering
         /\ "held" \in DOMAIN c => c \in Holding \cup Signing
  BY DEF Calls, Resting, Listing, Listed, Selector, Asking, Opening, Holding, Signing,
         Answering, Steps, Bootstrapping

\* A call that goes on has the shape of the step it goes on with.
LEMMA ResumedShape ==
  ASSUME NEW c \in Asking \cup Holding, NEW v \in Session
  PROVE  Resumed(c, v) \in Asking \cup Signing
  BY DEF Resumed, Asking, Holding, Signing, Stages

\* Whose list a client has changes with its owner only.
LEMMA SameShapes == UNCHANGED owner => Mine' = Mine /\ Calls' = Calls
  BY DEF Mine, Calls, Listed

\* Moving one call keeps the calls in shape.
LEMMA MovedCalls ==
  ASSUME NEW p \in Pages, NEW c \in Calls, call \in [Pages -> Calls]
  PROVE  To(p, c) => call' \in [Pages -> Calls]
  BY DEF To

\* Rejecting a call, and those that wait for it, keeps the calls in shape.
LEMMA RejectedCalls ==
  ASSUME NEW p \in Pages, call \in [Pages -> Calls], boot \in Pages \cup {None},
         ready \in [Pages -> BOOLEAN]
  PROVE  Reject(p) => /\ call' \in [Pages -> Calls]
                      /\ boot' \in Pages \cup {None}
                      /\ ready' \in [Pages -> BOOLEAN]
<1>1. Idle \in Calls
  BY DEF Idle, Calls, Resting
<1> QED BY <1>1 DEF Reject, Released

\* Resolving a call, and those that wait for it, keeps the calls in shape.
LEMMA ResolvedCalls ==
  ASSUME NEW p \in Pages, NEW v \in Session, call \in [Pages -> Calls],
         boot \in Pages \cup {None}, At(p, "open_got")
  PROVE  Resolve(p, v) => call' \in [Pages -> Calls] /\ boot' \in Pages \cup {None}
<1>1. \A q \in Sharing(p) : q \in Pages /\ call[q] \in Asking \cup Holding
  BY Shapes DEF Sharing, Waiting, At
<1>2. \A q \in Sharing(p) : Resumed(call[q], v) \in Calls
  BY <1>1, ResumedShape DEF Calls
<1> QED BY <1>2 DEF Resolve, Released

\* The identifiers that are in use are identifiers, so that one is free when
\* not all are.
LEMMA IdsInUse ==
  ASSUME session \in Session \cup {None}, call \in [Pages -> Calls]
  PROVE  InUse \subseteq Ids
<1>1. \A q \in Pages : "held" \in DOMAIN call[q] => call[q].held \in Session
  BY Shapes DEF Holding, Signing
<1> QED BY <1>1 DEF InUse, Session

\* An emptied client has no call under way and no list.
LEMMA FreshTyped ==
    Fresh => /\ devices' \in [{} -> Entry] /\ DOMAIN devices' = {}
             /\ selected' = None /\ session' = None /\ boot' = None
             /\ call' \in [Pages -> Calls'] /\ call'["ask"].at = "idle"
             /\ call'["docs"].at = "idle"
<1>1. Idle \in Calls' /\ Idle.at = "idle"
  BY DEF Idle, Calls, Resting
<1>2. NoDevices \in [{} -> Entry] /\ DOMAIN NoDevices = {}
  BY DEF NoDevices
<1> QED BY <1>1, <1>2 DEF Fresh, Forget, Pages

\* Every variable has its type, and a call has the shape of its step.
LEMMA TypingStep == Typing /\ CookieIsOwners /\ [Next]_vars => Typing'
<1> SUFFICES ASSUME Typing, CookieIsOwners, [Next]_vars PROVE Typing'
  OBVIOUS
<1>a. \A p \in Pages : call[p] \in Calls
  BY DEF Typing
<1>b. ASSUME call' \in [Pages -> Calls] 
      PROVE  call'["ask"].at \in Steps /\ call'["docs"].at \in Steps
  BY <1>b, Shapes DEF Pages
<1> USE BrowserAssumption, SameShapes
<1> USE DEF Typing, TypeOK, Steps
<1> USE DEF local, account, memory
<1>1. CASE LoadDocuments
  <2> DEFINE list == [at |-> "list_sent", stage |-> "connect", back |-> "connect", fresh |-> FALSE]
             ask == [at |-> "ensure", stage |-> "request"]
  <2>1. list \in Calls /\ ask \in Calls
    <3>1. list \in Listing /\ ask \in Asking
      BY DEF Listing, Asking, Stages
    <3> QED BY <3>1 DEF Calls
  <2>2. To("docs", list) \/ To("docs", ask)
    BY <1>1 DEF LoadDocuments
  <2>3. call' \in [Pages -> Calls]
    BY <2>1, <2>2, MovedCalls DEF Pages
  <2> QED BY <1>1, <1>b, <2>3 DEF LoadDocuments
<1>2. CASE LoadSources
  <2> DEFINE connect == [at |-> "connect", stage |-> "connect", fresh |-> FALSE]
  <2>1. connect \in Selector
    BY DEF Selector, Stages
  <2>2. To("ask", connect) /\ connect \in Calls
    BY <1>2, <2>1 DEF LoadSources, Calls
  <2>3. call' \in [Pages -> Calls]
    BY <2>2, MovedCalls DEF Pages
  <2> QED BY <1>2, <1>b, <2>3 DEF LoadSources
<1>3. CASE Submit
  <2> DEFINE ask == [at |-> "ensure", stage |-> "request"]
  <2>1. ask \in Asking
    BY DEF Asking, Stages
  <2>2. To("ask", ask) /\ ask \in Calls
    BY <1>3, <2>1 DEF Submit, Calls
  <2>3. call' \in [Pages -> Calls]
    BY <2>2, MovedCalls DEF Pages
  <2> QED BY <1>3, <1>b, <2>3 DEF Submit
<1>4. ASSUME NEW p \in Pages, ListAnswer(p) PROVE Typing'
  <2> DEFINE c == call[p]
             got == [d \in {e \in Devices : Owner[e] = cookie} |-> listed[d]]
             next == [at |-> "list_got", stage |-> c.stage, back |-> c.back,
                      fresh |-> c.fresh, got |-> got]
  <2>1. c \in Listing
    BY <1>4, <1>a, Shapes DEF ListAnswer, At
  <2>2. cookie = owner
    BY <1>4 DEF ListAnswer, CookieIsOwners
  <2>3. got \in [Mine -> Entry]
    BY <2>2 DEF Mine
  <2>4. next \in Listed
    BY <2>1, <2>3 DEF Listing, Listed
  <2>5. To(p, next) /\ next \in Calls
    BY <1>4, <2>4 DEF ListAnswer, Calls
  <2>6. call' \in [Pages -> Calls]
    BY <2>5, MovedCalls
  <2> QED BY <1>4, <1>b, <2>6 DEF ListAnswer
<1>5. ASSUME NEW p \in Pages, Discover(p) PROVE Typing'
  <2> DEFINE c == call[p]
             next == [at |-> c.back, stage |-> c.stage, fresh |-> c.fresh]
  <2>1. c \in Listed
    BY <1>5, <1>a, Shapes DEF Discover, At
  <2>2. next \in Selector /\ c.got \in [Mine -> Entry] /\ DOMAIN c.got = Mine
    BY <2>1 DEF Listed, Selector
  <2>3. To(p, next) /\ next \in Calls
    BY <1>5, <2>2 DEF Discover, Calls
  <2>4. call' \in [Pages -> Calls]
    BY <2>3, MovedCalls
  <2>5. /\ devices' = c.got
        /\ session' \in {session, None} /\ selected' \in {selected, None}
        /\ UNCHANGED <<power, generation, listed, known, lapsed, cookie, user, owner,
                       boot, ready, faults>>
    BY <1>5 DEF Discover
  <2>6. devices' \in [Mine -> Entry] /\ Mine \subseteq Devices
    BY <2>2, <2>5 DEF Mine
  <2> QED BY <1>b, <2>4, <2>5, <2>6
<1>6. ASSUME NEW p \in Pages, SelectLists(p) PROVE Typing'
  <2> DEFINE c == call[p]
             next == [at |-> "list_sent", stage |-> c.stage, back |-> c.at, fresh |-> TRUE]
  <2>1. c \in Selector
    BY <1>6, <1>a, Shapes DEF SelectLists, Selecting, At
  <2>2. next \in Listing
    BY <2>1 DEF Listing, Selector
  <2>3. To(p, next) /\ next \in Calls
    BY <1>6, <2>2 DEF SelectLists, Calls
  <2>4. call' \in [Pages -> Calls]
    BY <2>3, MovedCalls
  <2> QED BY <1>6, <1>b, <2>4 DEF SelectLists
<1>7. ASSUME NEW p \in Pages, SelectDevice(p) PROVE Typing'
  <2> DEFINE c == call[p]
             next(d) == IF c.at = "connect" THEN [at |-> "ensure", stage |-> "connect"]
                        ELSE [at |-> "grant_sent", stage |-> c.stage, device |-> d,
                              generation |-> devices[d].generation]
  <2>1. c \in Selector
    BY <1>7, <1>a, Shapes DEF SelectDevice, Selecting, At
  <2>2. ASSUME NEW d \in Chosen
        PROVE  d \in Devices /\ devices[d].generation \in Generations
    <3>1. d \in DOMAIN devices /\ devices[d].generation # 0
      BY DEF Chosen
    <3> QED BY <3>1 DEF Entry, Generations
  <2>3. ASSUME NEW d \in Chosen PROVE next(d) \in Calls
    <3>1. next(d) \in Asking \cup Opening
      BY <2>1, <2>2 DEF Asking, Opening, Selector, Stages
    <3> QED BY <3>1 DEF Calls
  <2>4. \/ \E d \in Chosen : selected' = d /\ To(p, next(d)) /\ UNCHANGED <<boot, ready>>
        \/ Reject(p) /\ UNCHANGED selected
    BY <1>7 DEF SelectDevice
  <2>5. /\ call' \in [Pages -> Calls] /\ selected' \in Devices \cup {None}
        /\ boot' \in Pages \cup {None} /\ ready' \in [Pages -> BOOLEAN]
    <3>1. CASE \E d \in Chosen : selected' = d /\ To(p, next(d)) /\ UNCHANGED <<boot, ready>>
      BY <2>2, <2>3, <3>1, MovedCalls
    <3>2. CASE Reject(p) /\ UNCHANGED selected
      BY <3>2, RejectedCalls
    <3> QED BY <2>4, <3>1, <3>2
  <2> QED BY <1>7, <1>b, <2>5 DEF SelectDevice
<1>8. ASSUME NEW p \in Pages, EnsureSession(p) PROVE Typing'
  <2> DEFINE c == call[p]
             wait == [at |-> "await", stage |-> c.stage]
             start == [at |-> "bootstrap", stage |-> c.stage, fresh |-> FALSE]
  <2>1. c \in Asking
    BY <1>8, <1>a, Shapes DEF EnsureSession, At
  <2>2. wait \in Calls /\ start \in Calls
    <3>1. wait \in Asking /\ start \in Selector
      BY <2>1 DEF Asking, Selector
    <3> QED BY <3>1 DEF Calls
  <2>3. CASE Usable
    <3>1. Resumed(c, session) \in Calls
      BY <2>1, <2>3, ResumedShape DEF Usable, Calls
    <3>2. call' \in [Pages -> Calls] /\ UNCHANGED <<session, boot>>
      BY <1>8, <2>3, <3>1, MovedCalls DEF EnsureSession
    <3> QED BY <1>8, <1>b, <3>2 DEF EnsureSession
  <2>4. CASE ~Usable
    <3>1. /\ session' = None /\ boot' \in {boot, p}
          /\ To(p, wait) \/ To(p, start)
      BY <1>8, <2>4 DEF EnsureSession
    <3>2. call' \in [Pages -> Calls]
      BY <2>2, <3>1, MovedCalls
    <3> QED BY <1>8, <1>b, <3>1, <3>2 DEF EnsureSession
  <2> QED BY <2>3, <2>4
<1>9. ASSUME NEW p \in Pages, GrantAnswer(p) PROVE Typing'
  <2> DEFINE c == call[p]
             next == [c EXCEPT !.at = "open_sent"]
  <2>1. c \in Opening
    BY <1>9, <1>a, Shapes DEF GrantAnswer, At
  <2>2. next \in Calls
    <3>1. next \in Opening
      BY <2>1 DEF Opening
    <3> QED BY <3>1 DEF Calls
  <2>3. (To(p, next) /\ UNCHANGED <<boot, ready>>) \/ Reject(p)
    BY <1>9 DEF GrantAnswer
  <2>4. /\ call' \in [Pages -> Calls]
        /\ boot' \in Pages \cup {None} /\ ready' \in [Pages -> BOOLEAN]
    BY <2>2, <2>3, MovedCalls, RejectedCalls
  <2> QED BY <1>9, <1>b, <2>4 DEF GrantAnswer
<1>10. ASSUME NEW p \in Pages, OpenAnswer(p) PROVE Typing'
  <2> DEFINE c == call[p]
             i == CHOOSE j \in Ids \ InUse : TRUE
             next == [at |-> "open_got", stage |-> c.stage, held |->
                      [id |-> i, device |-> c.device, generation |-> c.generation]]
  <2>1. c \in Opening
    BY <1>10, <1>a, Shapes DEF OpenAnswer, At
  <2>2. CASE /\ Ids # InUse /\ To(p, next) /\ lapsed' = lapsed \cap InUse
             /\ known' = [d \in Devices |-> {j \in known[d] : j \in InUse}
                                            \cup (IF d = c.device THEN {i} ELSE {})]
             /\ UNCHANGED <<boot, ready>>
    <3>1. i \in Ids
      BY <2>2, IdsInUse
    <3>2. next \in Holding
      BY <2>1, <3>1 DEF Opening, Holding, Session, Generations
    <3>3. call' \in [Pages -> Calls]
      BY <2>2, <3>2, MovedCalls DEF Calls
    <3>4. known' \in [Devices -> SUBSET Ids] /\ lapsed' \subseteq Ids
      BY <2>2, <3>1
    <3> QED BY <1>10, <1>b, <2>2, <3>3, <3>4 DEF OpenAnswer
  <2>3. CASE Reject(p) /\ UNCHANGED <<known, lapsed>>
    <3>1. /\ call' \in [Pages -> Calls]
          /\ boot' \in Pages \cup {None} /\ ready' \in [Pages -> BOOLEAN]
      BY <2>3, RejectedCalls
    <3> QED BY <1>10, <1>b, <2>3, <3>1 DEF OpenAnswer
  <2> QED BY <1>10, <2>2, <2>3 DEF OpenAnswer
<1>11. ASSUME NEW p \in Pages, Opened(p) PROVE Typing'
  <2> DEFINE s == call[p].held
  <2>1. s \in Session
    BY <1>11, <1>a, Shapes DEF Opened, At, Holding
  <2>2. call' \in [Pages -> Calls] /\ boot' \in Pages \cup {None}
    BY <1>11, <2>1, ResolvedCalls DEF Opened
  <2> QED BY <1>11, <1>b, <2>1, <2>2 DEF Opened
<1>12. ASSUME NEW p \in Pages, CheckSession(p) PROVE Typing'
  <2> DEFINE next == [call[p] EXCEPT !.at = "sent"]
  <2>1. call[p] \in Signing
    BY <1>12, <1>a, Shapes DEF CheckSession, At
  <2>2. next \in Calls
    <3>1. next \in Signing
      BY <2>1 DEF Signing
    <3> QED BY <3>1 DEF Calls
  <2>3. \/ To(p, next) /\ UNCHANGED <<session, boot, ready>>
        \/ session' = None /\ Reject(p)
    BY <1>12 DEF CheckSession
  <2>4. /\ call' \in [Pages -> Calls] /\ session' \in Session \cup {None}
        /\ boot' \in Pages \cup {None} /\ ready' \in [Pages -> BOOLEAN]
    BY <2>2, <2>3, MovedCalls, RejectedCalls
  <2> QED BY <1>12, <1>b, <2>4 DEF CheckSession
<1>13. ASSUME NEW p \in Pages, RequestAnswer(p) PROVE Typing'
  <2> DEFINE s == call[p].held
             next == [at |-> "answered", code |->
                      IF s.id \in known[s.device] \ lapsed THEN "OK"
                      ELSE "SESSION_EXPIRED"]
  <2>1. s \in Session
    BY <1>13, <1>a, Shapes DEF RequestAnswer, At, Signing
  <2>2. next \in Calls
    <3>1. next \in Answering
      BY DEF Answering
    <3> QED BY <3>1 DEF Calls
  <2>3. \/ /\ To(p, next) /\ UNCHANGED <<boot, ready>>
           /\ known' = [known EXCEPT ![s.device] = @ \ (lapsed \cap {s.id})]
        \/ Reject(p) /\ UNCHANGED known
    BY <1>13 DEF RequestAnswer
  <2>4. /\ call' \in [Pages -> Calls]
        /\ boot' \in Pages \cup {None} /\ ready' \in [Pages -> BOOLEAN]
    BY <2>2, <2>3, MovedCalls, RejectedCalls
  <2>5. known' \in [Devices -> SUBSET Ids]
    <3> DEFINE left == known[s.device] \ (lapsed \cap {s.id})
    <3>1. s.device \in Devices /\ left \in SUBSET Ids
      BY <2>1 DEF Session
    <3>2. known' = known \/ known' = [known EXCEPT ![s.device] = left]
      BY <2>3
    <3> QED BY <3>1, <3>2
  <2> QED BY <1>13, <1>b, <2>4, <2>5 DEF RequestAnswer
<1>14. ASSUME NEW p \in Pages, Finish(p) PROVE Typing'
  <2>1. Idle \in Calls
    BY DEF Idle, Calls, Resting
  <2>2. call' \in [Pages -> Calls]
    BY <1>14, <2>1, MovedCalls DEF Finish
  <2>3. session' \in Session \cup {None} /\ ready' \in [Pages -> BOOLEAN]
    BY <1>14 DEF Finish
  <2> QED BY <1>14, <1>b, <2>2, <2>3 DEF Finish
<1>15. ASSUME NEW p \in Pages, RequestFails(p) PROVE Typing'
  <2>1. /\ call' \in [Pages -> Calls]
        /\ boot' \in Pages \cup {None} /\ ready' \in [Pages -> BOOLEAN]
    BY <1>15, RejectedCalls DEF RequestFails
  <2> QED BY <1>15, <1>b, <2>1 DEF RequestFails
<1>16. ASSUME NEW u \in Users, Login(u) PROVE Typing'
  <2>1. CASE owner = u
    <3>1. UNCHANGED <<memory, boot, call, owner>>
      BY <1>16, <2>1 DEF Login
    <3>2. call' \in [Pages -> Calls]
      BY <3>1
    <3> QED BY <1>16, <1>b, <3>1, <3>2 DEF Login
  <2>2. CASE owner # u
    <3>1. Fresh
      BY <1>16, <2>2 DEF Login
    <3> QED BY <1>16, <3>1, FreshTyped DEF Login
  <2> QED BY <2>1, <2>2
<1>17. CASE LogoutRequest
  <2>1. call' \in [Pages -> Calls] /\ Calls' = Calls /\ Mine' = Mine
    BY <1>17 DEF LogoutRequest
  <2> QED BY <1>17, <1>b, <2>1 DEF LogoutRequest
<1>18. CASE LogoutDone
  <2>1. Fresh
    BY <1>18 DEF LogoutDone
  <2> QED BY <1>18, <2>1, FreshTyped DEF LogoutDone
<1>19. CASE Unauthorized
  <2>1. call' \in [Pages -> Calls] /\ Calls' = Calls /\ Mine' = Mine
    BY <1>19 DEF Unauthorized
  <2> QED BY <1>19, <1>b, <2>1 DEF Unauthorized
<1>20. ASSUME NEW d \in Devices, StartService(d) PROVE Typing'
  <2>1. call' \in [Pages -> Calls] /\ Calls' = Calls /\ Mine' = Mine
    BY <1>20 DEF StartService
  <2> QED BY <1>20, <1>b, <2>1 DEF StartService
<1>21. ASSUME NEW d \in Devices, StopService(d) PROVE Typing'
  <2>1. call' \in [Pages -> Calls] /\ Calls' = Calls /\ Mine' = Mine
    BY <1>21 DEF StopService
  <2> QED BY <1>21, <1>b, <2>1 DEF StopService
<1>22. ASSUME NEW d \in Devices, Presence(d) PROVE Typing'
  <2> DEFINE entry == IF power[d] THEN [state |-> "READY", generation |-> generation[d]]
                      ELSE [listed[d] EXCEPT !.state = "OFFLINE"]
  <2>1. call' \in [Pages -> Calls] /\ Calls' = Calls /\ Mine' = Mine
    BY <1>22 DEF Presence
  <2>2. entry \in Entry
    <3>1. [state |-> "READY", generation |-> generation[d]] \in Entry
      BY DEF Entry
    <3>2. listed[d] \in Entry
      OBVIOUS
    <3>3. [listed[d] EXCEPT !.state = "OFFLINE"] \in Entry
      BY <3>2 DEF Entry
    <3> QED BY <3>1, <3>3, Zenon
  <2>3. listed' = [listed EXCEPT ![d] = entry]
    BY <1>22 DEF Presence
  <2>4. listed' \in [Devices -> Entry]
    BY <2>2, <2>3
  <2> QED BY <1>22, <1>b, <2>1, <2>4 DEF Presence
<1>23. ASSUME NEW d \in Devices, DropSessions(d) PROVE Typing'
  <2>1. call' \in [Pages -> Calls] /\ Calls' = Calls /\ Mine' = Mine
    BY <1>23 DEF DropSessions
  <2> QED BY <1>23, <1>b, <2>1 DEF DropSessions
<1>24. ASSUME NEW i \in Ids, Lapse(i) PROVE Typing'
  <2>1. call' \in [Pages -> Calls] /\ Calls' = Calls /\ Mine' = Mine
    BY <1>24 DEF Lapse
  <2> QED BY <1>24, <1>b, <2>1 DEF Lapse, InUse
<1>25. CASE UNCHANGED vars
  BY <1>25 DEF vars
<1> QED
  BY <1>1, <1>2, <1>3, <1>4, <1>5, <1>6, <1>7, <1>8, <1>9, <1>10, <1>11, <1>12,
     <1>13, <1>14, <1>15, <1>16, <1>17, <1>18, <1>19, <1>20, <1>21, <1>22, <1>23, <1>24, <1>25
  DEF Next, CallStep

-----------------------------------------------------------------------------
OwnerInv == CookieIsOwners /\ SelectedIsListed /\ WorkIsOnSelected

\* A rejected call is idle and the others go on as they were.
LEMMA RejectedAreIdle ==
  ASSUME NEW p \in Pages, call \in [Pages -> Calls]
  PROVE  Reject(p) => \A q \in Pages : call'[q] = call[q] \/ call'[q].at = "idle"
  BY DEF Reject, Idle

\* A call that holds nothing, or what belongs to the selected device, may be
\* under way.
OnSelected(c) ==
    /\ c.at \in {"grant_sent", "open_sent"} => c.device = selected
    /\ c.at \in {"open_got", "check", "sent"} => c.held.device = selected

\* The selected device stays on the owner's list, and all work is about it.
LEMMA OwnerStep == Typing /\ OwnerInv /\ [Next]_vars => OwnerInv'
<1> SUFFICES ASSUME Typing, OwnerInv, [Next]_vars PROVE OwnerInv'
  OBVIOUS
<1>a. call \in [Pages -> Calls] /\ \A p \in Pages : call[p] \in Calls
  BY DEF Typing
<1> USE DEF OwnerInv, CookieIsOwners, SelectedIsListed, WorkIsOnSelected
<1> USE DEF local, account, memory
<1>1. CASE LoadDocuments
  BY <1>1, <1>a DEF LoadDocuments, To
<1>2. CASE LoadSources
  BY <1>2, <1>a DEF LoadSources, To
<1>3. CASE Submit
  BY <1>3, <1>a DEF Submit, To
<1>4. ASSUME NEW p \in Pages, ListAnswer(p) PROVE OwnerInv'
  BY <1>4, <1>a, Shapes DEF ListAnswer, To, At, Selecting, Selector
<1>5. ASSUME NEW p \in Pages, Discover(p) PROVE OwnerInv'
  <2> DEFINE c == call[p]
  <2>1. c \in Listed
    BY <1>5, <1>a, Shapes DEF Discover, At
  <2>2. DOMAIN c.got = Mine /\ c.back \in {"connect", "bootstrap"}
    BY <2>1 DEF Listed
  <2>3. selected # None => selected \in Mine
    BY DEF Typing
  <2>4. selected' = selected /\ devices' = c.got /\ session' \in {session, None}
    BY <1>5, <2>2, <2>3 DEF Discover
  <2>5. \A q \in Pages : call'[q] = call[q] \/ call'[q].at \in {"connect", "bootstrap"}
    BY <1>5, <1>a, <2>2 DEF Discover, To
  <2> QED BY <1>5, <2>2, <2>3, <2>4, <2>5 DEF Discover
<1>6. ASSUME NEW p \in Pages, SelectLists(p) PROVE OwnerInv'
  BY <1>6, <1>a, Shapes DEF SelectLists, To, At, Selecting, Selector
<1>7. ASSUME NEW p \in Pages, SelectDevice(p) PROVE OwnerInv'
  <2> DEFINE c == call[p]
  <2>1. CASE Reject(p) /\ UNCHANGED selected
    BY <1>7, <1>a, <2>1, RejectedAreIdle DEF SelectDevice
  <2>2. ASSUME NEW d \in Chosen, selected' = d,
               To(p, IF c.at = "connect" THEN [at |-> "ensure", stage |-> "connect"]
                     ELSE [at |-> "grant_sent", stage |-> c.stage, device |-> d,
                           generation |-> devices[d].generation])
        PROVE  OwnerInv'
    <3>1. d \in DOMAIN devices /\ (selected # None => d = selected)
      BY DEF Chosen
    <3>2. UNCHANGED <<account, devices, session>>
      BY <1>7 DEF SelectDevice
    <3>3. d # None
      BY <3>1, BrowserAssumption DEF Typing, Mine
    <3>4. selected = None => /\ session = None
                            /\ \A q \in Pages : call[q].at \notin {"grant_sent", "open_sent",
                                                   "open_got", "check", "sent"}
      BY <1>a, Shapes, BrowserAssumption DEF Typing, TypeOK, Opening, Holding, Signing, Session
    <3>5. /\ call'[p].at \in {"ensure", "grant_sent"}
          /\ call'[p].at = "grant_sent" => call'[p].device = d
          /\ \A q \in Pages : q # p => call'[q] = call[q]
      BY <1>a, <2>2 DEF To
    <3> QED BY <2>2, <3>1, <3>2, <3>3, <3>4, <3>5
  <2> QED BY <1>7, <2>1, <2>2 DEF SelectDevice
<1>8. ASSUME NEW p \in Pages, EnsureSession(p) PROVE OwnerInv'
  <2> DEFINE c == call[p]
  <2>1. CASE Usable
    <3>1. /\ session # None /\ UNCHANGED <<account, memory>>
          /\ call' = [call EXCEPT ![p] = Resumed(c, session)]
      BY <1>8, <2>1 DEF EnsureSession, Usable, To
    <3>2. OnSelected(Resumed(c, session))
      BY <3>1 DEF OnSelected, Resumed
    <3> QED BY <1>a, <3>1, <3>2 DEF OnSelected
  <2>2. CASE ~Usable
    <3>1. /\ session' = None /\ UNCHANGED <<account, devices, selected>>
          /\ \A q \in Pages : call'[q] = call[q] \/ call'[q].at \in {"await", "bootstrap"}
      BY <1>8, <1>a, <2>2 DEF EnsureSession, To
    <3> QED BY <3>1
  <2> QED BY <2>1, <2>2
<1>9. ASSUME NEW p \in Pages, GrantAnswer(p) PROVE OwnerInv'
  <2> DEFINE next == [call[p] EXCEPT !.at = "open_sent"]
  <2>1. call[p] \in Opening /\ call[p].at = "grant_sent"
    BY <1>9, <1>a, Shapes DEF GrantAnswer, At
  <2>2. OnSelected(next)
    BY <2>1 DEF Opening, OnSelected
  <2>3. (To(p, next) \/ Reject(p)) /\ UNCHANGED <<account, memory>>
    BY <1>9 DEF GrantAnswer
  <2> QED BY <1>a, <2>2, <2>3, RejectedAreIdle DEF To, OnSelected
<1>10. ASSUME NEW p \in Pages, OpenAnswer(p) PROVE OwnerInv'
  <2> DEFINE c == call[p]
             next(i) == [at |-> "open_got", stage |-> c.stage, held |->
                         [id |-> i, device |-> c.device, generation |-> c.generation]]
  <2>1. c.at = "open_sent"
    BY <1>10 DEF OpenAnswer, At
  <2>2. \A i : OnSelected(next(i))
    BY <2>1 DEF OnSelected
  <2>3. ((\E i : To(p, next(i))) \/ Reject(p)) /\ UNCHANGED <<account, memory>>
    BY <1>10 DEF OpenAnswer
  <2> QED BY <1>a, <2>2, <2>3, RejectedAreIdle DEF To, OnSelected
<1>11. ASSUME NEW p \in Pages, Opened(p) PROVE OwnerInv'
  <2> DEFINE s == call[p].held
  <2>1. s.device = selected /\ session' = s /\ UNCHANGED <<account, devices, selected>>
    BY <1>11 DEF Opened, At
  <2>2. \A q \in Pages : OnSelected(Resumed(call[q], s))
    BY <2>1 DEF OnSelected, Resumed
  <2>3. \A q \in Pages : call'[q] = call[q] \/ call'[q] = Resumed(call[q], s)
    BY <1>11 DEF Opened, Resolve
  <2> QED BY <2>1, <2>2, <2>3 DEF OnSelected
<1>12. ASSUME NEW p \in Pages, CheckSession(p) PROVE OwnerInv'
  <2> DEFINE next == [call[p] EXCEPT !.at = "sent"]
  <2>1. call[p] \in Signing /\ call[p].at = "check"
    BY <1>12, <1>a, Shapes DEF CheckSession, At
  <2>2. OnSelected(next)
    BY <2>1 DEF Signing, OnSelected
  <2>3. /\ To(p, next) \/ Reject(p)
        /\ session' \in {session, None} /\ UNCHANGED <<account, devices, selected>>
    BY <1>12 DEF CheckSession
  <2> QED BY <1>a, <2>2, <2>3, RejectedAreIdle DEF To, OnSelected
<1>13. ASSUME NEW p \in Pages, RequestAnswer(p) PROVE OwnerInv'
  <2>1. /\ Reject(p) \/ \E code : To(p, [at |-> "answered", code |-> code])
        /\ UNCHANGED <<account, memory>>
    BY <1>13 DEF RequestAnswer
  <2> QED BY <1>a, <2>1, RejectedAreIdle DEF To
<1>14. ASSUME NEW p \in Pages, Finish(p) PROVE OwnerInv'
  BY <1>14, <1>a DEF Finish, To, Idle
<1>15. ASSUME NEW p \in Pages, RequestFails(p) PROVE OwnerInv'
  BY <1>15, <1>a, RejectedAreIdle DEF RequestFails
<1>16. ASSUME NEW u \in Users, Login(u) PROVE OwnerInv'
  <2>1. CASE owner = u
    BY <1>16, <2>1 DEF Login
  <2>2. CASE owner # u
    BY <1>16, <2>2, FreshTyped DEF Login, Pages
  <2> QED BY <2>1, <2>2
<1>17. CASE LogoutRequest
  BY <1>17 DEF LogoutRequest
<1>18. CASE LogoutDone
  BY <1>18, FreshTyped DEF LogoutDone, Pages
<1>19. CASE Unauthorized
  BY <1>19 DEF Unauthorized
<1>20. ASSUME NEW d \in Devices, StartService(d) PROVE OwnerInv'
  BY <1>20 DEF StartService
<1>21. ASSUME NEW d \in Devices, StopService(d) PROVE OwnerInv'
  BY <1>21 DEF StopService
<1>22. ASSUME NEW d \in Devices, Presence(d) PROVE OwnerInv'
  BY <1>22 DEF Presence
<1>23. ASSUME NEW d \in Devices, DropSessions(d) PROVE OwnerInv'
  BY <1>23 DEF DropSessions
<1>24. ASSUME NEW i \in Ids, Lapse(i) PROVE OwnerInv'
  BY <1>24 DEF Lapse
<1>25. CASE UNCHANGED vars
  BY <1>25 DEF vars
<1> QED
  BY <1>1, <1>2, <1>3, <1>4, <1>5, <1>6, <1>7, <1>8, <1>9, <1>10, <1>11, <1>12,
     <1>13, <1>14, <1>15, <1>16, <1>17, <1>18, <1>19, <1>20, <1>21, <1>22, <1>23, <1>24, <1>25
  DEF Next, CallStep

-----------------------------------------------------------------------------
\* Rejecting or resolving the bootstrap ends it and releases those that wait.
LEMMA RejectServes ==
  ASSUME NEW p \in Pages, call \in [Pages -> Calls], WaitersAreServed,
         call[p].at # "await"
  PROVE  Reject(p) => WaitersAreServed'
<1> SUFFICES ASSUME Reject(p) PROVE WaitersAreServed'
  OBVIOUS
<1>1. \A q \in Pages : call'[q] = IF q \in Sharing(p) THEN Idle ELSE call[q]
  BY DEF Reject
<1>2. boot' = Released(p) /\ Idle.at = "idle"
  BY DEF Reject, Idle
<1> QED
  BY <1>1, <1>2, BrowserAssumption
  DEF WaitersAreServed, RunsBootstrap, Bootstrapping, Sharing, Released, Waiting, At

\* A bootstrap runs exactly while its promise is there.
LEMMA WaiterStep == Typing /\ WaitersAreServed /\ [Next]_vars => WaitersAreServed'
<1> SUFFICES ASSUME Typing, WaitersAreServed, [Next]_vars PROVE WaitersAreServed'
  OBVIOUS
<1>a. /\ call \in [Pages -> Calls] /\ \A p \in Pages : call[p] \in Calls
      /\ boot \in Pages \cup {None}
  BY DEF Typing, TypeOK
<1> USE BrowserAssumption
<1> USE DEF WaitersAreServed, RunsBootstrap, Bootstrapping, Waiting, At
<1> USE DEF local, account, memory
<1>1. CASE LoadDocuments
  BY <1>1, <1>a DEF LoadDocuments, To, Idle
<1>2. CASE LoadSources
  BY <1>2, <1>a DEF LoadSources, To, Idle
<1>3. CASE Submit
  BY <1>3, <1>a DEF Submit, To, Idle
<1>4. ASSUME NEW p \in Pages, ListAnswer(p) PROVE WaitersAreServed'
  BY <1>4, <1>a, Shapes DEF ListAnswer, To, Selecting, Selector
<1>5. ASSUME NEW p \in Pages, Discover(p) PROVE WaitersAreServed'
  <2>1. call[p] \in Listed
    BY <1>5, <1>a, Shapes DEF Discover
  <2> QED BY <1>5, <1>a, <2>1 DEF Discover, To, Listed
<1>6. ASSUME NEW p \in Pages, SelectLists(p) PROVE WaitersAreServed'
  BY <1>6, <1>a, Shapes DEF SelectLists, To, Selecting, Selector
<1>7. ASSUME NEW p \in Pages, SelectDevice(p) PROVE WaitersAreServed'
  <2> DEFINE c == call[p]
  <2>1. CASE Reject(p)
    BY <1>7, <1>a, <2>1, RejectServes DEF SelectDevice, Selecting
  <2>2. CASE /\ \E d \in Chosen :
                 To(p, IF c.at = "connect" THEN [at |-> "ensure", stage |-> "connect"]
                       ELSE [at |-> "grant_sent", stage |-> c.stage, device |-> d,
                             generation |-> devices[d].generation])
             /\ UNCHANGED boot
    BY <1>7, <1>a, <2>2 DEF SelectDevice, Selecting, To
  <2> QED BY <1>7, <2>1, <2>2 DEF SelectDevice
<1>8. ASSUME NEW p \in Pages, EnsureSession(p) PROVE WaitersAreServed'
  <2> DEFINE c == call[p]
  <2>1. CASE Usable
    <3>1. To(p, Resumed(c, session)) /\ UNCHANGED boot /\ c.at = "ensure"
      BY <1>8, <2>1 DEF EnsureSession
    <3>2. Resumed(c, session).at \in {"ensure", "check"}
      BY DEF Resumed
    <3> QED BY <1>a, <3>1, <3>2 DEF To
  <2>2. CASE ~Usable
    BY <1>8, <1>a, <2>2 DEF EnsureSession, To
  <2> QED BY <2>1, <2>2
<1>9. ASSUME NEW p \in Pages, GrantAnswer(p) PROVE WaitersAreServed'
  <2> DEFINE next == [call[p] EXCEPT !.at = "open_sent"]
  <2>1. call[p] \in Opening /\ call[p].at = "grant_sent"
    BY <1>9, <1>a, Shapes DEF GrantAnswer
  <2>2. next.at = "open_sent"
    BY <2>1 DEF Opening
  <2>3. CASE Reject(p)
    BY <1>a, <2>1, <2>3, RejectServes
  <2>4. CASE To(p, next) /\ UNCHANGED boot
    BY <1>a, <2>1, <2>2, <2>4 DEF To
  <2> QED BY <1>9, <2>3, <2>4 DEF GrantAnswer
<1>10. ASSUME NEW p \in Pages, OpenAnswer(p) PROVE WaitersAreServed'
  <2> DEFINE c == call[p]
             next(i) == [at |-> "open_got", stage |-> c.stage, held |->
                         [id |-> i, device |-> c.device, generation |-> c.generation]]
  <2>1. c.at = "open_sent"
    BY <1>10 DEF OpenAnswer
  <2>2. CASE Reject(p)
    BY <1>a, <2>1, <2>2, RejectServes
  <2>3. ASSUME NEW i, To(p, next(i)), UNCHANGED boot
        PROVE  WaitersAreServed'
    BY <1>a, <2>1, <2>3 DEF To
  <2> QED BY <1>10, <2>2, <2>3 DEF OpenAnswer
<1>11. ASSUME NEW p \in Pages, Opened(p) PROVE WaitersAreServed'
  <2> DEFINE s == call[p].held
  <2>1. boot = p /\ boot' = None
    BY <1>11 DEF Opened, Resolve, Released
  <2>2. \A q \in Pages : call'[q] = IF q \in Sharing(p) THEN Resumed(call[q], s) ELSE call[q]
    BY <1>11 DEF Opened, Resolve
  <2>3. \A q \in Pages : Resumed(call[q], s).at \in {"ensure", "check"}
    BY DEF Resumed
  <2>4. \A q \in Pages : q \in Sharing(p) <=> q = p \/ call[q].at = "await"
    BY <2>1 DEF Sharing
  <2>5. \A q \in Pages : ~RunsBootstrap(q)' /\ call'[q].at # "await"
    BY <2>1, <2>2, <2>3, <2>4
  <2> QED BY <2>1, <2>5
<1>12. ASSUME NEW p \in Pages, CheckSession(p) PROVE WaitersAreServed'
  <2> DEFINE next == [call[p] EXCEPT !.at = "sent"]
  <2>1. call[p] \in Signing /\ call[p].at = "check"
    BY <1>12, <1>a, Shapes DEF CheckSession
  <2>2. next.at = "sent"
    BY <2>1 DEF Signing
  <2>3. CASE Reject(p)
    BY <1>a, <2>1, <2>3, RejectServes
  <2>4. CASE To(p, next) /\ UNCHANGED boot
    BY <1>a, <2>1, <2>2, <2>4 DEF To
  <2> QED BY <1>12, <2>3, <2>4 DEF CheckSession
<1>13. ASSUME NEW p \in Pages, RequestAnswer(p) PROVE WaitersAreServed'
  <2>1. call[p].at = "sent"
    BY <1>13 DEF RequestAnswer
  <2>2. CASE Reject(p)
    BY <1>a, <2>1, <2>2, RejectServes
  <2>3. ASSUME NEW code, To(p, [at |-> "answered", code |-> code]), UNCHANGED boot
        PROVE  WaitersAreServed'
    BY <1>a, <2>1, <2>3 DEF To
  <2> QED BY <1>13, <2>2, <2>3 DEF RequestAnswer
<1>14. ASSUME NEW p \in Pages, Finish(p) PROVE WaitersAreServed'
  BY <1>14, <1>a DEF Finish, To, Idle
<1>15. ASSUME NEW p \in Pages, RequestFails(p) PROVE WaitersAreServed'
  BY <1>15, <1>a, RejectServes DEF RequestFails
<1>16. ASSUME NEW u \in Users, Login(u) PROVE WaitersAreServed'
  <2>1. CASE owner = u
    BY <1>16, <2>1 DEF Login
  <2>2. CASE owner # u
    BY <1>16, <2>2, FreshTyped DEF Login, Pages
  <2> QED BY <2>1, <2>2
<1>17. CASE LogoutRequest
  BY <1>17 DEF LogoutRequest
<1>18. CASE LogoutDone
  BY <1>18, FreshTyped DEF LogoutDone, Pages
<1>19. CASE Unauthorized
  BY <1>19 DEF Unauthorized
<1>20. ASSUME NEW d \in Devices, StartService(d) PROVE WaitersAreServed'
  BY <1>20 DEF StartService
<1>21. ASSUME NEW d \in Devices, StopService(d) PROVE WaitersAreServed'
  BY <1>21 DEF StopService
<1>22. ASSUME NEW d \in Devices, Presence(d) PROVE WaitersAreServed'
  BY <1>22 DEF Presence
<1>23. ASSUME NEW d \in Devices, DropSessions(d) PROVE WaitersAreServed'
  BY <1>23 DEF DropSessions
<1>24. ASSUME NEW i \in Ids, Lapse(i) PROVE WaitersAreServed'
  BY <1>24 DEF Lapse
<1>25. CASE UNCHANGED vars
  BY <1>25 DEF vars
<1> QED
  BY <1>1, <1>2, <1>3, <1>4, <1>5, <1>6, <1>7, <1>8, <1>9, <1>10, <1>11, <1>12,
     <1>13, <1>14, <1>15, <1>16, <1>17, <1>18, <1>19, <1>20, <1>21, <1>22, <1>23, <1>24, <1>25
  DEF Next, CallStep

-----------------------------------------------------------------------------
\* At the start nobody is signed in and no call is under way.
LEMMA InitHolds == Init => IInv
<1> SUFFICES ASSUME Init PROVE IInv
  OBVIOUS
<1>1. Idle \in Calls /\ Idle.at = "idle"
  BY DEF Idle, Calls, Resting
<1>2. \A p \in Pages : call[p] = Idle
  BY DEF Init
<1>3. call \in [Pages -> Calls]
  BY <1>1 DEF Init
<1>4. devices \in [{} -> Entry] /\ DOMAIN devices = {}
  BY DEF Init, NoDevices
<1>5. Typing
  BY <1>1, <1>2, <1>3, <1>4, BrowserAssumption DEF Init, Typing, TypeOK, Steps, Entry, Pages
<1>6. CookieIsOwners /\ SelectedIsListed /\ WorkIsOnSelected
  BY <1>1, <1>2 DEF Init, CookieIsOwners, SelectedIsListed, WorkIsOnSelected
<1>7. WaitersAreServed
  BY <1>1, <1>2, BrowserAssumption
  DEF Init, WaitersAreServed, RunsBootstrap, Bootstrapping, Waiting, At, Pages
<1> QED BY <1>5, <1>6, <1>7 DEF IInv

\* The invariant holds in every reachable state.
THEOREM InvariantHolds == Spec => []IInv
<1>1. IInv /\ [Next]_vars => IInv'
  BY TypingStep, OwnerStep, WaiterStep DEF IInv, OwnerInv
<1> QED
  BY InitHolds, <1>1, PTL DEF Spec

\* Every variable of the client has its type, whatever two pages, a sign-out,
\* the device and the platform do between the awaits of a call.
THEOREM TypesHold == Spec => []TypeOK
<1>1. IInv => TypeOK
  BY DEF IInv, Typing
<1> QED
  BY InvariantHolds, <1>1, PTL

\* The session in memory is of the selected device, which belongs to the user
\* whom shared.ts made the client for.
THEOREM SessionIsTheUsers == Spec => []SessionBelongsToUser
<1>1. IInv => SessionBelongsToUser
  BY BrowserAssumption
  DEF IInv, Typing, TypeOK, SelectedIsListed, WorkIsOnSelected, SessionBelongsToUser,
      Session, Mine
<1> QED
  BY InvariantHolds, <1>1, PTL

\* A call that waits for the shared bootstrap promise waits for a bootstrap that
\* some page runs: bootstrapPromise is set and cleared with it.
THEOREM NoWaiterIsLeft == Spec => []WaitersAreServed
<1>1. IInv => WaitersAreServed
  BY DEF IInv
<1> QED
  BY InvariantHolds, <1>1, PTL

=============================================================================
