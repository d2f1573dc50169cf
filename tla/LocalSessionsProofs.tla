------------------------ MODULE LocalSessionsProofs ------------------------
(***************************************************************************)
(* Proofs about LocalSessions, for any sets of grants, sessions and nonces *)
(* and any lifetimes that SessionAssumption allows.                        *)
(*                                                                         *)
(* A grant opens once because the row that remembers it is purged only     *)
(* after the grant has expired, while a handler that validated the grant   *)
(* still sees it unexpired when it consumes it (GrantIsFresh).  A proof is *)
(* accepted once because a session dies before the service forgets any of  *)
(* its nonces (UsedIsRemembered) and its identifier never comes back.      *)
(***************************************************************************)
EXTENDS LocalSessions, TLAPS

Times(lifetime) == 0..(MaxTime + lifetime)

Messages == [session : Sessions, nonce : Nonces, time : Int]

\* What the handler that runs remembers between its steps.
Creating == [at : {"create"}, ticked : BOOLEAN, grant : Grants,
             generation : 0..MaxGenerations, expires : Times(GrantTTL)]

Consuming == [at : {"consume"}, ticked : BOOLEAN, grant : Grants,
              expires : Times(GrantTTL), session : Sessions]

Binding == [at : {"bind"}, ticked : BOOLEAN, proof : Messages,
            generation : 0..MaxGenerations]

HandlerOK == handler \in {Idle} \cup Creating \cup Consuming \cup Binding

\* TypeOK with the shapes that it leaves open.
Typing ==
    /\ TypeOK
    /\ sessions \in [Sessions -> SessionRecords]
    /\ consumed \subseteq [grant : Grants, expires : Times(GrantTTL)]
    /\ sent \subseteq Messages
    /\ HandlerOK

\* The handler works with the expiry the platform signed, and the grant has not
\* expired by the one second that may pass while the handler runs.
GrantIsFresh ==
    handler.at \in {"create", "consume"} =>
        /\ grants[handler.grant].generation # 0
        /\ handler.expires = grants[handler.grant].expires
        /\ IF handler.ticked THEN handler.expires >= now ELSE handler.expires > now

\* The table remembers issued grants with the expiry they were signed with.
RowsAreGrants ==
    \A c \in consumed : /\ grants[c.grant].generation # 0
                        /\ c.expires = grants[c.grant].expires

\* A grant that was opened is in the table until it has expired.
OpenedIsRemembered ==
    \A g \in Grants :
        opened[g] > 0 =>
            /\ grants[g].generation # 0
            /\ grants[g].expires < now \/ \E c \in consumed : c.grant = g

\* No session outlives the nonce of a proof that it accepts now.
SessionsAreShort ==
    \A s \in Sessions : sessions[s].expires <= now + SessionLifetime

\* A proof is used from the moment its nonce is remembered.
BeingBound(s, n) ==
    /\ handler.at = "bind"
    /\ handler.proof.session = s /\ handler.proof.nonce = n

Used(s, n) == accepted[<<s, n>>] > 0 \/ BeingBound(s, n)

\* The nonce of a used proof is remembered for as long as its session lives,
\* and a session that is gone was signed for and so is never created again.
UsedIsRemembered ==
    \A s \in Sessions, n \in Nonces :
        Used(s, n) =>
            /\ \E m \in sent : m.session = s
            /\ \/ sessions[s] = NoSession
               \/ \E k \in sessions[s].nonces :
                      k.nonce = n /\ k.expires >= sessions[s].expires

\* A proof that is being bound has not been accepted before.
BoundIsNew ==
    \A s \in Sessions, n \in Nonces : BeingBound(s, n) => accepted[<<s, n>>] = 0

GrantInv ==
    /\ GrantIsFresh
    /\ RowsAreGrants
    /\ OpenedIsRemembered
    /\ GrantOpensOnce

ProofInv ==
    /\ SessionsAreShort
    /\ UsedIsRemembered
    /\ BoundIsNew
    /\ NoReplay

IInv == Typing /\ GrantInv /\ ProofInv

-----------------------------------------------------------------------------
\* The empty session is a session record, and so are those of a cleared table.
LEMMA NoSessionType ==
    NoSession \in SessionRecords /\ Cleared \in [Sessions -> SessionRecords]
<1>1. NoSession \in SessionRecords
  BY SessionAssumption DEF NoSession, SessionRecords
<1> QED BY <1>1 DEF Cleared

\* Every variable has its type, and a handler remembers what its steps need.
LEMMA TypingStep == Typing /\ [Next]_vars => Typing'
<1> SUFFICES ASSUME Typing, [Next]_vars PROVE Typing'
  OBVIOUS
<1> USE SessionAssumption, NoSessionType
<1> USE DEF Typing, TypeOK, HandlerOK, Creating, Consuming, Binding, Messages,
            Times, Idle, Proofs, platform, runtime, history
<1>1. CASE Tick
  <2>1. CASE handler.at = "idle"
    BY <1>1, <2>1 DEF Tick
  <2>2. CASE handler.at # "idle"
    <3>1. handler' = [handler EXCEPT !.ticked = TRUE]
      BY <1>1, <2>2 DEF Tick
    <3>2. handler' \in Creating \cup Consuming \cup Binding /\ handler'.at = handler.at
      <4>1. CASE handler \in Creating
        BY <3>1, <4>1
      <4>2. CASE handler \in Consuming
        BY <3>1, <4>2
      <4>3. CASE handler \in Binding
        BY <3>1, <4>3
      <4> QED BY <2>2, <4>1, <4>2, <4>3
    <3> QED BY <1>1, <3>2 DEF Tick
  <2> QED BY <2>1, <2>2
<1>2. CASE RevokeDevice
  BY <1>2 DEF RevokeDevice
<1>3. CASE ControlTick
  <2>1. CASE revokedAt = -1
    BY <1>3, <2>1 DEF ControlTick
  <2>2. CASE revokedAt # -1
    <3>1. lockedOut' \in BOOLEAN
      BY <1>3, <2>2, Zenon DEF ControlTick
    <3>2. sessions' \in [Sessions -> SessionRecords]
      BY <1>3, <2>2 DEF ControlTick
    <3> QED BY <1>3, <2>2, <3>1, <3>2 DEF ControlTick
  <2> QED BY <2>1, <2>2
<1>4. CASE UpdateRequired
  BY <1>4 DEF UpdateRequired
<1>5. CASE RecreateGeneration
  BY <1>5 DEF RecreateGeneration
<1>6. CASE Restart
  <2>1. lockedOut' \in BOOLEAN
    BY <1>6, Zenon DEF Restart
  <2>2. sessions' \in [Sessions -> SessionRecords]
    BY <1>6 DEF Restart
  <2> QED BY <1>6, <2>1, <2>2 DEF Restart
<1>7. CASE ConsumeGrant
  <2> DEFINE g == handler.grant
  <2>1. handler \in Consuming
    BY <1>7 DEF ConsumeGrant
  <2>2. consumed' \subseteq [grant : Grants, expires : Times(GrantTTL)]
    BY <1>7, <2>1 DEF ConsumeGrant, Fresh
  <2>3. opened' \in [Grants -> Nat]
    BY <1>7, <2>1 DEF ConsumeGrant
  <2>4. sessions' \in [Sessions -> SessionRecords]
    <3>1. [sessions[handler.session] EXCEPT !.given = TRUE] \in SessionRecords
      BY <2>1 DEF SessionRecords
    <3>2. \/ sessions' = sessions
          \/ sessions' = [sessions EXCEPT ![handler.session] = [@ EXCEPT !.given = TRUE]]
      BY <1>7 DEF ConsumeGrant
    <3> QED BY <2>1, <3>1, <3>2
  <2> QED BY <1>7, <2>2, <2>3, <2>4 DEF ConsumeGrant
<1>8. CASE Bind
  BY <1>8 DEF Bind
<1>9. ASSUME NEW g \in Grants, IssueGrant(g) PROVE Typing'
  BY <1>9 DEF IssueGrant
<1>10. ASSUME NEW g \in Grants, ValidateGrant(g) PROVE Typing'
  BY <1>10 DEF ValidateGrant
<1>11. ASSUME NEW s \in Sessions, CreateSession(s) PROVE Typing'
  <2>1. handler \in Creating
    BY <1>11 DEF CreateSession
  <2>2. [NoSession EXCEPT !.generation = handler.generation,
                          !.expires = now + SessionLifetime] \in SessionRecords
    <3>1. now + SessionLifetime \in 0..(MaxTime + SessionLifetime)
      OBVIOUS
    <3> QED BY <2>1, <3>1 DEF NoSession, SessionRecords
  <2>3. handler' \in Consuming
    BY <1>11, <2>1 DEF CreateSession
  <2> QED BY <1>11, <2>2, <2>3 DEF CreateSession
<1>12. ASSUME NEW s \in Sessions, NEW n \in Nonces,
              NEW ts \in (now - Skew)..(now + Skew), Sign(s, n, ts)
       PROVE  Typing'
  BY <1>12 DEF Sign
<1>13. ASSUME NEW m \in sent, ValidateProof(m) PROVE Typing'
  <2>1. m \in Messages /\ sessions[m.session] \in SessionRecords
    OBVIOUS
  <2>2. CASE Lives(m.session)
    <3> DEFINE kept == Kept(m.session) \cup
                       {[nonce |-> m.nonce, expires |-> now + NonceLifetime]}
    <3>1. kept \subseteq [nonce : Nonces, expires : 0..(MaxTime + NonceLifetime)]
      BY <2>1 DEF Kept, SessionRecords
    <3>2. [sessions[m.session] EXCEPT !.nonces = kept] \in SessionRecords
      BY <2>1, <3>1 DEF SessionRecords
    <3>3. sessions' = [sessions EXCEPT ![m.session] = [@ EXCEPT !.nonces = kept]]
      BY <1>13, <2>2 DEF ValidateProof
    <3>4. sessions' \in [Sessions -> SessionRecords]
      BY <2>1, <3>2, <3>3
    <3>5. sessions[m.session].generation \in 0..MaxGenerations
      BY <2>1 DEF SessionRecords
    <3>6. handler' = [at |-> "bind", ticked |-> FALSE, proof |-> m,
                      generation |-> sessions[m.session].generation]
      BY <1>13, <2>2 DEF ValidateProof
    <3>7. handler' \in Binding /\ handler'.at = "bind"
      BY <2>1, <3>5, <3>6
    <3> QED BY <1>13, <3>4, <3>7 DEF ValidateProof
  <2>3. CASE ~Lives(m.session)
    BY <1>13, <2>1, <2>3 DEF ValidateProof
  <2> QED BY <2>2, <2>3
<1>14. CASE UNCHANGED vars
  BY <1>14 DEF vars
<1> QED
  BY <1>1, <1>2, <1>3, <1>4, <1>5, <1>6, <1>7, <1>8, <1>9, <1>10, <1>11, <1>12,
     <1>13, <1>14
  DEF Next

\* A grant that was opened stays remembered until it has expired, so that no
\* handler can consume it a second time.
LEMMA GrantStep == Typing /\ GrantInv /\ [Next]_vars => GrantInv'
<1> SUFFICES ASSUME Typing, GrantInv, [Next]_vars PROVE GrantInv'
  OBVIOUS
<1> USE SessionAssumption
<1> USE DEF Typing, TypeOK, HandlerOK, Creating, Consuming, Binding, Times, Idle,
            platform, runtime, history
<1> USE DEF GrantInv, GrantIsFresh, RowsAreGrants, OpenedIsRemembered, GrantOpensOnce
<1>1. CASE Tick
  BY <1>1 DEF Tick
<1>2. CASE RevokeDevice
  BY <1>2 DEF RevokeDevice
<1>3. CASE ControlTick
  BY <1>3 DEF ControlTick
<1>4. CASE UpdateRequired
  BY <1>4 DEF UpdateRequired
<1>5. CASE RecreateGeneration
  BY <1>5 DEF RecreateGeneration
<1>6. CASE Restart
  BY <1>6 DEF Restart
<1>7. CASE ConsumeGrant
  <2> DEFINE g == handler.grant
             won == \A c \in Fresh(consumed) : c.grant # g
             row == [grant |-> g, expires |-> handler.expires]
  <2>1. /\ g \in Grants /\ grants[g].generation # 0
        /\ handler.expires = grants[g].expires /\ grants[g].expires >= now
    BY <1>7 DEF ConsumeGrant
  <2>2. /\ consumed' = Fresh(consumed) \cup (IF won THEN {row} ELSE {})
        /\ opened' = [opened EXCEPT ![g] = IF won THEN @ + 1 ELSE @]
        /\ UNCHANGED <<now, grants>>
        /\ handler' = Idle
    BY <1>7 DEF ConsumeGrant
  <2>3. RowsAreGrants' /\ GrantIsFresh'
    BY <2>1, <2>2 DEF Fresh
  <2>4. ASSUME NEW h \in Grants, opened[h] > 0
        PROVE grants[h].expires < now \/ \E c \in Fresh(consumed) : c.grant = h
    BY <2>4 DEF Fresh
  <2>5. won => opened[g] = 0
    BY <2>1, <2>4
  <2>6. GrantOpensOnce'
    BY <2>1, <2>2, <2>5
  <2>7. OpenedIsRemembered'
    <3> SUFFICES ASSUME NEW h \in Grants, opened'[h] > 0
                 PROVE  /\ grants[h].generation # 0
                        /\ grants[h].expires < now \/ \E c \in consumed' : c.grant = h
      BY <2>2
    <3>1. CASE h = g
      <4>1. CASE won
        <5>1. row \in consumed' /\ row.grant = g
          BY <2>2, <4>1
        <5> QED BY <2>1, <3>1, <5>1
      <4>2. CASE ~won
        BY <2>1, <2>2, <3>1, <4>2
      <4> QED BY <4>1, <4>2
    <3>2. CASE h # g
      <4>1. opened[h] > 0
        BY <2>1, <2>2, <3>2
      <4> QED BY <2>2, <2>4, <4>1
    <3> QED BY <3>1, <3>2
  <2> QED BY <2>3, <2>6, <2>7
<1>8. CASE Bind
  BY <1>8 DEF Bind
<1>9. ASSUME NEW g \in Grants, IssueGrant(g) PROVE GrantInv'
  BY <1>9 DEF IssueGrant
<1>10. ASSUME NEW g \in Grants, ValidateGrant(g) PROVE GrantInv'
  BY <1>10 DEF ValidateGrant
<1>11. ASSUME NEW s \in Sessions, CreateSession(s) PROVE GrantInv'
  BY <1>11 DEF CreateSession
<1>12. ASSUME NEW s \in Sessions, NEW n \in Nonces,
              NEW ts \in (now - Skew)..(now + Skew), Sign(s, n, ts)
       PROVE  GrantInv'
  BY <1>12 DEF Sign
<1>13. ASSUME NEW m \in sent, ValidateProof(m) PROVE GrantInv'
  BY <1>13 DEF ValidateProof, Kept, Lives
<1>14. CASE UNCHANGED vars
  BY <1>14 DEF vars
<1> QED
  BY <1>1, <1>2, <1>3, <1>4, <1>5, <1>6, <1>7, <1>8, <1>9, <1>10, <1>11, <1>12,
     <1>13, <1>14
  DEF Next

\* The table of sessions forgets, and the proofs are still used only once.
LEMMA ForgettingKeeps ==
    /\ Typing /\ ProofInv
    /\ \A s \in Sessions : sessions'[s] = sessions[s] \/ sessions'[s] = NoSession
    /\ UNCHANGED <<now, sent, accepted>>
    /\ handler' = handler \/ handler' = Idle
    => ProofInv'
<1> SUFFICES ASSUME Typing, ProofInv,
                    \A s \in Sessions :
                        sessions'[s] = sessions[s] \/ sessions'[s] = NoSession,
                    UNCHANGED <<now, sent, accepted>>,
                    handler' = handler \/ handler' = Idle
             PROVE  ProofInv'
  OBVIOUS
<1>1. NoSession.expires = 0 /\ now + SessionLifetime >= 0
  BY SessionAssumption DEF NoSession, Typing, TypeOK
<1>2. \A s \in Sessions, n \in Nonces :
          /\ BeingBound(s, n)' => BeingBound(s, n)
          /\ Used(s, n)' => Used(s, n)
  BY DEF BeingBound, Used, Idle
<1>3. SessionsAreShort'
  BY <1>1 DEF ProofInv, SessionsAreShort
<1>4. UsedIsRemembered'
  BY <1>2 DEF ProofInv, UsedIsRemembered
<1>5. BoundIsNew' /\ NoReplay'
  BY <1>2 DEF ProofInv, BoundIsNew, NoReplay
<1> QED BY <1>3, <1>4, <1>5 DEF ProofInv

\* The nonce of a used proof is remembered while its session lives.
LEMMA ProofStep == Typing /\ ProofInv /\ [Next]_vars => ProofInv'
<1> SUFFICES ASSUME Typing, ProofInv, [Next]_vars PROVE ProofInv'
  OBVIOUS
<1> USE SessionAssumption
<1> USE DEF platform, runtime, history
<1>1. CASE Tick
  BY <1>1 DEF Tick, Typing, TypeOK, HandlerOK, Creating, Consuming, Binding, Messages,
            Times, SessionRecords, Idle, Proofs, ProofInv, SessionsAreShort,
            UsedIsRemembered, Used, BeingBound, BoundIsNew, NoReplay
<1>2. CASE RevokeDevice
  BY <1>2, ForgettingKeeps DEF RevokeDevice
<1>3. CASE ControlTick
  BY <1>3, ForgettingKeeps DEF ControlTick, Cleared
<1>4. CASE UpdateRequired
  BY <1>4, ForgettingKeeps DEF UpdateRequired, Cleared
<1>5. CASE RecreateGeneration
  BY <1>5, ForgettingKeeps DEF RecreateGeneration, Cleared
<1>6. CASE Restart
  BY <1>6, ForgettingKeeps DEF Restart, Cleared
<1> USE DEF Typing, TypeOK, HandlerOK, Creating, Consuming, Binding, Messages,
            Times, SessionRecords, Idle, Proofs, ProofInv, SessionsAreShort,
            UsedIsRemembered, Used, BeingBound, BoundIsNew, NoReplay
<1>7. CASE ConsumeGrant
  <2>1. handler \in Consuming
    BY <1>7 DEF ConsumeGrant
  <2>2. \A s \in Sessions : /\ sessions'[s].nonces = sessions[s].nonces
                            /\ sessions'[s].expires = sessions[s].expires
                            /\ sessions[s] = NoSession => sessions'[s] = NoSession
    <3>1. \/ sessions' = sessions
          \/ /\ sessions[handler.session] # NoSession
             /\ sessions' = [sessions EXCEPT ![handler.session] = [@ EXCEPT !.given = TRUE]]
      BY <1>7 DEF ConsumeGrant
    <3> QED BY <2>1, <3>1
  <2>3. handler' = Idle /\ UNCHANGED <<now, sent, accepted>>
    BY <1>7 DEF ConsumeGrant
  <2>4. \A s \in Sessions, n \in Nonces : Used(s, n)' => Used(s, n)
    BY <2>3
  <2> QED BY <1>7, <2>2, <2>3, <2>4
<1>8. CASE Bind
  BY <1>8 DEF Bind
<1>9. ASSUME NEW g \in Grants, IssueGrant(g) PROVE ProofInv'
  BY <1>9 DEF IssueGrant
<1>10. ASSUME NEW g \in Grants, ValidateGrant(g) PROVE ProofInv'
  BY <1>10 DEF ValidateGrant
<1>11. ASSUME NEW s \in Sessions, CreateSession(s) PROVE ProofInv'
  <2>1. \A t \in Sessions : t # s => sessions'[t] = sessions[t]
    BY <1>11 DEF CreateSession
  <2>2. sessions'[s].expires = now + SessionLifetime
    BY <1>11 DEF CreateSession, NoSession
  <2>3. \A m \in sent : m.session # s
    BY <1>11 DEF CreateSession
  <2>4. handler'.at = "consume" /\ handler.at = "create"
        /\ UNCHANGED <<now, sent, accepted>>
    BY <1>11 DEF CreateSession
  <2>5. \A t \in Sessions, n \in Nonces : ~BeingBound(t, n)' /\ (Used(t, n)' => Used(t, n))
    BY <2>4
  <2>6. SessionsAreShort' /\ BoundIsNew' /\ NoReplay'
    BY <2>1, <2>2, <2>4, <2>5
  <2>7. UsedIsRemembered'
    BY <2>1, <2>3, <2>4, <2>5
  <2> QED BY <2>6, <2>7
<1>12. ASSUME NEW s \in Sessions, NEW n \in Nonces,
              NEW ts \in (now - Skew)..(now + Skew), Sign(s, n, ts)
       PROVE  ProofInv'
  BY <1>12 DEF Sign
<1>13. ASSUME NEW m \in sent, ValidateProof(m) PROVE ProofInv'
  <2> DEFINE s == m.session
  <2>1. s \in Sessions /\ m.nonce \in Nonces /\ sessions[s] \in SessionRecords
    OBVIOUS
  <2>2. handler.at = "idle" /\ UNCHANGED <<now, sent, accepted>>
    BY <1>13 DEF ValidateProof
  <2>3. CASE Lives(s)
    <3> DEFINE new == [nonce |-> m.nonce, expires |-> now + NonceLifetime]
    <3>1. /\ \A k \in Kept(s) : k.nonce # m.nonce
          /\ sessions' = [sessions EXCEPT ![s].nonces = Kept(s) \cup {new}]
          /\ handler'.at = "bind" /\ handler'.proof = m
      BY <1>13, <2>3 DEF ValidateProof
    <3>2. /\ sessions'[s].nonces = Kept(s) \cup {new}
          /\ sessions'[s].expires = sessions[s].expires
          /\ \A t \in Sessions : t # s => sessions'[t] = sessions[t]
      BY <2>1, <3>1
    <3>3. ASSUME NEW k \in sessions[s].nonces, k.expires >= sessions[s].expires
          PROVE  k \in Kept(s)
      BY <2>1, <2>3, <3>3 DEF Lives, Kept
    <3>4. ~Used(s, m.nonce)
      BY <2>1, <2>3, <3>1, <3>3 DEF Lives
    <3>5. new.expires >= sessions[s].expires
      BY <2>1
    <3>6. SessionsAreShort'
      BY <2>1, <2>2, <3>2
    <3>7. BoundIsNew' /\ NoReplay'
      <4>1. accepted[<<s, m.nonce>>] = 0
        BY <2>1, <3>4
      <4> QED BY <2>2, <3>1, <4>1
    <3>8. UsedIsRemembered'
      <4> SUFFICES ASSUME NEW t \in Sessions, NEW n \in Nonces, Used(t, n)'
                   PROVE  /\ \E q \in sent : q.session = t
                          /\ \/ sessions'[t] = NoSession
                             \/ \E k \in sessions'[t].nonces :
                                    k.nonce = n /\ k.expires >= sessions'[t].expires
        BY <2>2
      <4>1. CASE t = s /\ n = m.nonce
        BY <2>1, <3>2, <3>5, <4>1
      <4>2. CASE ~(t = s /\ n = m.nonce)
        <5>1. Used(t, n)
          BY <2>2, <3>1, <4>2
        <5>2. CASE t = s
          BY <2>1, <2>3, <3>2, <3>3, <5>1, <5>2 DEF Lives
        <5>3. CASE t # s
          BY <3>2, <5>1, <5>3
        <5> QED BY <5>2, <5>3
      <4> QED BY <4>1, <4>2
    <3> QED BY <3>6, <3>7, <3>8
  <2>4. CASE ~Lives(s)
    <3>1. \A t \in Sessions : sessions'[t] = sessions[t] \/ sessions'[t] = NoSession
      BY <1>13, <2>4 DEF ValidateProof
    <3>2. UNCHANGED handler
      BY <1>13, <2>4 DEF ValidateProof
    <3> QED BY <2>2, <3>1, <3>2, ForgettingKeeps
  <2> QED BY <2>3, <2>4
<1>14. CASE UNCHANGED vars
  BY <1>14 DEF vars
<1> QED
  BY <1>1, <1>2, <1>3, <1>4, <1>5, <1>6, <1>7, <1>8, <1>9, <1>10, <1>11, <1>12,
     <1>13, <1>14
  DEF Next

\* At the start there is no session and no grant.
LEMMA InitHolds == Init => IInv
<1> SUFFICES ASSUME Init PROVE IInv
  OBVIOUS
<1>1. Typing
  <2>1. sessions \in [Sessions -> SessionRecords]
    BY NoSessionType DEF Init
  <2>2. lockedOut \in BOOLEAN
    BY Zenon DEF Init
  <2> QED
    BY <2>1, <2>2, SessionAssumption
    DEF Init, Typing, TypeOK, HandlerOK, Idle, Times, Proofs
<1>2. GrantInv
  BY DEF Init, Idle, GrantInv, GrantIsFresh, RowsAreGrants, OpenedIsRemembered,
         GrantOpensOnce
<1>3. ProofInv
  BY SessionAssumption
  DEF Init, Idle, Proofs, NoSession, ProofInv, SessionsAreShort, UsedIsRemembered, Used,
      BeingBound, BoundIsNew, NoReplay
<1> QED BY <1>1, <1>2, <1>3 DEF IInv

\* The invariant holds in every reachable state.
THEOREM InvariantHolds == Spec => []IInv
<1>1. IInv /\ [Next]_vars => IInv'
  BY TypingStep, GrantStep, ProofStep DEF IInv
<1> QED
  BY InitHolds, <1>1, PTL DEF Spec

\* Every variable has its type, whatever the handler, the control thread, the
\* launcher and the clock do.
THEOREM TypesHold == Spec => []TypeOK
<1>1. IInv => TypeOK
  BY DEF IInv, Typing
<1> QED
  BY InvariantHolds, <1>1, PTL

\* LocalSessionManager.validate accepts a proof at most once: a replayed request
\* is refused for as long as its session lives and ever after.
THEOREM ProofsAreAcceptedOnce == Spec => []NoReplay
<1>1. IInv => NoReplay
  BY DEF IInv, ProofInv
<1> QED
  BY InvariantHolds, <1>1, PTL

\* consume_local_grant lets a grant open one session, although the row that
\* remembers the grant is purged and the process restarts.
THEOREM GrantsOpenOnce == Spec => []GrantOpensOnce
<1>1. IInv => GrantOpensOnce
  BY DEF IInv, GrantInv
<1> QED
  BY InvariantHolds, <1>1, PTL

=============================================================================
