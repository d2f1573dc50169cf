----------------------------- MODULE LocalSessions -----------------------------
(***************************************************************************)
(* Access of a browser to the local compute service: the platform signs a  *)
(* grant for the endpoint generation the device last announced, the local  *)
(* service turns it into a session exactly once, and every request carries *)
(* a proof over a timestamp and a nonce.  The control thread, the launcher *)
(* and the clock move between the steps of a handler.                      *)
(***************************************************************************)
EXTENDS Integers, FiniteSets

CONSTANTS
    Grants, Sessions, Nonces,
    GrantTTL,          \* grant_ttl_seconds
    SessionLifetime,   \* session_lifetime_seconds
    NonceLifetime,     \* nonce_lifetime_seconds, also the width of the window
    Skew,              \* how far the browser's clock may be off
    MaxTime, MaxGenerations

\* The settings have 300 and 600 seconds: no session outlives its nonces.
ASSUME SessionAssumption ==
    /\ GrantTTL \in Nat \ {0} /\ SessionLifetime \in Nat \ {0}
    /\ NonceLifetime \in Nat /\ SessionLifetime <= NonceLifetime
    /\ Skew \in Nat /\ MaxTime \in Nat /\ MaxGenerations \in Nat \ {0}

VARIABLES
    now,
    revokedAt,   \* time of the revocation on the platform, -1 before
    announced,   \* the endpoint generation in the platform's presence row, 0 before
    grants,      \* grant -> generation and expiry; generation 0 before it is issued
    state, generation,    \* of the runtime
    lockedOut,   \* LocalSessionManager._revoked
    sessions,    \* the memory of the service
    consumed,    \* consumed_local_grants, in SQLite
    handler,     \* the handler that runs in the event loop
    sent,        \* requests that browsers have signed: they can arrive again
    opened,      \* how often a grant's session was returned to the browser
    accepted     \* history: how often a proof was accepted

platform == <<revokedAt, announced, grants>>
runtime == <<state, generation, lockedOut>>
history == <<opened, accepted>>
vars == <<now, platform, runtime, sessions, consumed, handler, sent, history>>

NoSession == [generation |-> 0, expires |-> 0, given |-> FALSE, nonces |-> {}]
Idle == [at |-> "idle"]
Proofs == Sessions \X Nonces

Init ==
    /\ now = 0 /\ revokedAt = -1 /\ announced = 0
    /\ grants = [g \in Grants |-> [generation |-> 0, expires |-> 0]]
    /\ state = "READY" /\ generation = 1 /\ lockedOut = FALSE
    /\ sessions = [s \in Sessions |-> NoSession]
    /\ consumed = {} /\ handler = Idle /\ sent = {}
    /\ opened = [g \in Grants |-> 0] /\ accepted = [p \in Proofs |-> 0]

\* Handlers are short: the clock moves at most once while one runs.
Tick ==
    /\ now < MaxTime /\ now' = now + 1
    /\ handler.at # "idle" => ~handler.ticked
    /\ handler' = IF handler.at = "idle" THEN handler
                  ELSE [handler EXCEPT !.ticked = TRUE]
    /\ UNCHANGED <<platform, runtime, sessions, consumed, sent, history>>

(***************************************************************************)
(* The platform                                                            *)
(***************************************************************************)
IssueGrant(g) ==
    /\ revokedAt = -1 /\ announced # 0 /\ grants[g].generation = 0
    /\ grants' = [grants EXCEPT ![g] =
           [generation |-> announced, expires |-> now + GrantTTL]]
    /\ UNCHANGED <<now, revokedAt, announced, runtime, sessions, consumed,
                   handler, sent, history>>

RevokeDevice ==
    /\ revokedAt = -1 /\ revokedAt' = now
    /\ UNCHANGED <<now, announced, grants, runtime, sessions, consumed,
                   handler, sent, history>>

(***************************************************************************)
(* The control thread, the launcher, and the process                       *)
(***************************************************************************)
Cleared == [s \in Sessions |-> NoSession]

\* A tick of the control channel: presence is accepted, or the device learns
\* that it is revoked and locks every session out.
ControlTick ==
    /\ state = "READY"
    /\ IF revokedAt = -1
       THEN announced' = generation /\ UNCHANGED <<state, lockedOut, sessions>>
       ELSE /\ state' = "REVOKED" /\ lockedOut' = TRUE /\ sessions' = Cleared
            /\ UNCHANGED announced
    /\ UNCHANGED <<now, revokedAt, grants, generation, consumed, handler, sent,
                   history>>

\* set_update_required, by the control thread or by a request that names
\* another protocol version: it hides a revocation, but not lockedOut.
UpdateRequired ==
    /\ state \in {"READY", "REVOKED"} /\ state' = "UPDATE_REQUIRED"
    /\ sessions' = Cleared
    /\ UNCHANGED <<now, platform, generation, lockedOut, consumed, handler,
                   sent, history>>

\* Restart from the tray: server.stop() gives up waiting for a handler, the
\* sessions go, and so do the generation's grants.
RecreateGeneration ==
    /\ generation < MaxGenerations /\ generation' = generation + 1
    /\ sessions' = Cleared
    /\ UNCHANGED <<now, platform, state, lockedOut, consumed, handler, sent,
                   history>>

\* A new process is READY and knows nothing of a revocation.
Restart ==
    /\ generation < MaxGenerations /\ generation' = generation + 1
    /\ sessions' = Cleared /\ state' = "READY" /\ lockedOut' = FALSE
    /\ handler' = Idle
    /\ UNCHANGED <<now, platform, consumed, sent, history>>

(***************************************************************************)
(* POST /v1/sessions                                                       *)
(***************************************************************************)
\* PlatformGrantVerifier.validate
ValidateGrant(g) ==
    /\ handler.at = "idle" /\ state = "READY"
    /\ grants[g].generation = generation /\ grants[g].expires > now
    /\ handler' = [at |-> "create", ticked |-> FALSE, grant |-> g,
                   generation |-> generation, expires |-> grants[g].expires]
    /\ UNCHANGED <<now, platform, runtime, sessions, consumed, sent, history>>

CreateSession(s) ==
    /\ handler.at = "create" /\ sessions[s] = NoSession
    /\ \A m \in sent : m.session # s
    /\ sessions' = [sessions EXCEPT ![s] =
           [NoSession EXCEPT !.generation = handler.generation,
                             !.expires = now + SessionLifetime]]
    /\ handler' = [at |-> "consume", ticked |-> handler.ticked,
                   grant |-> handler.grant, expires |-> handler.expires,
                   session |-> s]
    /\ UNCHANGED <<now, platform, runtime, consumed, sent, history>>

\* Mutant of Fresh: an entry goes in the second in which its grant expires.
FreshOffByOne(rows) == {c \in rows : c.expires > now}

\* DELETE FROM consumed_local_grants WHERE expires_at < now
Fresh(rows) == {c \in rows : c.expires >= now}

\* consume_local_grant; the session that failed to consume stays in memory,
\* and only the winner's is returned.
ConsumeGrant ==
    /\ handler.at = "consume"
    /\ LET g == handler.grant
           won == \A c \in Fresh(consumed) : c.grant # g
       IN /\ consumed' = Fresh(consumed) \cup
                         (IF won THEN {[grant |-> g, expires |-> handler.expires]} ELSE {})
          /\ opened' = [opened EXCEPT ![g] = IF won THEN @ + 1 ELSE @]
          /\ sessions' = IF won /\ sessions[handler.session] # NoSession
                         THEN [sessions EXCEPT ![handler.session].given = TRUE]
                         ELSE sessions
    /\ handler' = Idle
    /\ UNCHANGED <<now, platform, runtime, sent, accepted>>

(***************************************************************************)
(* A signed request                                                        *)
(***************************************************************************)
\* The browser signs with its own clock and a nonce it uses once.
Sign(s, n, ts) ==
    /\ sessions[s].given
    /\ \A m \in sent : <<m.session, m.nonce>> # <<s, n>>
    /\ sent' = sent \cup {[session |-> s, nonce |-> n, time |-> ts]}
    /\ UNCHANGED <<now, platform, runtime, sessions, consumed, handler, history>>

\* Mutant of Lives: a session is good in the second in which it expires.
LivesOffByOne(s) == sessions[s] # NoSession /\ now <= sessions[s].expires

Lives(s) == sessions[s] # NoSession /\ now < sessions[s].expires

Window(ts) == ts - now <= NonceLifetime /\ now - ts <= NonceLifetime
\* _purge_nonces
Kept(s) == {n \in sessions[s].nonces : n.expires > now}

\* LocalSessionManager.validate: an expired session is dropped, a repeated
\* nonce is refused, an accepted one is remembered.
ValidateProof(m) ==
    /\ handler.at = "idle" /\ ~lockedOut /\ Window(m.time)
    /\ IF Lives(m.session)
       THEN /\ \A n \in Kept(m.session) : n.nonce # m.nonce
            /\ sessions' = [sessions EXCEPT ![m.session].nonces =
                   Kept(m.session) \cup
                   {[nonce |-> m.nonce, expires |-> now + NonceLifetime]}]
            /\ handler' = [at |-> "bind", ticked |-> FALSE, proof |-> m,
                           generation |-> sessions[m.session].generation]
       ELSE sessions' = [sessions EXCEPT ![m.session] = NoSession] /\ UNCHANGED handler
    /\ UNCHANGED <<now, platform, runtime, consumed, sent, history>>

\* validate_session_binding, which reads the state of the runtime anew.
Bind ==
    /\ handler.at = "bind" /\ handler' = Idle
    /\ accepted' = IF state = "READY" /\ handler.generation = generation
                   THEN [accepted EXCEPT ![<<handler.proof.session, handler.proof.nonce>>] = @ + 1]
                   ELSE accepted
    /\ UNCHANGED <<now, platform, runtime, sessions, consumed, sent, opened>>

Next ==
    \/ Tick \/ RevokeDevice \/ ControlTick \/ UpdateRequired
    \/ RecreateGeneration \/ Restart \/ ConsumeGrant \/ Bind
    \/ \E g \in Grants : IssueGrant(g) \/ ValidateGrant(g)
    \/ \E s \in Sessions : CreateSession(s)
    \/ \E s \in Sessions, n \in Nonces, ts \in (now - Skew)..(now + Skew) : Sign(s, n, ts)
    \/ \E m \in sent : ValidateProof(m)

Spec == Init /\ [][Next]_vars

-----------------------------------------------------------------------------
SessionRecords ==
    [generation : 0..MaxGenerations, expires : 0..(MaxTime + SessionLifetime),
     given : BOOLEAN,
     nonces : SUBSET [nonce : Nonces, expires : 0..(MaxTime + NonceLifetime)]]

\* Every variable has its type.
TypeOK ==
    /\ now \in 0..MaxTime /\ revokedAt \in -1..MaxTime
    /\ announced \in 0..MaxGenerations /\ generation \in 1..MaxGenerations
    /\ grants \in [Grants -> [generation : 0..MaxGenerations,
                              expires : 0..(MaxTime + GrantTTL)]]
    /\ state \in {"READY", "REVOKED", "UPDATE_REQUIRED"} /\ lockedOut \in BOOLEAN
    /\ \A s \in Sessions : sessions[s] \in SessionRecords
    /\ handler.at \in {"idle", "create", "consume", "bind"}
    /\ accepted \in [Proofs -> Nat] /\ opened \in [Grants -> Nat]

\* The same proof is never accepted twice, although the service forgets a
\* nonce while its timestamp may still be inside the window.
NoReplay == \A p \in Proofs : accepted[p] <= 1

\* A grant opens one session for a browser, across expiry, restarts and the
\* purge of the table that remembers it.
GrantOpensOnce == \A g \in Grants : opened[g] <= 1

=============================================================================
