---------------------------- MODULE AnswerRequests ----------------------------
(****************************************************************************)
(* Admission of generations on the platform (app/security/rate_limits.py)   *)
(* and the three requests that generate: POST /answer, POST /answer/stream  *)
(* (app/api/routes/answer.py) and the stream of a chat turn                 *)
(* (app/api/routes/chat.py).  A user has a token bucket; a generation needs *)
(* a token and a lease, of which a user and the platform have a limited     *)
(* number.  Bucket and leases are in Redis, each script runs at once; a     *)
(* lease that nobody gives back ends with its time.                         *)
(*                                                                          *)
(* Time is relative: a lease has ticks left, a bucket has ticks since it was*)
(* written.  A bucket holds parts of tokens: a token is Cost parts, a tick  *)
(* adds one.  A user who is refused, or whose call does not reach Redis,    *)
(* changes nothing.                                                         *)
(****************************************************************************)
EXTENDS Integers, FiniteSets

CONSTANTS Requests,
          UserOf, KindOf,          \* of a request; a kind is "answer",
                                   \* "stream" or "chat"
          Leases,                  \* lease identifiers, numbers
          Ttl, Cost, Burst, UserLimit, GlobalLimit

None == 0
Users == {UserOf[r] : r \in Requests}

ASSUME AnswerAssumption ==
  /\ IsFiniteSet(Requests) /\ Requests # {} /\ IsFiniteSet(Leases)
  /\ Leases \subseteq Nat \ {None}
  /\ {Ttl, Cost, Burst, UserLimit, GlobalLimit} \subseteq Nat \ {0}
  /\ Cardinality(Leases) >= GlobalLimit + Cardinality(Requests) - 1

VARIABLES
  pc,          \* request -> where its handler is
  held,        \* request -> the lease the handler knows of
  left,        \* lease -> ticks left in Redis, 0: not there
  owner,       \* lease -> the user it was granted to
  bucket,      \* user -> [tokens, since]
  open,        \* requests with a call to the language model
  ideal        \* history: user -> what a bucket refilled at each tick holds
vars == <<pc, held, left, owner, bucket, open, ideal>>

Full == Burst * Cost
Less(a, b) == IF a < b THEN a ELSE b

(* A bucket that is not in Redis: never used, or expired when it would have *)
(* been full for as long as it takes to fill it.                            *)
NoBucket == [tokens |-> Full, since |-> 0]
Level(b) == Less(Full, b.tokens + b.since)

(* Mutant: the time of the last write is kept. *)
ChargeTokensOnly(b) == [b EXCEPT !.tokens = Level(b) - Cost]

Charge(b) == [tokens |-> Level(b) - Cost, since |-> 0]

Aged(b) == IF b = NoBucket \/ b.since + 1 = 2 * Full THEN NoBucket
           ELSE [b EXCEPT !.since = @ + 1]

Live == {l \in Leases : left[l] > 0}
LiveOf(u) == {l \in Live : owner[l] = u}

Admissible(u) ==
  /\ Level(bucket[u]) >= Cost
  /\ Cardinality(LiveOf(u)) < UserLimit
  /\ Cardinality(Live) < GlobalLimit

Init ==
  /\ pc = [r \in Requests |-> "idle"] /\ held = [r \in Requests |-> None]
  /\ left = [l \in Leases |-> 0]
  /\ owner \in {[l \in Leases |-> u] : u \in {CHOOSE u \in Users : TRUE}}
  /\ bucket = [u \in Users |-> NoBucket] /\ ideal = [u \in Users |-> Full]
  /\ open = {}

------------------------------------------------------------------------------
(* Admission *)

(* The script admits a generation of r's user under a fresh identifier.     *)
Grant(r, l) ==
  LET u == UserOf[r]
  IN /\ Admissible(u)
     /\ l \notin Live \cup {held[q] : q \in Requests}
     /\ \A k \in Leases : k < l => k \in Live \cup {held[q] : q \in Requests}
     /\ left' = [left EXCEPT ![l] = Ttl] /\ owner' = [owner EXCEPT ![l] = u]
     /\ bucket' = [bucket EXCEPT ![u] = Charge(@)]
     /\ ideal' = [ideal EXCEPT ![u] = @ - Cost]

(* /answer and /answer/stream prepare the prompt at once; the handler of a  *)
(* chat turn returns a response whose body will do it.                      *)
Admit(r) ==
  /\ pc[r] = "idle"
  /\ \E l \in Leases :
       Grant(r, l) /\ held' = [held EXCEPT ![r] = l]
  /\ pc' = [pc EXCEPT ![r] = IF KindOf[r] = "chat" THEN "ready" ELSE "prepare"]
  /\ UNCHANGED open

(* The answer of Redis is lost: 503, the handler knows of no lease.         *)
AdmitUnheard(r) ==
  /\ pc[r] = "idle"
  /\ \E l \in Leases : Grant(r, l)
  /\ UNCHANGED <<pc, held, open>>

------------------------------------------------------------------------------
(* The handlers *)

Goto(r, from, to) == pc[r] = from /\ pc' = [pc EXCEPT ![r] = to]

(* retrieval, context, prompt; both streams ask the provider for its health *)
Prepare(r) ==
  /\ Goto(r, "prepare", IF KindOf[r] = "stream" THEN "ready" ELSE "generate")
  /\ open' = IF KindOf[r] = "stream" THEN open ELSE open \cup {r}
  /\ UNCHANGED <<held, left, owner, bucket, ideal>>

PrepareFails(r) ==
  /\ Goto(r, "prepare", "release")
  /\ UNCHANGED <<held, left, owner, bucket, open, ideal>>

(* The body of the response begins: its first event is sent outside of the  *)
(* try block.                                                               *)
BodyStarts(r) ==
  /\ Goto(r, "ready", "started")
  /\ UNCHANGED <<held, left, owner, bucket, open, ideal>>

(* The client has taken the first event.                                    *)
BodyGoesOn(r) ==
  /\ Goto(r, "started", IF KindOf[r] = "chat" THEN "prepare" ELSE "generate")
  /\ open' = IF KindOf[r] = "chat" THEN open ELSE open \cup {r}
  /\ UNCHANGED <<held, left, owner, bucket, ideal>>

(* Done, failed, the client gone, or the request cancelled.                 *)
EndGeneration(r) ==
  /\ Goto(r, "generate", IF KindOf[r] = "answer" THEN "release" ELSE "close")
  /\ open' = IF KindOf[r] = "answer" THEN open \ {r} ELSE open
  /\ UNCHANGED <<held, left, owner, bucket, ideal>>

(* upstream.aclose(): chat.py suppresses its exceptions, answer.py does not.*)
Close(r) ==
  /\ Goto(r, "close", "release")
  /\ open' = open \ {r}
  /\ UNCHANGED <<held, left, owner, bucket, ideal>>

(* Mutant: a release takes all leases of the user. *)
ReleaseOfUser(r) ==
  /\ Goto(r, "release", "idle")
  /\ left' = [l \in Leases |-> IF owner[l] = UserOf[r] THEN 0 ELSE left[l]]
  /\ held' = [held EXCEPT ![r] = None]
  /\ UNCHANGED <<owner, bucket, open, ideal>>

Release(r) ==
  /\ Goto(r, "release", "idle")
  /\ left' = [left EXCEPT ![held[r]] = 0]
  /\ held' = [held EXCEPT ![r] = None]
  /\ UNCHANGED <<owner, bucket, open, ideal>>

(* Handlers that end without a release, their leases stay where they are.   *)
LeftBehind(R) ==
  /\ pc' = [r \in Requests |-> IF r \in R THEN "idle" ELSE pc[r]]
  /\ held' = [r \in Requests |-> IF r \in R THEN None ELSE held[r]]
  /\ open' = open \ R
  /\ UNCHANGED <<left, owner, bucket, ideal>>

(* release swallows the error of Redis.                                     *)
ReleaseFails(r) == pc[r] = "release" /\ LeftBehind({r})

(* The client goes before the body of the response has begun or while its   *)
(* first event is sent.                                                     *)
BodyNeverGoesOn(r) == pc[r] \in {"ready", "started"} /\ LeftBehind({r})

(* A cancellation is no Exception: the preparation of /answer/stream does   *)
(* not handle it, and neither stream does while the upstream is closed.     *)
(* /answer/stream handles no error of closing it, either.                   *)
StreamEndsBadly(r) ==
  /\ pc[r] = "close" \/ (KindOf[r] = "stream" /\ pc[r] = "prepare")
  /\ LeftBehind({r})

(* The server process dies.                                                 *)
Crash == LeftBehind({r \in Requests : pc[r] # "idle"})

------------------------------------------------------------------------------
(* Mutant: a lease has no time. *)
PassingForever(l) == left[l]

Passing(l) == IF left[l] = 0 THEN 0 ELSE left[l] - 1

Tick ==
  /\ left' = [l \in Leases |-> Passing(l)]
  /\ bucket' = [u \in Users |-> Aged(bucket[u])]
  /\ ideal' = [u \in Users |-> Less(Full, ideal[u] + 1)]
  /\ UNCHANGED <<pc, held, owner, open>>

Next ==
  \/ \E r \in Requests :
       \/ Admit(r) \/ AdmitUnheard(r) \/ Prepare(r) \/ PrepareFails(r)
       \/ BodyStarts(r) \/ BodyGoesOn(r) \/ EndGeneration(r) \/ Close(r)
       \/ Release(r) \/ ReleaseFails(r) \/ BodyNeverGoesOn(r)
       \/ StreamEndsBadly(r)
  \/ Crash \/ Tick

Spec == Init /\ [][Next]_vars
FairSpec == Spec /\ WF_vars(Tick)

------------------------------------------------------------------------------
(* Properties *)

TypeOK ==
  /\ pc \in [Requests -> {"idle", "prepare", "ready", "started", "generate",
                          "close", "release"}]
  /\ held \in [Requests -> Leases \cup {None}]
  /\ \A r \in Requests : held[r] = None <=> pc[r] = "idle"
  /\ left \in [Leases -> 0..Ttl] /\ owner \in [Leases -> Users]
  /\ bucket \in [Users -> [tokens : 0..Full, since : 0..(2 * Full - 1)]]
  /\ open \subseteq {r \in Requests : pc[r] \in {"generate", "close"}}
  /\ ideal \in [Users -> Int]

(* rate_limits.py: the bucket that is only refilled when it is read, and    *)
(* forgotten when it has expired, admits what a bucket refilled all the time*)
(* admits, no more and no less.                                             *)
RateIsExact == \A u \in Users : Level(bucket[u]) = ideal[u] /\ ideal[u] >= 0

(* answer.py, chat.py: whoever calls the model has a lease of his own, and  *)
(* there are no more calls than leases, but for those that run longer.      *)
ModelIsShared ==
  LET Late(r) == held[r] # None /\ left[held[r]] = 0
      Calls(u) == {r \in open : UserOf[r] = u /\ ~ Late(r)}
  IN /\ Cardinality({r \in open : ~ Late(r)}) <= GlobalLimit
     /\ \A u \in Users : Cardinality(Calls(u)) <= UserLimit
     /\ \A r \in open : /\ held[r] # None
                        /\ Late(r) \/ owner[held[r]] = UserOf[r]

(* rate_limits.py: what admission is for.  Requests per time and generations *)
(* at a time stay within their limits, and no user gets less than his.      *)
LimitsHold == RateIsExact /\ ModelIsShared

(* A lease ends when its holder gives it back or when its time is over,     *)
(* never by what another request does.                                      *)
LeaseIsItsHolders ==
  [][\A l \in Leases :
       left[l] > 1 /\ left'[l] = 0
       => \E r \in Requests : /\ held[r] = l /\ held'[r] = None
                              /\ pc[r] = "release" /\ r \notin open]_vars

(* Whatever was left behind, a platform on which nobody generates any more  *)
(* admits every user again.                                                 *)
Quiet == \A r \in Requests : pc[r] = "idle"
CapacityReturns == \A u \in Users : []<>(Quiet => Admissible(u))
==============================================================================
