------------------------------ MODULE LocalGate ------------------------------
(****************************************************************************)
(* The gate in front of the device's HTTP service                           *)
(* (app/local_compute/api.py): the origin policy, the browser's preflight,  *)
(* the match of a request with a route and with the operation a session     *)
(* needs for it, and the checks before a handler runs.                      *)
(*                                                                          *)
(* A path is a sequence of segments; a segment is [name, cancel], where     *)
(* cancel says that it ends in ":cancel" and name is what stands before it. *)
(* A template segment is a name, or "id" or "id:cancel" for a parameter.    *)
(****************************************************************************)
EXTENDS Integers, Sequences, FiniteSets, TLC

Plain(name) == [name |-> name, cancel |-> FALSE]
Param == Plain("id")
CancelParam == [name |-> "id", cancel |-> TRUE]

V1(names) == <<Plain("v1")>> \o names
Endpoint(method, template) == [method |-> method, template |-> template]

Documents1 == V1(<<Plain("documents")>>)
Document1 == Append(Documents1, Param)
HealthCheck == Endpoint("GET", <<Plain("health")>>)
Sessions == Endpoint("POST", V1(<<Plain("sessions")>>))
Probe == Endpoint("POST", V1(<<Plain("transport-probe")>>))
Source == Endpoint("PUT", Append(Document1, Plain("source")))

(* The routes the service declares that ask for a session. *)
Guarded ==
  {Endpoint("GET", V1(<<Plain("runtime")>>)),
   Endpoint("GET", V1(<<Plain("capabilities")>>)),
   Endpoint("POST", V1(<<Plain("probe"), Plain("binary")>>)),
   Source,
   Endpoint("DELETE", Document1),
   Endpoint("POST", Append(Document1, Plain("prepare"))),
   Endpoint("GET", Documents1),
   Endpoint("GET", Document1),
   Endpoint("GET", V1(<<Plain("jobs"), Param>>)),
   Endpoint("POST", V1(<<Plain("jobs"), CancelParam>>)),
   Endpoint("POST", Append(Document1, Plain("index"))),
   Endpoint("POST", V1(<<Plain("queries")>>)),
   Endpoint("POST", V1(<<Plain("answers")>>)),
   Probe}
Routes == Guarded \cup {HealthCheck, Sessions}

(* ROUTE_OPERATIONS *)
Operations == {"documents", "jobs", "retrieval", "answer"}
OperationOf(route) ==
  CASE route.template[2].name \in {"runtime", "capabilities", "jobs"} -> "jobs"
    [] route.template[2].name \in {"documents", "probe"} -> "documents"
    [] route.template[2].name = "queries" -> "retrieval"
    [] OTHER -> "answer"

(* part_matches: a parameter stands for at least one character.             *)
PartMatches(part, segment) ==
  IF part.name # "id" THEN part = segment
  ELSE IF part.cancel THEN segment.cancel /\ segment.name # ""
  ELSE segment.cancel \/ segment.name # ""

Matches(route, method, path) ==
  /\ route.method = method /\ Len(route.template) = Len(path)
  /\ \A i \in DOMAIN path : PartMatches(route.template[i], path[i])

(* operation_for: slashes around the path do not count.  The empty set: the *)
(* operation is not allowed.                                                *)
OperationFor(method, path) ==
  {OperationOf(r) : r \in {g \in Guarded : Matches(g, method, path)}}

(* operationFromPath: the operation for which a page asks its session.      *)
PageOperation(path) ==
  CASE path \in {V1(<<Plain("runtime")>>), V1(<<Plain("capabilities")>>)} -> "jobs"
    [] Len(path) = 3 /\ path[2] = Plain("jobs") -> "jobs"
    [] path = V1(<<Plain("queries")>>) -> "retrieval"
    [] path = V1(<<Plain("answers")>>) -> "answer"
    [] OTHER -> "documents"

(* What BrowserComputeClient calls: all but the two probes. *)
PageCalls == Guarded \ {Probe, Endpoint("POST", V1(<<Plain("probe"), Plain("binary")>>))}
PageHeaders == {"Session", "Timestamp", "Nonce", "MAC", "Protocol-Version",
                "Content-Type", "Filename"}

(* The framework's router compares the whole path; one that differs in its  *)
(* last slash is redirected.                                                *)
Dispatch(request) ==
  IF request.slash THEN {}
  ELSE {r \in Routes : Matches(r, request.method, request.path)}

------------------------------------------------------------------------------
(* A request: [method, path, slash, origin, preflight, session, size, crash] *)
(* - origin is "page" (an allowed one), "foreign" or "none";                *)
(* - preflight is [asked, private] for an OPTIONS request;                  *)
(* - session is what the session headers amount to: [given, version, valid, *)
(*   bound, allows]; grant says the same of a request for a session;        *)
(* - size is the class of the body: 1 up to 32 bytes, 2 up to a request's   *)
(*   limit, 3 up to a source file's limit, 4 above it;                      *)
(* - crash says that the handler ends with an unexpected exception.         *)

AllowedMethods == {"GET", "POST", "PUT", "DELETE", "OPTIONS"}
AllowedHeaders == {"Content-Type", "Grant", "Browser-Nonce", "Session",
                   "Timestamp", "Nonce", "MAC", "Protocol-Version", "Filename"}

(* _cors_headers *)
CorsHeaders(private) == [methods |-> AllowedMethods, headers |-> AllowedHeaders,
                         private |-> private]
NoCors == [methods |-> {}, headers |-> {}, private |-> FALSE]

NoHandler == Endpoint("none", <<>>)
Response(code, handler, cors) ==
  [code |-> code, handler |-> handler, cors |-> cors, halts |-> FALSE]
Refusal(code) == Response(code, NoHandler, NoCors)

Limit(route) == IF route = Probe THEN 1 ELSE IF route = Source THEN 3 ELSE 2

(* Mutant: a request of another version ends the sessions even of a page    *)
(* that has none.                                                           *)
AuthenticateVersionFirst(route, request) ==
  LET s == request.session
  IN IF request.origin = "none" THEN "ORIGIN_NOT_ALLOWED"
     ELSE IF ~ s.version THEN "UPDATE_REQUIRED"
     ELSE IF ~ s.given THEN "AUTH_REQUIRED"
     ELSE IF request.size > Limit(route) THEN "PAYLOAD_TOO_LARGE"
     ELSE IF OperationFor(request.method, request.path) = {} THEN "OPERATION_NOT_ALLOWED"
     ELSE IF ~ s.valid THEN "AUTH_INVALID"
     ELSE IF OperationFor(request.method, request.path) \cap s.allows = {}
     THEN "OPERATION_NOT_ALLOWED"
     ELSE IF ~ s.bound THEN "SESSION_BINDING_INVALID"
     ELSE "NONE"

(* authenticate: the checks in their order.  The version is asked before    *)
(* the session is looked up; the operation is found before the proof is     *)
(* checked and compared with the session's after that.                      *)
Authenticate(route, request) ==
  LET s == request.session
  IN IF request.origin = "none" THEN "ORIGIN_NOT_ALLOWED"
     ELSE IF ~ s.given THEN "AUTH_REQUIRED"
     ELSE IF ~ s.version THEN "UPDATE_REQUIRED"
     ELSE IF request.size > Limit(route) THEN "PAYLOAD_TOO_LARGE"
     ELSE IF OperationFor(request.method, request.path) = {} THEN "OPERATION_NOT_ALLOWED"
     ELSE IF ~ s.valid THEN "AUTH_INVALID"
     ELSE IF OperationFor(request.method, request.path) \cap s.allows = {}
     THEN "OPERATION_NOT_ALLOWED"
     ELSE IF ~ s.bound THEN "SESSION_BINDING_INVALID"
     ELSE "NONE"

(* create_session *)
CreateSession(request, state) ==
  IF request.origin = "none" THEN "ORIGIN_NOT_ALLOWED"
  ELSE IF state = "UPDATE_REQUIRED" THEN "UPDATE_REQUIRED"
  ELSE IF state = "REVOKED" THEN "NOT_PAIRED"
  ELSE IF ~ request.grant THEN "AUTH_INVALID"
  ELSE "NONE"

(* The router and the handler: what they answer without the middleware.  A  *)
(* runtime that has to be updated or is revoked fails the binding of every  *)
(* session.                                                                 *)
Handle(request, state) ==
  IF Dispatch(request) = {} THEN Refusal("NOT_FOUND")
  ELSE LET route == CHOOSE r \in Dispatch(request) : TRUE
           bound == [request EXCEPT !.session.bound = @ /\ state = "READY"]
           error == CASE route = HealthCheck -> "NONE"
                      [] route = Sessions -> CreateSession(request, state)
                      [] OTHER -> Authenticate(route, bound)
       IN IF error # "NONE"
          THEN [Refusal(error) EXCEPT
                  !.halts = route \in Guarded /\ error = "UPDATE_REQUIRED"]
          ELSE Response("OK", route, NoCors)

(* Mutant: only a preflight is asked for its origin. *)
ServeOpen(request, state) ==
  IF request.method = "OPTIONS"
  THEN IF request.origin = "foreign" THEN Refusal("ORIGIN_NOT_ALLOWED")
       ELSE IF request.origin = "none" \/ request.preflight.asked = "none"
       THEN Refusal("INVALID_REQUEST")
       ELSE Response("OK", NoHandler, CorsHeaders(request.preflight.private))
  ELSE LET answer == Handle(request, state)
       IN IF answer.code = "OK" /\ request.crash
          THEN Response("CRASH", answer.handler, NoCors)
          ELSE IF request.origin # "page" THEN answer
          ELSE [answer EXCEPT !.cors = CorsHeaders(FALSE)]

(* LocalOriginPolicyMiddleware.dispatch.  An exception that no handler      *)
(* turns into an answer passes the middleware: its answer has no headers.   *)
Serve(request, state) ==
  IF request.origin = "foreign" THEN Refusal("ORIGIN_NOT_ALLOWED")
  ELSE IF request.method = "OPTIONS"
  THEN IF request.origin = "none" \/ request.preflight.asked = "none"
       THEN Refusal("INVALID_REQUEST")
       ELSE Response("OK", NoHandler, CorsHeaders(request.preflight.private))
  ELSE LET answer == Handle(request, state)
       IN IF answer.code = "OK" /\ request.crash
          THEN Response("CRASH", answer.handler, NoCors)
          ELSE IF request.origin # "page" THEN answer
          ELSE [answer EXCEPT !.cors = CorsHeaders(FALSE)]
------------------------------------------------------------------------------
(* Properties of a request q, the runtime's state and the response a.       *)

(* api.py: no handler runs for a page of another origin, none but the health*)
(* check and the bootstrap without a session that allows the operation of   *)
(* the route, and only a page that has a session can end all of them by the *)
(* version it speaks.                                                       *)
OnlyAllowed(q, state, a) ==
  /\ q.origin = "foreign" => a.handler = NoHandler /\ a.cors = NoCors
  /\ a.handler \in Guarded =>
       /\ q.origin = "page" /\ state = "READY"
       /\ q.session.given /\ q.session.version /\ q.session.valid
       /\ OperationOf(a.handler) \in q.session.allows
  /\ a.halts => q.origin = "page" /\ q.session.given

(* api.py, client.ts: what a page calls gets a preflight that admits the    *)
(* method and the headers, and reaches its handler with a session for the   *)
(* operation the page has asked for.                                        *)
GetsThrough(call, q, state, a) ==
  LET ask == [q EXCEPT !.method = "OPTIONS",
                       !.preflight = [asked |-> q.method, private |-> TRUE]]
      grants == Serve(ask, state)
  IN /\ grants.code = "OK" /\ grants.cors.private
     /\ q.method \in grants.cors.methods
     /\ PageHeaders \subseteq grants.cors.headers
     /\ /\ q.session.given /\ q.session.version /\ q.session.valid
        /\ q.session.bound /\ state = "READY"
        /\ PageOperation(q.path) \in q.session.allows
        /\ q.size <= Limit(call)
        => a.handler = call

(* A page can read the answer, refusals too, and all it calls gets through. *)
PageServed(q, state, a) ==
  q.origin = "page" =>
    /\ a.code # "CRASH" /\ q.method # "OPTIONS" => a.cors # NoCors
    /\ \A call \in PageCalls :
         Matches(call, q.method, q.path) /\ ~ q.slash => GetsThrough(call, q, state, a)
==============================================================================
