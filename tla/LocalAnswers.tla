----------------------------- MODULE LocalAnswers -----------------------------
(****************************************************************************)
(* Answers on the device (app/local_compute/generation.py): which provider  *)
(* generates the answer, the user's own computer or a cloud account of the  *)
(* user, and what is told about it.  Every provider is asked for its health *)
(* when the route is resolved and once more right before the call; the two  *)
(* answers may differ.                                                      *)
(*                                                                          *)
(* A request r: policy; config, the cloud configuration it names ("none",   *)
(* "unknown" or "known"); toCloud and toLocal, the fallbacks it allows.     *)
(* An attempt a: evidence, whether there is any; first and second, the      *)
(* health of LOCAL and USER_CLOUD at the two times; fits, whether the       *)
(* prompt fits the model; structured, whether structured claims are on;     *)
(* call, how the call ends; claims, whether the claims it returns hold.     *)
(* The body of the HTTP request is "valid", or "malformed" (no object, an   *)
(* unknown policy, a permission that is no boolean, an empty question,      *)
(* documents that are no distinct ids), or it names a "secret": an endpoint *)
(* or a credential of a provider.                                           *)
(****************************************************************************)

Providers == {"LOCAL", "USER_CLOUD"}
Policies == {"LOCAL_ONLY", "USER_CLOUD_ONLY", "PREFER_LOCAL",
             "PREFER_USER_CLOUD"}

Preferred(policy) ==
  IF policy \in {"LOCAL_ONLY", "PREFER_LOCAL"} THEN "LOCAL" ELSE "USER_CLOUD"
Other(p) == CHOOSE q \in Providers : q # p

(* Mutant: whoever prefers a provider accepts the other one. *)
FallbackImplied(r) == r.policy \in {"PREFER_LOCAL", "PREFER_USER_CLOUD"}

FallbackAllowed(r) ==
  \/ r.policy = "PREFER_LOCAL" /\ r.toCloud
  \/ r.policy = "PREFER_USER_CLOUD" /\ r.toLocal

NotReady(p) == IF p = "LOCAL" THEN "GENERATION_UNAVAILABLE"
               ELSE "USER_CLOUD_UNREACHABLE"

Route(provider, fallback) ==
  [provider |-> provider, fallback |-> fallback, error |-> "NONE"]
NoRoute(error) == [provider |-> "NONE", fallback |-> FALSE, error |-> error]

(* _local_ready, _user_cloud_ready: the registry raises for a cloud account *)
(* it does not know, whatever fallback is allowed.                          *)
Usable(r, health, p) ==
  /\ health[p] = "READY"
  /\ p = "USER_CLOUD" => r.config = "known"
Raises(r, p) == p = "USER_CLOUD" /\ r.config # "known"

(* GenerationRouter.resolve *)
Resolve(r, health) ==
  LET first == Preferred(r.policy)
      second == Other(first)
  IN IF Raises(r, first) THEN NoRoute("USER_CLOUD_NOT_CONFIGURED")
     ELSE IF Usable(r, health, first) THEN Route(first, FALSE)
     ELSE IF ~ FallbackAllowed(r) THEN NoRoute(NotReady(first))
     ELSE IF Raises(r, second) THEN NoRoute("USER_CLOUD_NOT_CONFIGURED")
     ELSE IF Usable(r, health, second) THEN Route(second, TRUE)
     ELSE NoRoute(NotReady(second))

(* generate of the two providers: the evidence is sent only when the        *)
(* provider is still ready.  state is its health, or how the call ends; a   *)
(* cloud account is DEGRADED when the question for its health timed out.    *)
CallFails(p, state) ==
  IF state = "TIMEOUT" THEN "GENERATION_TIMEOUT"
  ELSE IF state = "NO_TEXT" THEN "INVALID_GENERATION_RESPONSE"
  ELSE
  CASE p = "LOCAL" /\ state = "MODEL_UNAVAILABLE" -> state
    [] p = "LOCAL" /\ state = "DEGRADED" -> "GENERATION_UNAVAILABLE"
    [] p = "USER_CLOUD" /\ state = "DEGRADED" -> "GENERATION_TIMEOUT"
    [] p = "USER_CLOUD" /\ state # "DEGRADED" ->
         [AUTH_FAILED |-> "USER_CLOUD_AUTH_FAILED",
          RATE_LIMITED |-> "USER_CLOUD_RATE_LIMITED",
          MODEL_UNAVAILABLE |-> "USER_CLOUD_MODEL_UNAVAILABLE",
          UNREACHABLE |-> "USER_CLOUD_UNREACHABLE",
          CREDENTIAL_UNAVAILABLE |-> "CREDENTIAL_UNAVAILABLE"][state]

Outcome(p, fallback, sent, status, error) ==
  [provider |-> p, fallback |-> fallback, sent |-> sent, status |-> status,
   error |-> error]
Refused(error, sent) == Outcome("NONE", FALSE, sent, "NONE", error)

(* LocalAnswerService.answer; the claims of a structured answer are checked *)
(* only for the local provider, whose text alone is structured.             *)
Answer(r, a) ==
  LET route == Resolve(r, a.first)
      p == route.provider
      structured == a.structured /\ p = "LOCAL"
  IN IF ~ a.evidence
     THEN Outcome("LOCAL", FALSE, {}, "INSUFFICIENT_EVIDENCE", "NONE")
     ELSE IF route.error # "NONE" THEN Refused(route.error, {})
     ELSE IF ~ a.fits THEN Refused("INVALID_REQUEST", {})
     ELSE IF ~ Usable(r, a.second, p)
     THEN Refused(CallFails(p, a.second[p]), {})
     ELSE IF a.call # "ok" THEN Refused(CallFails(p, a.call), {p})
     ELSE Outcome(p, route.fallback, {p},
                  IF structured /\ ~ a.claims THEN "COMPLETED_WITH_WARNINGS"
                  ELSE "COMPLETED",
                  "NONE")

(* answer_document_set.  What is wrong with the body is found in the route, *)
(* in from_values and in _validate_request, all before the retrieval.       *)
Bodies == {"valid", "malformed", "secret"}
AnswerRequest(body, r, a) ==
  IF body = "valid" THEN Answer(r, a) ELSE Refused("INVALID_REQUEST", {})

(* The generation capability that the runtime reports from now on: an       *)
(* answer says READY, whoever gave it, also when there was nothing to       *)
(* generate; a call that times out says DEGRADED, whoever it went to.       *)
CapabilityAfter(outcome, before) ==
  CASE outcome.error = "NONE" -> "READY"
    [] outcome.error = "MODEL_UNAVAILABLE" -> "MODEL_UNAVAILABLE"
    [] outcome.error \in {"GENERATION_UNAVAILABLE", "GENERATION_TIMEOUT"} -> "DEGRADED"
    [] OTHER -> before

------------------------------------------------------------------------------
(* Property of a body, a request r, an attempt a and the outcome o.         *)

(* generation.py, api.py: evidence leaves the device only under a policy    *)
(* that names the cloud, or with the permission to fall back to it, and in  *)
(* answer to a request whose whole body is accepted.                        *)
SentAsAsked(body, r, a, o) ==
  "USER_CLOUD" \in o.sent =>
    /\ body = "valid" /\ r.config = "known" /\ a.evidence
    /\ \/ r.policy \in {"USER_CLOUD_ONLY", "PREFER_USER_CLOUD"}
       \/ r.policy = "PREFER_LOCAL" /\ r.toCloud
==============================================================================
