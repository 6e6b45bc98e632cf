--------------------------- MODULE ProviderChain ---------------------------
(***************************************************************************)
(* internal/llm/registry.go, schema_harness.go and the providers: one      *)
(* review asked of a route and, if that fails in certain ways, of the next.*)
(* A route is a positive number, 0 is a blank one.  What comes back from a *)
(* provider is a response [kind, status, tool, text], where kind is        *)
(*   "timeout", "lost"     nothing comes back                              *)
(*   "garbled"             no completion can be read from it               *)
(*   "status"              a status other than success, and a page         *)
(*   "empty"               a completion without choices                    *)
(*   "message"             the tool was called with the text, or the model *)
(*                         wrote the text                                  *)
(* A text mentions a status if the message of an error that quotes it does,*)
(* and has wrap "blank" if there is none.                                  *)
(***************************************************************************)
EXTENDS OutputParser, RateLimiter

CONSTANTS
  Registered,        \* routes with a provider, the models of the configuration
  DefaultRoute,
  DefaultFallbacks,
  Chains,            \* model_chains: [primary, fallbacks] by reference
  SchemaRoutes,      \* routes that are asked for JSON rather than a tool call
  timeoutRetries,
  Me                 \* the caller that this review is

ASSUME RoutesAssumption ==
  /\ DefaultRoute \in Registered /\ Registered \subseteq Scopes
  /\ Me \in Callers /\ timeoutRetries \in Nat

VARIABLE call        \* the state of the review that is being asked for

-----------------------------------------------------------------------------
(* Which routes                                                            *)

Resolve(route) == IF route \in Registered THEN route ELSE DefaultRoute

\* Mutant: only the names are compared, not what they resolve to.
ResolveWithFallbackRoutes_Names(route, fallbacks) ==
  FoldLeft(LAMBDA chain, r : IF r = 0 \/ r \in ToSet(chain) THEN chain
                             ELSE Append(chain, Resolve(r)),
           <<Resolve(route)>>, fallbacks)

ResolveWithFallbackRoutes(route, fallbacks) ==
  FoldLeft(LAMBDA chain, r :
             IF r = 0 \/ {r, Resolve(r)} \cap ToSet(chain) # {} THEN chain
             ELSE Append(chain, Resolve(r)),
           <<Resolve(route)>>, fallbacks)

validChain(ref) ==
  /\ Chains[ref].primary \in Registered
  /\ ToSet(Chains[ref].fallbacks) \subseteq (Registered \cup {0})

ResolveProviderReference(ref) ==
  IF ref \notin DOMAIN Chains THEN [primary |-> ref, fallbacks |-> <<>>]
  ELSE [primary |-> Chains[ref].primary,
        fallbacks |-> SelectSeq(Chains[ref].fallbacks,
                        LAMBDA r : r \notin {0, Chains[ref].primary})]

\* No route at all if the reference is to a chain that is not valid.
ResolveProvider(ref) ==
  LET p == ResolveProviderReference(ref)
  IN IF ref = 0 THEN ResolveWithFallbackRoutes(DefaultRoute, DefaultFallbacks)
     ELSE IF ref \in DOMAIN Chains /\ ~validChain(ref) THEN <<>>
     ELSE ResolveWithFallbackRoutes(p.primary,
            IF p.fallbacks = <<>> THEN DefaultFallbacks ELSE p.fallbacks)

-----------------------------------------------------------------------------
(* One call                                                                *)

NoText == [wrap |-> "blank", mentions |-> FALSE, doc |-> <<>>]

\* The body of a completion, which is an object but no review.
NoReview ==
  [wrap |-> "plain", mentions |-> FALSE,
   doc |-> [typed |-> TRUE, named |-> FALSE, status |-> "", note |-> FALSE,
            list |-> FALSE, findings |-> <<>>]]

\* The method call of a provider.  Its answer is what the model submitted
\* ("text"), what it wrote instead ("miss"), or an error: a "timeout", one
\* whose message names a "server" error, or another, "refused".
callProvider(r, route) ==
  LET schema == route \in SchemaRoutes
      submits == IF schema THEN r.text.wrap # "blank" ELSE r.tool
      fails == r.status \in {500, 502, 503, 504} \/ r.text.mentions
      Answer(kind, text) == [kind |-> kind, text |-> text]
  IN CASE r.kind = "timeout" -> Answer("timeout", NoText)
       [] r.kind \in {"lost", "garbled"} -> Answer("refused", NoText)
       [] r.kind = "status" -> Answer(IF fails THEN "server" ELSE "refused", NoText)
       [] r.kind = "empty" -> Answer("miss", NoReview)
       [] r.kind = "message" /\ submits -> Answer("text", r.text)
       [] r.kind = "message" /\ ~submits -> Answer("miss", IF schema THEN NoReview ELSE r.text)

NoCall == [pc |-> "out", chain |-> <<>>, pos |-> 0, attempt |-> 0, raw |-> NoText,
           result |-> NotParsed, error |-> "", last |-> FALSE]

StartCall(chain) ==
  call' = [NoCall EXCEPT !.pc = IF chain = <<>> THEN "failed" ELSE "limit",
                         !.chain = chain, !.pos = Min({1, Len(chain)}),
                         !.error = IF chain = <<>> THEN "refused" ELSE ""]

Accept(r, text) ==
  call' = [call EXCEPT !.pc = "answered", !.result = r, !.raw = text]

\* isTimeoutError looks at the cause, the rest of the condition at the text
\* of the message, which for parser errors quotes the response.
shouldFallbackToSecondary(error, cause, text) ==
  \/ error \in {"timeout", "server"}
  \/ error = "parser" /\ (cause \in {"timeout", "server"} \/ text.mentions)

\* Review and reviewFallbackChain.
RouteFails(error, cause, text) ==
  LET next == shouldFallbackToSecondary(error, cause, text)
  IN call' = IF next /\ call.pos < Len(call.chain)
             THEN [call EXCEPT !.pc = "limit", !.pos = @ + 1, !.attempt = 0,
                               !.raw = NoText]
             ELSE [call EXCEPT !.pc = "failed", !.error = error, !.last = next]

\* Execute, up to the repair.
Execute(answer) ==
  LET r == ParseReviewResult(answer.text)
      strict == validateReviewResultStrictIssues(answer.text)
  IN IF answer.kind = "miss"
     THEN IF r.ok THEN Accept(r, answer.text)
          ELSE IF answer.text.wrap = "blank" THEN RouteFails("parser", "", answer.text)
          ELSE call' = [call EXCEPT !.pc = "repair", !.raw = answer.text]
     ELSE IF strict
     THEN IF r.ok THEN Accept(r, answer.text)
          ELSE RouteFails("parser", "", answer.text)
     ELSE call' = [call EXCEPT !.pc = "repair", !.raw = answer.text]

\* The loop of ReviewWithSystemPrompt; the limiter is not asked again.
Ask(answer) ==
  /\ call.pc = "ask"
  /\ IF answer.kind \in {"text", "miss"} THEN Execute(answer)
     ELSE IF answer.kind = "timeout" /\ call.attempt + 1 < timeoutRetries
     THEN call' = [call EXCEPT !.attempt = @ + 1]
     ELSE RouteFails(answer.kind, "", NoText)

\* A repair that fails the schema is taken if the lenient parse accepts it.
executeRepair(answer) ==
  /\ call.pc = "repair"
  /\ IF answer.kind # "text" THEN RouteFails("parser", answer.kind, call.raw)
     ELSE LET r == ParseReviewResult(answer.text)
          IN IF r.ok THEN Accept(r, answer.text)
             ELSE RouteFails("parser", "", answer.text)

\* Waiting for the limiter, then asking.
CallStep(responses) ==
  \/ /\ call.pc = "limit"
     /\ EnterWait(Me, call.chain[call.pos])
     /\ UNCHANGED call
  \/ /\ call.pc = "limit"
     /\ Wait(Me) \/ Wake(Me)
     /\ UNCHANGED call
  \/ /\ call.pc = "limit"
     /\ LeaveWait(Me)
     /\ call' = [call EXCEPT !.pc = "ask"]
  \/ /\ call.pc \in {"ask", "repair"}
     /\ \E r \in responses :
          LET answer == callProvider(r, call.chain[call.pos])
          IN Ask(answer) \/ executeRepair(answer)
     /\ UNCHANGED limiterVars

OtherCaller(c) ==
  /\ \/ \E s \in Scopes : limit[s] > 0 /\ EnterWait(c, s)
     \/ WaitStep(c)
  /\ UNCHANGED call
=============================================================================
