-------------------------- MODULE RequestPipeline --------------------------
(***************************************************************************)
(* The middleware chain of main.py around the routes: which layer sees a   *)
(* request first, which one answers it, what a response collects on its    *)
(* way out, and how the deadline, the exceptions and an idempotency claim  *)
(* travel through the layers.                                              *)
(*                                                                         *)
(* A request slot goes inward one layer at a time ("down"), starts a       *)
(* response at the layer that answers ("sending"), or carries an exception *)
(* outward ("raising"); after its response it may still settle its claim.  *)
(* The requests of one client address share the rate limiter's counters,   *)
(* and the keyed ones one idempotency key of one user.  The claim protocol *)
(* itself is in IdempotencyKeys; here a claim is held, being settled on its *)
(* own, stranded by a holder that could not release it, completed, or free. *)
(***************************************************************************)
EXTENDS RateLimiter

CONSTANTS
    Slots,      \* requests in flight at once
    Shapes,     \* what a request may look like
    Servers,    \* how servers are set up, and what their clients send
    None,       \* no shape
    Timeout     \* REQUEST_TIMEOUT_SECONDS

ASSUME PipelineAssumption ==
    /\ Timeout \in Nat \ {0}
    /\ None \notin Shapes
    /\ Slots \cap {"free", "settling", "stranded", "completed"} = {}
    /\ Servers \subseteq
         [isDeployed : BOOLEAN, hasRedisUrl : BOOLEAN, shapes : SUBSET Shapes]
    /\ Shapes \subseteq [path : {"probe", "webhook", "auth", "other"},
                         isPreflight : BOOLEAN, isSafe : BOOLEAN,
                         isCrossOrigin : BOOLEAN, hasCsrfHeader : BOOLEAN,
                         key : {"none", "malformed", "valid"}, isSignedIn : BOOLEAN,
                         body : {"fits", "oversized"}]

VARIABLES
    at,         \* the depth each request is at, 0 for a free slot
    phase,      \* which way it travels
    shape,      \* what it asks
    bucket,     \* the bucket the limiter counts next
    elapsed,    \* how long it has been inside the timeout layer
    raised,     \* the exception it carries outward
    response,   \* the response it has started
    trace,      \* what it has done: been counted, claimed the key, run the route
    key         \* the idempotency key: its holder, or "free", "settling", "stranded", "completed"

requestVars == <<at, phase, shape, bucket, elapsed, raised, response, trace>>
vars == <<limiterVars, requestVars, key>>

----------------------------------------------------------------------------
(* The chain. *)

\* Mutant: the layers are where register_middleware's docstring lists them, the security headers
\* inside the body limit.
DepthInDocumentedOrder ==
    [server_error |-> 1, correlation_id |-> 2, request_context |-> 3, security_headers |-> 4,
     cors |-> 5, rate_limit |-> 6, timeout |-> 7, csrf_guard |-> 8, idempotency |-> 9,
     exceptions |-> 10, route |-> 11]

\* Mutant: the idempotency middleware is registered outside the guard.
DepthWithClaimsFirst ==
    [server_error |-> 1, security_headers |-> 2, correlation_id |-> 3, request_context |-> 4,
     cors |-> 5, rate_limit |-> 6, timeout |-> 7, idempotency |-> 8, csrf_guard |-> 9,
     exceptions |-> 10, route |-> 11]

\* Mutant: CORS is registered inside the limiter.
DepthWithLimiterOutsideCors ==
    [server_error |-> 1, security_headers |-> 2, correlation_id |-> 3, request_context |-> 4,
     rate_limit |-> 5, cors |-> 6, timeout |-> 7, csrf_guard |-> 8, idempotency |-> 9,
     exceptions |-> 10, route |-> 11]

\* The layers from the outermost in: register_middleware's, between the two Starlette adds.
Depth ==
    [server_error |-> 1, security_headers |-> 2, correlation_id |-> 3, request_context |-> 4,
     cors |-> 5, rate_limit |-> 6, timeout |-> 7, csrf_guard |-> 8, idempotency |-> 9,
     exceptions |-> 10, route |-> 11]

\* What a response says, and the status line it stands for.
Statuses ==
    {"preflight", "payload_too_large", "too_many", "limiter_unavailable", "timed_out",
     "csrf", "bad_key", "in_progress", "replay", "database_unavailable", "internal",
     "ok", "refused"}

\* Its status, the depth it starts from, and whether its headers were set by hand.
Responses == [status : Statuses \cup {"none"}, from : 0..11, isByHand : BOOLEAN]

NoResponse == [status |-> "none", from |-> 0, isByHand |-> FALSE]

PipelineTypeOK ==
    /\ at \in [Slots -> 0..11]
    /\ phase \in [Slots -> {"down", "sending", "raising", "settling"}]
    /\ shape \in [Slots -> Shapes \cup {None}]
    /\ bucket \in [Slots -> Buckets]
    /\ elapsed \in [Slots -> 0..Timeout]
    /\ raised \in [Slots -> {"none", "timeout", "exception"}]
    /\ response \in [Slots -> Responses]
    /\ trace \in [Slots -> SUBSET {"counted", "claimed", "ran"}]
    /\ key \in Slots \cup {"free", "settling", "stranded", "completed"}

TypeOK == server \in Servers /\ LimiterTypeOK /\ PipelineTypeOK

Init ==
    /\ server \in Servers
    /\ LimiterInit
    /\ at = [r \in Slots |-> 0]
    /\ phase = [r \in Slots |-> "down"]
    /\ shape = [r \in Slots |-> None]
    /\ bucket = [r \in Slots |-> "global"]
    /\ elapsed = [r \in Slots |-> 0]
    /\ raised = [r \in Slots |-> "none"]
    /\ response = [r \in Slots |-> NoResponse]
    /\ trace = [r \in Slots |-> {}]
    /\ key = "free"

Here(r, layer) == phase[r] = "down" /\ at[r] = Depth[layer]

\* A response that starts at this depth passes this layer on its way out.
Passes(depth, layer) == Depth[layer] < depth

\* The layers that decide nothing on the way in: they decorate the response, catch an exception, or
\* start the deadline.
Watching == {"server_error", "security_headers", "correlation_id", "timeout"}

Deciding == {Depth[layer] : layer \in DOMAIN Depth \ Watching}

\* The request goes on to the next layer inward that decides about it.
Inward(depth, d) == depth < d /\ \A e \in Deciding : depth < e => d <= e

Descend(r) == \E d \in Deciding : Inward(at[r], d) /\ at' = [at EXCEPT ![r] = d]

Trace(r, what) == trace' = [trace EXCEPT ![r] = @ \cup {what}]

\* http.response.start leaves this layer: the layers outside it add their headers.
Start(r, layer, status, isByHand) ==
    /\ response' = [response EXCEPT ![r] =
                      [status |-> status, from |-> Depth[layer], isByHand |-> isByHand]]
    /\ at' = [at EXCEPT ![r] = Depth[layer]]
    /\ phase' = [phase EXCEPT ![r] = "sending"]

\* send_error_envelope, for a layer that answers instead of calling the next one.
Refuse(r, layer, status) ==
    /\ Start(r, layer, status, FALSE)
    /\ UNCHANGED <<shape, bucket, elapsed, raised, trace, key>>

\* The layer passes the request on, and keeps no state of its own.
Pass(r) ==
    /\ Descend(r)
    /\ UNCHANGED <<phase, shape, bucket, elapsed, raised, response, trace, key>>

\* The connection is done with this request: its slot is free.
End(r) ==
    /\ at' = [at EXCEPT ![r] = 0]
    /\ phase' = [phase EXCEPT ![r] = "down"]
    /\ shape' = [shape EXCEPT ![r] = None]
    /\ bucket' = [bucket EXCEPT ![r] = "global"]
    /\ elapsed' = [elapsed EXCEPT ![r] = 0]
    /\ raised' = [raised EXCEPT ![r] = "none"]
    /\ response' = [response EXCEPT ![r] = NoResponse]
    /\ trace' = [trace EXCEPT ![r] = {}]

Arrive(r, s) ==
    /\ at[r] = 0
    /\ Descend(r)
    /\ shape' = [shape EXCEPT ![r] = s]
    /\ UNCHANGED <<limiterVars, phase, bucket, elapsed, raised, response, trace, key>>

----------------------------------------------------------------------------
(* The layers outside the limiter. *)

\* RequestContextMiddleware: a body past its limit, declared or streamed, is answered at once; any
\* other is read to its end before the next layer sees the request.
LimitBody(r) ==
    /\ Here(r, "request_context")
    /\ IF shape[r].body = "oversized"
       THEN Refuse(r, "request_context", "payload_too_large") ELSE Pass(r)
    /\ UNCHANGED limiterVars

\* Starlette's CORSMiddleware answers a preflight itself.
AnswerPreflight(r) ==
    /\ Here(r, "cors")
    /\ IF shape[r].isPreflight THEN Refuse(r, "cors", "preflight") ELSE Pass(r)
    /\ UNCHANGED limiterVars

----------------------------------------------------------------------------
(* The rate limiter. *)

\* RATE_LIMIT_EXEMPT_PATHS
IsExempt(r) == shape[r].path \in {"probe", "webhook"}

\* counts_against_auth_bucket and build_buckets
BucketsOf(r) == IF shape[r].path = "auth" THEN Buckets ELSE {"global"}

IsLastBucket(r) == bucket[r] = "auth" \/ BucketsOf(r) = {"global"}

SkipLimiter(r) ==
    /\ Here(r, "rate_limit") /\ IsExempt(r)
    /\ Pass(r)
    /\ UNCHANGED limiterVars

\* An auth request leaves the limiter inward, let through by this counter or by none.
LetPass(r, counter) ==
    IF shape[r].path = "auth" THEN LetThrough(counter) ELSE UNCHANGED credentials

\* find_exceeded_bucket, one round of its loop: the script answered.
CountInRedis(r) ==
    /\ Here(r, "rate_limit") /\ ~IsExempt(r) /\ server.hasRedisUrl
    /\ Increment(bucket[r])
    /\ Trace(r, "counted")
    /\ \/ /\ IsExceeded(bucket[r])
          /\ Start(r, "rate_limit", "too_many", FALSE)
          /\ UNCHANGED <<bucket, credentials>>
       \/ /\ ~IsExceeded(bucket[r]) /\ IsLastBucket(r)
          /\ Descend(r)
          /\ LetPass(r, "redis")
          /\ UNCHANGED <<phase, bucket, response>>
       \/ /\ ~IsExceeded(bucket[r]) /\ ~IsLastBucket(r)
          /\ bucket' = [bucket EXCEPT ![r] = "auth"]
          /\ UNCHANGED <<at, phase, response, credentials>>
    /\ UNCHANGED <<server, memory, shape, elapsed, raised, key>>

\* serve_or_refuse_from_memory, and find_exceeded_bucket without a Redis: every bucket at once.
CountLocally(r) ==
    /\ CountInMemory(BucketsOf(r))
    /\ Trace(r, "counted")
    /\ \/ /\ IsRefusedFromMemory(BucketsOf(r))
          /\ Start(r, "rate_limit", "too_many", FALSE)
          /\ UNCHANGED credentials
       \/ /\ ~IsRefusedFromMemory(BucketsOf(r))
          /\ Descend(r)
          /\ LetPass(r, "memory")
          /\ UNCHANGED <<phase, response>>

\* The request goes on without having been counted by anyone.
ServeUncounted(r) ==
    /\ Descend(r)
    /\ LetPass(r, "uncounted")
    /\ UNCHANGED <<memory, phase, response, trace>>

\* Mutant: an outage leaves every path open.
HandleUnavailableOpen(r) ==
    \/ ~server.isDeployed /\ CountLocally(r)
    \/ server.isDeployed /\ ServeUncounted(r)

\* handle_unavailable
HandleUnavailable(r) ==
    \/ ~server.isDeployed /\ CountLocally(r)
    \/ /\ server.isDeployed /\ shape[r].path = "auth"
       /\ Start(r, "rate_limit", "limiter_unavailable", FALSE)
       /\ UNCHANGED <<memory, credentials, trace>>
    \/ server.isDeployed /\ shape[r].path # "auth" /\ ServeUncounted(r)

\* Redis fails or does not answer in time; it may have counted the request all the same.
LoseRedis(r) ==
    /\ Here(r, "rate_limit") /\ ~IsExempt(r) /\ server.hasRedisUrl
    /\ Increment(bucket[r]) \/ UNCHANGED redis
    /\ HandleUnavailable(r)
    /\ UNCHANGED <<server, shape, bucket, elapsed, raised, key>>

\* No REDIS_URL: a deployed server treats it as an outage, another one counts in memory.
CountWithoutRedis(r) ==
    /\ Here(r, "rate_limit") /\ ~IsExempt(r) /\ ~server.hasRedisUrl
    /\ HandleUnavailable(r)
    /\ UNCHANGED <<server, redis, shape, bucket, elapsed, raised, key>>

----------------------------------------------------------------------------
(* The layers under the deadline. *)

\* is_request_allowed: a safe method, an exempt path, or the header.
IsRequestAllowed(r) ==
    shape[r].isSafe \/ shape[r].path \in {"probe", "webhook"} \/ shape[r].hasCsrfHeader

CheckCsrfHeader(r) ==
    /\ Here(r, "csrf_guard")
    /\ IF IsRequestAllowed(r) THEN Pass(r) ELSE Refuse(r, "csrf_guard", "csrf")
    /\ UNCHANGED limiterVars

\* read_idempotency_key_header: no key, or a method that never has one; a malformed key is refused.
ReadKeyHeader(r) ==
    /\ Here(r, "idempotency")
    /\ \/ (shape[r].key = "none" \/ shape[r].isSafe) /\ Pass(r)
       \/ shape[r].key = "malformed" /\ ~shape[r].isSafe /\ Refuse(r, "idempotency", "bad_key")
    /\ UNCHANGED limiterVars

IsKeyed(r) == Here(r, "idempotency") /\ shape[r].key = "valid" /\ ~shape[r].isSafe

\* resolve_request_claim and answer_claim: nobody to claim for, a claim, a replay, or a refusal.
ResolveClaim(r) ==
    /\ IsKeyed(r)
    /\ \/ ~shape[r].isSignedIn /\ Pass(r)
       \/ /\ shape[r].isSignedIn /\ key = "free"
          /\ key' = r
          /\ Descend(r)
          /\ Trace(r, "claimed")
          /\ UNCHANGED <<phase, shape, bucket, elapsed, raised, response>>
       \/ shape[r].isSignedIn /\ key = "completed" /\ Refuse(r, "idempotency", "replay")
       \/ shape[r].isSignedIn /\ key \in Slots \cup {"settling", "stranded"}
             /\ Refuse(r, "idempotency", "in_progress")
    /\ UNCHANGED limiterVars

\* What a claim that did not come back leaves of the key: it was committed all the same, or not.
AfterLostClaim(r) ==
    {key} \cup (IF shape[r].isSignedIn /\ key = "free" THEN {"stranded"} ELSE {})

\* The database does not connect, or breaks off, while the session or the claim is resolved.
FailToResolve(r) ==
    /\ IsKeyed(r)
    /\ Start(r, "idempotency", "database_unavailable", FALSE)
    /\ key' \in AfterLostClaim(r)
    /\ UNCHANGED <<limiterVars, shape, bucket, elapsed, raised, trace>>

----------------------------------------------------------------------------
(* The route, and the handlers of its exceptions inside the chain. *)

\* ExceptionMiddleware calls the route.
EnterRoute(r) ==
    /\ Here(r, "exceptions")
    /\ Descend(r)
    /\ Trace(r, "ran")
    /\ UNCHANGED <<limiterVars, phase, shape, bucket, elapsed, raised, response, key>>

\* What the route or ExceptionMiddleware answers, and the response's own start.
Answer(r, layer, status, isByHand) ==
    /\ Here(r, "route")
    /\ Start(r, layer, status, isByHand)
    /\ UNCHANGED <<limiterVars, shape, bucket, elapsed, raised, trace, key>>

AnswerFromRoute(r) == Answer(r, "route", "ok", FALSE)

\* handle_app_error, handle_http_exception, handle_request_validation_error
HandleAppError(r) == Answer(r, "exceptions", "refused", FALSE)

\* handle_database_unavailable, and handle_dbapi_error for a lost connection
HandleDatabaseUnavailable(r) == Answer(r, "exceptions", "database_unavailable", FALSE)

\* handle_dbapi_error for any other driver error: handle_unexpected_error, but inside the chain.
HandleDriverError(r) == Answer(r, "exceptions", "internal", TRUE)

\* Any other exception leaves the route, or breaks off a response it is sending.
RaiseInRoute(r) ==
    /\ \/ Here(r, "route")
       \/ phase[r] = "sending" /\ response[r].from = Depth["route"]
    /\ at' = [at EXCEPT ![r] = Depth["route"]]
    /\ phase' = [phase EXCEPT ![r] = "raising"]
    /\ raised' = [raised EXCEPT ![r] = "exception"]
    /\ UNCHANGED <<limiterVars, shape, bucket, elapsed, response, trace, key>>

----------------------------------------------------------------------------
(* Ways out: the deadline, exceptions, the end of a response. *)

\* Mutant: the deadline bounds the response, not what leads to it.
IsUnderDeadlineOnceAnswered(r) == at[r] > Depth["timeout"] /\ phase[r] = "sending"

\* asyncio.timeout cancels what awaits inside it; an exception on its way out awaits nothing but the
\* release of a claim.
IsUnderDeadline(r) ==
    /\ at[r] > Depth["timeout"] /\ raised[r] # "timeout"
    /\ \/ phase[r] \in {"down", "sending", "settling"}
       \/ phase[r] = "raising" /\ key = r

\* A cancelled release strands its claim, a cancelled attempt to claim may have made one, and a
\* settlement, which is shielded, goes on without its request.
AfterCancellation(r) ==
    CASE phase[r] = "raising"  -> {"stranded"}
      [] phase[r] = "settling" -> {"settling"}
      [] IsKeyed(r)            -> AfterLostClaim(r)
      [] OTHER                 -> {key}

CancelAtDeadline(r) ==
    /\ IsUnderDeadline(r) /\ elapsed[r] = Timeout
    /\ phase' = [phase EXCEPT ![r] = "raising"]
    /\ raised' = [raised EXCEPT ![r] = "timeout"]
    /\ key' \in AfterCancellation(r)
    /\ UNCHANGED <<limiterVars, at, shape, bucket, elapsed, response, trace>>

\* run_claimed_request's except: release_claim_safely, which may fail, and on it goes.
ReleaseClaim(r) ==
    /\ phase[r] = "raising" /\ key = r
    /\ key' \in {"free", "stranded"}
    /\ UNCHANGED <<limiterVars, requestVars>>

\* Mutant: the layer answers before what it cancelled has let go.
CatchBeforeRelease(r, layer, status, isByHand) ==
    /\ phase[r] = "raising"
    /\ IF response[r] = NoResponse
       THEN Start(r, layer, status, isByHand) /\ UNCHANGED <<shape, bucket, elapsed, raised, trace>>
       ELSE End(r)
    /\ UNCHANGED <<limiterVars, key>>

\* Mutant: the layer answers although the response has started.
CatchAnyway(r, layer, status, isByHand) ==
    /\ phase[r] = "raising" /\ key # r
    /\ Start(r, layer, status, isByHand) /\ UNCHANGED <<shape, bucket, elapsed, raised, trace>>
    /\ UNCHANGED <<limiterVars, key>>

\* An exception has reached the layer that answers it, unless the response has already started: then
\* the connection just ends.
Catch(r, layer, status, isByHand) ==
    /\ phase[r] = "raising" /\ key # r
    /\ IF response[r] = NoResponse
       THEN Start(r, layer, status, isByHand) /\ UNCHANGED <<shape, bucket, elapsed, raised, trace>>
       ELSE End(r)
    /\ UNCHANGED <<limiterVars, key>>

\* RequestTimeoutMiddleware: 408
CatchTimeout(r) == raised[r] = "timeout" /\ Catch(r, "timeout", "timed_out", FALSE)

\* ServerErrorMiddleware: handle_unexpected_error, which sets the headers itself.
CatchException(r) == raised[r] = "exception" /\ Catch(r, "server_error", "internal", TRUE)

\* The body has been sent.  A response from inside the idempotency layer lets it settle its claim.
FinishResponse(r) ==
    /\ phase[r] = "sending"
    /\ IF key = r
       THEN /\ phase' = [phase EXCEPT ![r] = "settling"]
            /\ UNCHANGED <<at, shape, bucket, elapsed, raised, response, trace>>
       ELSE End(r)
    /\ UNCHANGED <<limiterVars, key>>

\* settle_claim: a 5xx releases, anything else is stored, either may fail.
SettleClaim(r) ==
    /\ phase[r] = "settling"
    /\ \/ key' = "stranded"
       \/ key' = "free"
             /\ response[r].status \in {"database_unavailable", "internal", "ok"}
       \/ key' = "completed" /\ response[r].status \in {"ok", "refused"}
    /\ End(r)
    /\ UNCHANGED limiterVars

----------------------------------------------------------------------------
(* Time, and what goes on without a request. *)

\* PENDING_SETTLEMENTS: the settlement of a request the deadline has ended meanwhile.
SettleAlone ==
    /\ key = "settling"
    /\ key' \in {"free", "stranded", "completed"}
    /\ UNCHANGED <<limiterVars, requestVars>>

\* A stranded claim's lease lapses; a completed one is over after its replay window.
FreeKey ==
    /\ key \in {"stranded", "completed"}
    /\ key' = "free"
    /\ UNCHANGED <<limiterVars, requestVars>>

\* Time passes, but not past the deadline of a request before it is cancelled.
Tick ==
    /\ \A r \in Slots : IsUnderDeadline(r) => elapsed[r] < Timeout
    /\ elapsed' = [r \in Slots |-> IF IsUnderDeadline(r) THEN elapsed[r] + 1 ELSE elapsed[r]]
    /\ LimiterTick
    /\ UNCHANGED <<at, phase, shape, bucket, raised, response, trace, key>>

----------------------------------------------------------------------------

LimitRate(r) == SkipLimiter(r) \/ CountInRedis(r) \/ LoseRedis(r) \/ CountWithoutRedis(r)

Guard(r) ==
    \/ AnswerPreflight(r) \/ CheckCsrfHeader(r) \/ ReadKeyHeader(r)
    \/ ResolveClaim(r) \/ FailToResolve(r) \/ EnterRoute(r)

Route(r) ==
    \/ AnswerFromRoute(r) \/ HandleAppError(r) \/ HandleDatabaseUnavailable(r)
    \/ HandleDriverError(r) \/ RaiseInRoute(r)

Leave(r) ==
    \/ CancelAtDeadline(r) \/ ReleaseClaim(r) \/ CatchTimeout(r) \/ CatchException(r)
    \/ FinishResponse(r) \/ SettleClaim(r)

\* What the chain does on its own once the body is here, whatever the route does.
Step(r) == LimitRate(r) \/ Guard(r) \/ Leave(r)

Next ==
    \/ \E r \in Slots :
        \/ \E s \in server.shapes : Arrive(r, s)
        \/ LimitBody(r) \/ Step(r) \/ Route(r)
    \/ SettleAlone
    \/ FreeKey
    \/ Tick

Spec == Init /\ [][Next]_vars

\* The event loop runs every layer and time passes.  Nothing makes a client send its body, which is
\* read outside the deadline, and nothing makes a route answer.
FairSpec == Spec /\ (\A r \in Slots : WF_vars(Step(r))) /\ WF_vars(Tick)

----------------------------------------------------------------------------
(* Properties. *)

\* How many X-Request-Id headers a response carries: CorrelationIdMiddleware appends one, and
\* handle_unexpected_error sets one by hand.
RequestIds(r) ==
    (IF Passes(response[r].from, "correlation_id") THEN 1 ELSE 0)
        + (IF response[r].isByHand THEN 1 ELSE 0)

\* SecurityHeadersMiddleware replaces what it finds; only a response outside it keeps its own.
HasSecurityHeaders(r) == Passes(response[r].from, "security_headers") \/ response[r].isByHand

\* Spec B-2 and B-35: whichever layer answers, and whatever exception or deadline led to it, the
\* response carries a request ID and the security headers.
EveryResponseIsDecorated ==
    \A r \in Slots : response[r] # NoResponse => RequestIds(r) >= 1 /\ HasSecurityHeaders(r)

\* main.py:42-45 and :161-162: a preflight is answered before any guard could refuse or count it, and
\* a cross-origin caller can read the limiter's refusal and its Retry-After.
CrossOriginCallersAreServed ==
    \A r \in Slots : response[r] # NoResponse =>
        /\ shape[r].isPreflight =>
             response[r].status \in {"preflight", "payload_too_large"} /\ trace[r] = {}
        /\ shape[r].isCrossOrigin /\ response[r].status \in {"too_many", "limiter_unavailable"} =>
             Passes(response[r].from, "cors")

\* main.py:152-156, spec B-6, B-43: a request some guard refuses has claimed no key and run no route,
\* and an oversized one has not even been counted.
RefusedRequestsLeaveNoTrace ==
    \A r \in Slots :
        /\ response[r].status = "payload_too_large" => trace[r] = {}
        /\ response[r].status \in {"too_many", "limiter_unavailable", "csrf", "bad_key",
                                  "in_progress", "replay"} => trace[r] \subseteq {"counted"}

\* Spec B-8 and B-18: a claim is held only by a request still at work inside the idempotency layer,
\* so an answer given further out, a 408 or a 500, leaves neither a running handler nor a live claim;
\* all that outlives a request is the settlement of a response that was already sent.
HeldClaimHasRequest ==
    key \in Slots =>
        at[key] > Depth["idempotency"] /\ "claimed" \in trace[key] /\ shape[key].isSignedIn

\* Spec B-7 and the outage policy: in one window of a counter no more credential requests pass it
\* than the limit, whatever Redis loses or forgets to answer and however requests interleave; a
\* deployed server never lets one pass uncounted or counted by one replica alone.
AuthLimitHolds ==
    /\ credentials["redis"] <= AuthLimit /\ credentials["memory"] <= AuthLimit
    /\ credentials["uncounted"] = 0
    /\ server.isDeployed => credentials["memory"] = 0

\* middleware/request_timeout.py:59-62: a response that has started is never replaced, neither by
\* the 408 of a deadline nor by the 500 of an exception that comes too late.
AnsweredOnce ==
    [][\A r \in Slots : response[r] # NoResponse => response'[r] \in {response[r], NoResponse}]_vars

\* Spec B-8: every request whose body has arrived ends, even if its route never answers and Redis
\* never does.
EveryRequestEnds == \A r \in Slots : at[r] > Depth["request_context"] ~> at[r] = 0

\* middleware/rate_limit.py:57-59: a client that never pauses is not locked out for good, since a
\* window runs from its first request and ends.
EveryWindowEnds == \A b \in Buckets : []<>(redis[b].count = 0)
=============================================================================
