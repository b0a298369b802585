----------------------- MODULE RequestPipeline_proofs -----------------------
(***************************************************************************)
(* Machine-checked proofs about RequestPipeline, for any number of         *)
(* requests, any limits and any deadline: what the order of the layers     *)
(* promises of every response, the limit on credential attempts, and the   *)
(* claim that is only held by a request still at work.                     *)
(***************************************************************************)
EXTENDS RequestPipeline, TLAPS

\* Where a request that travels inward may stop, and where it stops next.
Stops == {4, 5, 6, 8, 9, 10, 11}

NextStop(depth) ==
    IF depth = 0 THEN 4 ELSE IF depth = 6 THEN 8 ELSE depth + 1

\* A free slot has nothing of a request, a request on its way in has answered nothing, and a
\* response is sent from where it started.
SlotsAreWhole ==
    \A r \in Slots :
        /\ at[r] = 0 => phase[r] = "down" /\ trace[r] = {} /\ bucket[r] = "global"
        /\ at[r] # 0 => shape[r] \in Shapes
        /\ phase[r] = "down" => at[r] \in Stops \cup {0} /\ response[r] = NoResponse
        /\ phase[r] = "sending" => response[r].from = at[r]
        /\ phase[r] = "raising" => at[r] > Depth["timeout"]

\* What a request has done by the time it is this deep.
TraceFollowsDepth ==
    \A r \in Slots : phase[r] = "down" =>
        /\ at[r] <= Depth["cors"] => trace[r] = {}
        /\ at[r] <= Depth["idempotency"] => trace[r] \subseteq {"counted"}

PreflightsStayOutside ==
    \A r \in Slots : at[r] # 0 /\ shape[r].isPreflight =>
        at[r] <= Depth["cors"] /\ phase[r] \in {"down", "sending"} /\ trace[r] = {}

\* The limiter turns to the auth bucket only for an auth request.
AuthBucketIsForAuth == \A r \in Slots : bucket[r] = "auth" => shape[r].path = "auth"

SlotInv ==
    /\ PipelineTypeOK /\ SlotsAreWhole /\ TraceFollowsDepth /\ PreflightsStayOutside
    /\ AuthBucketIsForAuth /\ EveryResponseIsDecorated /\ CrossOriginCallersAreServed
    /\ RefusedRequestsLeaveNoTrace /\ HeldClaimHasRequest

\* A counter has counted every credential request it let through.
CountersCoverCredentials ==
    /\ \A b \in Buckets :
        /\ redis[b].count <= Limit(b) /\ memory[b].count <= Limit(b)
        /\ redis[b].ttl = 0 => redis[b].count = 0
    /\ credentials["redis"] <= redis["auth"].count
    /\ memory["auth"].count > 0 => credentials["memory"] <= memory["auth"].count

LimiterInv == LimiterTypeOK /\ CountersCoverCredentials /\ AuthLimitHolds

IInv == server \in Servers /\ SlotInv /\ LimiterInv

----------------------------------------------------------------------------

\* The layers' places, one by one.
LEMMA DepthIs ==
    /\ Depth["server_error"] = 1 /\ Depth["security_headers"] = 2
    /\ Depth["correlation_id"] = 3 /\ Depth["request_context"] = 4
    /\ Depth["cors"] = 5 /\ Depth["rate_limit"] = 6 /\ Depth["timeout"] = 7
    /\ Depth["csrf_guard"] = 8 /\ Depth["idempotency"] = 9
    /\ Depth["exceptions"] = 10 /\ Depth["route"] = 11
BY DEF Depth

\* The layers that decide.
LEMMA DecidingAreStops == Deciding = Stops
BY DEF Deciding, Watching, Depth, Stops

\* A request that descends goes to the next stop inward.
LEMMA DescendIsNextStop ==
    ASSUME NEW r \in Slots, at[r] \in (Stops \cup {0}) \ {11}, Descend(r)
    PROVE  at' = [at EXCEPT ![r] = NextStop(at[r])] /\ NextStop(at[r]) \in Stops
<1>1. PICK d \in Stops : Inward(at[r], d) /\ at' = [at EXCEPT ![r] = d]
  BY DecidingAreStops DEF Descend
<1>2. at[r] < d /\ \A e \in Stops : at[r] < e => d <= e
  BY <1>1, DecidingAreStops DEF Inward
<1>3. NextStop(at[r]) \in Stops /\ at[r] < NextStop(at[r])
  BY DEF NextStop, Stops
<1>4. d <= NextStop(at[r])
  BY <1>2, <1>3
<1>5. d = NextStop(at[r])
  BY <1>2, <1>4 DEF NextStop, Stops
<1> QED BY <1>1, <1>3, <1>5

\* What each layer may refuse with, instead of calling the next one.
Refuses(layer, status) ==
    \/ layer = "request_context" /\ status = "payload_too_large"
    \/ layer = "cors" /\ status = "preflight"
    \/ layer = "rate_limit" /\ status \in {"too_many", "limiter_unavailable"}
    \/ layer = "csrf_guard" /\ status = "csrf"
    \/ /\ layer = "idempotency"
       /\ status \in {"bad_key", "in_progress", "replay", "database_unavailable"}

\* Only the limiter marks a request as counted.
Counts(r, t) == t = trace[r] \/ (at[r] = Depth["rate_limit"] /\ t = trace[r] \cup {"counted"})

\* A request that goes on inward, counted by the limiter or not.
LEMMA DescentKeeps ==
    ASSUME SlotInv, NEW r \in Slots, NEW t, phase[r] = "down", at[r] \in {4, 5, 6, 8, 9},
           at[r] = 5 => ~shape[r].isPreflight,
           Descend(r), Counts(r, t), trace' = [trace EXCEPT ![r] = t],
           UNCHANGED <<phase, shape, bucket, elapsed, raised, response, key>>
    PROVE  SlotInv'
<1> USE DEF SlotInv, Counts
<1>a. /\ at' = [at EXCEPT ![r] = NextStop(at[r])] /\ NextStop(at[r]) \in Stops
      /\ at[r] \in Nat /\ NextStop(at[r]) \in 0..11 /\ at[r] < NextStop(at[r])
  BY DescendIsNextStop DEF Stops, NextStop
<1>1. PipelineTypeOK'
  BY <1>a DEF PipelineTypeOK
<1>2. SlotsAreWhole'
  BY <1>a DEF SlotsAreWhole
<1>3. TraceFollowsDepth'
  BY DepthIs, <1>a DEF TraceFollowsDepth
<1>4. PreflightsStayOutside'
  <2> SUFFICES ASSUME NEW q \in Slots, at'[q] # 0, shape'[q].isPreflight
               PROVE  at'[q] <= 5 /\ phase'[q] \in {"down", "sending"} /\ trace'[q] = {}
    BY DepthIs DEF PreflightsStayOutside
  <2>1. at[q] # 0 /\ shape[q].isPreflight
    BY <1>a DEF PipelineTypeOK
  <2>2. at[q] <= 5 /\ phase[q] \in {"down", "sending"} /\ trace[q] = {}
    BY <2>1, DepthIs DEF PreflightsStayOutside
  <2>3. q = r => at[q] = 4
    BY <2>1, <2>2
  <2> QED BY <1>a, <2>2, DepthIs DEF NextStop
<1>5. CrossOriginCallersAreServed'
  BY DEF CrossOriginCallersAreServed, SlotsAreWhole
<1>6. RefusedRequestsLeaveNoTrace'
  BY DEF RefusedRequestsLeaveNoTrace, SlotsAreWhole, NoResponse
<1>7. HeldClaimHasRequest'
  BY DepthIs, <1>a DEF HeldClaimHasRequest
<1>8. AuthBucketIsForAuth' /\ EveryResponseIsDecorated'
  BY DEF AuthBucketIsForAuth, EveryResponseIsDecorated, RequestIds, HasSecurityHeaders
<1> QED BY <1>1, <1>2, <1>3, <1>4, <1>5, <1>6, <1>7, <1>8

\* A layer that answers instead of calling the next one, also one whose attempt to claim failed.
LEMMA RefusalKeeps ==
    ASSUME SlotInv, NEW r \in Slots, NEW layer, NEW status, NEW t,
           Here(r, layer), Refuses(layer, status),
           Start(r, layer, status, FALSE), Counts(r, t), trace' = [trace EXCEPT ![r] = t],
           key' \in {key, "stranded"},
           UNCHANGED <<shape, bucket, elapsed, raised>>
    PROVE  SlotInv'
<1> USE DEF SlotInv, Here, Refuses, Start, Counts
<1>1. PipelineTypeOK'
  BY DEF PipelineTypeOK, Responses, Statuses
<1>2. SlotsAreWhole'
  BY DepthIs DEF SlotsAreWhole, PipelineTypeOK
<1>3. TraceFollowsDepth'
  BY DepthIs DEF TraceFollowsDepth
<1>4. PreflightsStayOutside'
  BY DepthIs DEF PreflightsStayOutside
<1>5. EveryResponseIsDecorated'
  <2> SUFFICES ASSUME NEW q \in Slots, response'[q] # NoResponse
               PROVE  (RequestIds(q) >= 1 /\ HasSecurityHeaders(q))'
    BY DEF EveryResponseIsDecorated
  <2>1. CASE q = r
    <3>1. response'[q].from \in 4..11 /\ response'[q].isByHand \in BOOLEAN
      BY <2>1, DepthIs DEF PipelineTypeOK
    <3> QED BY <3>1, DepthIs DEF RequestIds, HasSecurityHeaders, Passes
  <2>2. CASE q # r
    <3>1. response'[q] = response[q]
      BY <2>2 DEF PipelineTypeOK
    <3> QED BY <3>1 DEF EveryResponseIsDecorated, RequestIds, HasSecurityHeaders
  <2> QED BY <2>1, <2>2
<1>6. CrossOriginCallersAreServed'
  <2> SUFFICES ASSUME NEW q \in Slots, response'[q] # NoResponse
               PROVE  /\ shape'[q].isPreflight =>
                           /\ response'[q].status \in {"preflight", "payload_too_large"}
                           /\ trace'[q] = {}
                      /\ shape'[q].isCrossOrigin
                           /\ response'[q].status \in {"too_many", "limiter_unavailable"} =>
                           response'[q].from > 5
    BY DepthIs DEF CrossOriginCallersAreServed, Passes
  <2>1. CASE q = r
    <3>1. shape[r].isPreflight => at[r] \in {4, 5} /\ trace[r] = {}
      BY DepthIs DEF PreflightsStayOutside
    <3>2. response'[r].status = status /\ response'[r].from = Depth[layer]
      BY DEF PipelineTypeOK
    <3>3. trace'[r] = t /\ shape'[r] = shape[r] /\ (at[r] # 6 => t = trace[r])
      BY DepthIs DEF PipelineTypeOK
    <3> QED BY <2>1, <3>1, <3>2, DepthIs
  <2>2. CASE q # r
    <3>1. response'[q] = response[q] /\ shape'[q] = shape[q] /\ trace'[q] = trace[q]
      BY <2>2 DEF PipelineTypeOK
    <3> QED BY <3>1, DepthIs DEF CrossOriginCallersAreServed, Passes
  <2> QED BY <2>1, <2>2
<1>7. RefusedRequestsLeaveNoTrace'
  BY DepthIs DEF RefusedRequestsLeaveNoTrace, PipelineTypeOK, TraceFollowsDepth
<1>8. HeldClaimHasRequest'
  <2> SUFFICES ASSUME key' \in Slots
               PROVE  (/\ at[key] > 9 /\ "claimed" \in trace[key] /\ shape[key].isSignedIn)'
    BY DepthIs DEF HeldClaimHasRequest
  <2>1. key' = key
    BY PipelineAssumption
  <2>2. key # r
    BY <2>1, DepthIs DEF HeldClaimHasRequest
  <2> QED BY <2>1, <2>2, DepthIs DEF HeldClaimHasRequest, PipelineTypeOK
<1>9. AuthBucketIsForAuth'
  BY DEF AuthBucketIsForAuth
<1> QED BY <1>1, <1>2, <1>3, <1>4, <1>5, <1>6, <1>7, <1>8, <1>9

\* The route or its exception handlers answer.
LEMMA AnswerKeeps ==
    ASSUME SlotInv, NEW r \in Slots, NEW layer \in {"route", "exceptions"},
           NEW isByHand \in BOOLEAN,
           NEW status \in {"ok", "refused", "database_unavailable", "internal"},
           Answer(r, layer, status, isByHand)
    PROVE  SlotInv'
<1> USE DEF SlotInv, Answer, Here, Start, limiterVars
<1>1. PipelineTypeOK'
  BY DepthIs DEF PipelineTypeOK, Responses, Statuses
<1>2. SlotsAreWhole'
  BY DepthIs DEF SlotsAreWhole, PipelineTypeOK
<1>3. TraceFollowsDepth'
  BY DepthIs DEF TraceFollowsDepth
<1>4. PreflightsStayOutside'
  BY DepthIs DEF PreflightsStayOutside
<1>5. EveryResponseIsDecorated'
  <2> SUFFICES ASSUME NEW q \in Slots, response'[q] # NoResponse
               PROVE  (RequestIds(q) >= 1 /\ HasSecurityHeaders(q))'
    BY DEF EveryResponseIsDecorated
  <2>1. CASE q = r
    <3>1. response'[q].from \in 4..11 /\ response'[q].isByHand \in BOOLEAN
      BY <2>1, DepthIs DEF PipelineTypeOK
    <3> QED BY <3>1, DepthIs DEF RequestIds, HasSecurityHeaders, Passes
  <2>2. CASE q # r
    <3>1. response'[q] = response[q]
      BY <2>2 DEF PipelineTypeOK
    <3> QED BY <3>1 DEF EveryResponseIsDecorated, RequestIds, HasSecurityHeaders
  <2> QED BY <2>1, <2>2
<1>6. CrossOriginCallersAreServed'
  <2> SUFFICES ASSUME NEW q \in Slots, response'[q] # NoResponse
               PROVE  /\ shape'[q].isPreflight =>
                           /\ response'[q].status \in {"preflight", "payload_too_large"}
                           /\ trace'[q] = {}
                      /\ shape'[q].isCrossOrigin
                           /\ response'[q].status \in {"too_many", "limiter_unavailable"} =>
                           response'[q].from > 5
    BY DEF CrossOriginCallersAreServed
  <2>1. CASE q = r
    <3>1. ~shape[r].isPreflight
      BY DepthIs DEF PreflightsStayOutside
    <3>2. response'[r].status = status /\ shape'[r] = shape[r]
      BY DEF PipelineTypeOK
    <3> QED BY <2>1, <3>1, <3>2
  <2>2. CASE q # r
    <3>1. response'[q] = response[q] /\ shape'[q] = shape[q] /\ trace'[q] = trace[q]
      BY <2>2 DEF PipelineTypeOK
    <3> QED BY <3>1, DepthIs DEF CrossOriginCallersAreServed, Passes
  <2> QED BY <2>1, <2>2
<1>7. RefusedRequestsLeaveNoTrace'
  BY DEF RefusedRequestsLeaveNoTrace
<1>8. HeldClaimHasRequest'
  BY DepthIs DEF HeldClaimHasRequest
<1>9. AuthBucketIsForAuth'
  BY DEF AuthBucketIsForAuth
<1> QED BY <1>1, <1>2, <1>3, <1>4, <1>5, <1>6, <1>7, <1>8, <1>9

\* A request that ends leaves a free slot, and no claim of its own.
LEMMA EndKeeps ==
    ASSUME SlotInv, NEW r \in Slots, End(r),
           key' # r, key' \in {key, "free", "stranded", "completed"}
    PROVE  SlotInv'
<1> USE DEF SlotInv, End, NoResponse
<1>1. PipelineTypeOK'
  BY PipelineAssumption DEF PipelineTypeOK, Buckets, Responses
<1>2. SlotsAreWhole'
  BY DEF SlotsAreWhole, PipelineTypeOK
<1>3. TraceFollowsDepth'
  BY DEF TraceFollowsDepth, PipelineTypeOK
<1>4. PreflightsStayOutside'
  BY DEF PreflightsStayOutside, PipelineTypeOK
<1>5. AuthBucketIsForAuth'
  BY DEF AuthBucketIsForAuth, PipelineTypeOK
<1>6. EveryResponseIsDecorated'
  BY DEF EveryResponseIsDecorated, RequestIds, HasSecurityHeaders
<1>7. CrossOriginCallersAreServed'
  <2> SUFFICES ASSUME NEW q \in Slots, response'[q] # NoResponse
               PROVE  /\ shape'[q].isPreflight =>
                           /\ response'[q].status \in {"preflight", "payload_too_large"}
                           /\ trace'[q] = {}
                      /\ shape'[q].isCrossOrigin
                           /\ response'[q].status \in {"too_many", "limiter_unavailable"} =>
                           response'[q].from > 5
    BY DepthIs DEF CrossOriginCallersAreServed, Passes
  <2>1. CASE q = r
    <3> QED BY <2>1 DEF PipelineTypeOK
  <2>2. CASE q # r
    <3>1. response'[q] = response[q] /\ shape'[q] = shape[q] /\ trace'[q] = trace[q]
      BY <2>2 DEF PipelineTypeOK
    <3> QED BY <3>1, DepthIs DEF CrossOriginCallersAreServed, Passes
  <2> QED BY <2>1, <2>2
<1>8. RefusedRequestsLeaveNoTrace'
  BY DEF RefusedRequestsLeaveNoTrace
<1>9. HeldClaimHasRequest'
  BY PipelineAssumption DEF HeldClaimHasRequest
<1> QED BY <1>1, <1>2, <1>3, <1>4, <1>5, <1>6, <1>7, <1>8, <1>9

\* A request that arrives brings nothing but its shape.
LEMMA ArriveKeeps ==
    ASSUME SlotInv, server \in Servers, NEW s \in server.shapes, NEW r \in Slots, Arrive(r, s)
    PROVE  SlotInv'
<1> USE DEF SlotInv, Arrive, limiterVars
<1>a. /\ at' = [at EXCEPT ![r] = NextStop(at[r])] /\ NextStop(at[r]) \in Stops
      /\ at[r] \in Nat /\ NextStop(at[r]) \in 0..11 /\ at[r] < NextStop(at[r])
  BY DescendIsNextStop DEF Stops
<1>1. PipelineTypeOK'
  BY <1>a, PipelineAssumption DEF PipelineTypeOK
<1>2. SlotsAreWhole'
  BY <1>a, PipelineAssumption DEF SlotsAreWhole, PipelineTypeOK
<1>3. TraceFollowsDepth'
  BY DepthIs, <1>a DEF TraceFollowsDepth
<1>4. PreflightsStayOutside'
  <2> SUFFICES ASSUME NEW q \in Slots, at'[q] # 0, shape'[q].isPreflight
               PROVE  at'[q] <= 5 /\ phase'[q] \in {"down", "sending"} /\ trace'[q] = {}
    BY DepthIs DEF PreflightsStayOutside
  <2>1. CASE q = r
    BY <1>a, <2>1 DEF NextStop, SlotsAreWhole
  <2>2. CASE q # r
    <3>1. at[q] # 0 /\ shape[q].isPreflight
      BY <1>a, <2>2
    <3> QED BY <1>a, <2>2, DepthIs DEF PreflightsStayOutside
  <2> QED BY <2>1, <2>2
<1>5. AuthBucketIsForAuth'
  BY DEF AuthBucketIsForAuth, SlotsAreWhole
<1>6. CrossOriginCallersAreServed'
  BY DEF CrossOriginCallersAreServed, SlotsAreWhole
<1>7. HeldClaimHasRequest'
  BY DepthIs, <1>a DEF HeldClaimHasRequest
<1>8. EveryResponseIsDecorated' /\ RefusedRequestsLeaveNoTrace'
  BY DEF EveryResponseIsDecorated, RequestIds, HasSecurityHeaders, RefusedRequestsLeaveNoTrace
<1> QED BY <1>1, <1>2, <1>3, <1>4, <1>5, <1>6, <1>7, <1>8

\* A claim is taken by a signed-in request on its way in.
LEMMA ClaimKeeps ==
    ASSUME SlotInv, NEW r \in Slots, IsKeyed(r), shape[r].isSignedIn, key' = r,
           Descend(r), Trace(r, "claimed"),
           UNCHANGED <<phase, shape, bucket, elapsed, raised, response>>
    PROVE  SlotInv'
<1> USE DEF SlotInv, IsKeyed, Here, Trace
<1>a. /\ at' = [at EXCEPT ![r] = NextStop(at[r])] /\ NextStop(at[r]) \in Stops
      /\ at[r] \in Nat /\ NextStop(at[r]) \in 0..11 /\ at[r] < NextStop(at[r])
  BY DepthIs, DescendIsNextStop DEF Stops, NextStop
<1>1. PipelineTypeOK'
  BY <1>a DEF PipelineTypeOK
<1>2. SlotsAreWhole'
  BY DepthIs, <1>a DEF SlotsAreWhole
<1>3. TraceFollowsDepth'
  BY DepthIs, <1>a DEF TraceFollowsDepth, PipelineTypeOK
<1>4. PreflightsStayOutside'
  BY DepthIs, <1>a DEF PreflightsStayOutside
<1>5. CrossOriginCallersAreServed'
  BY DEF CrossOriginCallersAreServed, SlotsAreWhole
<1>6. RefusedRequestsLeaveNoTrace'
  BY DEF RefusedRequestsLeaveNoTrace, SlotsAreWhole, NoResponse
<1>7. HeldClaimHasRequest'
  BY <1>a DEF HeldClaimHasRequest, PipelineTypeOK
<1>8. AuthBucketIsForAuth' /\ EveryResponseIsDecorated'
  BY DEF AuthBucketIsForAuth, EveryResponseIsDecorated, RequestIds, HasSecurityHeaders
<1> QED BY <1>1, <1>2, <1>3, <1>4, <1>5, <1>6, <1>7, <1>8

\* The route is called.
LEMMA EnterRouteKeeps ==
    ASSUME SlotInv, NEW r \in Slots, EnterRoute(r)
    PROVE  SlotInv'
<1> USE DEF SlotInv, EnterRoute, Here, Trace, limiterVars
<1>a. /\ at' = [at EXCEPT ![r] = NextStop(at[r])] /\ NextStop(at[r]) \in Stops
      /\ at[r] \in Nat /\ NextStop(at[r]) \in 0..11 /\ at[r] < NextStop(at[r])
  BY DepthIs, DescendIsNextStop DEF Stops, NextStop
<1>1. PipelineTypeOK'
  BY <1>a DEF PipelineTypeOK
<1>2. SlotsAreWhole'
  BY DepthIs, <1>a DEF SlotsAreWhole
<1>3. TraceFollowsDepth'
  BY DepthIs, <1>a DEF TraceFollowsDepth
<1>4. PreflightsStayOutside'
  BY DepthIs, <1>a DEF PreflightsStayOutside
<1>5. CrossOriginCallersAreServed'
  BY DEF CrossOriginCallersAreServed, SlotsAreWhole
<1>6. RefusedRequestsLeaveNoTrace'
  BY DEF RefusedRequestsLeaveNoTrace, SlotsAreWhole, NoResponse
<1>7. HeldClaimHasRequest'
  BY DepthIs, <1>a DEF HeldClaimHasRequest
<1>8. AuthBucketIsForAuth' /\ EveryResponseIsDecorated'
  BY DEF AuthBucketIsForAuth, EveryResponseIsDecorated, RequestIds, HasSecurityHeaders
<1> QED BY <1>1, <1>2, <1>3, <1>4, <1>5, <1>6, <1>7, <1>8

\* The limiter turns to the auth bucket.
LEMMA TurnToAuthKeeps ==
    ASSUME SlotInv, NEW r \in Slots, Here(r, "rate_limit"), ~IsLastBucket(r),
           Trace(r, "counted"), bucket' = [bucket EXCEPT ![r] = "auth"],
           UNCHANGED <<at, phase, shape, elapsed, raised, response, key>>
    PROVE  SlotInv'
<1> USE DEF SlotInv, Here, Trace, IsLastBucket, BucketsOf, Buckets
<1>1. PipelineTypeOK'
  BY DEF PipelineTypeOK
<1>2. SlotsAreWhole'
  BY DepthIs DEF SlotsAreWhole
<1>3. TraceFollowsDepth'
  BY DepthIs DEF TraceFollowsDepth
<1>4. PreflightsStayOutside'
  BY DepthIs DEF PreflightsStayOutside
<1>5. AuthBucketIsForAuth'
  BY DEF AuthBucketIsForAuth
<1>6. CrossOriginCallersAreServed'
  BY DEF CrossOriginCallersAreServed, SlotsAreWhole
<1>7. RefusedRequestsLeaveNoTrace'
  BY DEF RefusedRequestsLeaveNoTrace, SlotsAreWhole, NoResponse
<1>8. HeldClaimHasRequest'
  BY DEF HeldClaimHasRequest
<1>9. EveryResponseIsDecorated'
  BY DEF EveryResponseIsDecorated, RequestIds, HasSecurityHeaders
<1> QED BY <1>1, <1>2, <1>3, <1>4, <1>5, <1>6, <1>7, <1>8, <1>9

\* An exception leaves the route.
LEMMA RaiseInRouteKeeps ==
    ASSUME SlotInv, NEW r \in Slots, RaiseInRoute(r)
    PROVE  SlotInv'
<1> USE DEF SlotInv, RaiseInRoute, Here, limiterVars
<1>1. PipelineTypeOK'
  BY DepthIs DEF PipelineTypeOK
<1>2. SlotsAreWhole'
  BY DepthIs DEF SlotsAreWhole
<1>3. TraceFollowsDepth'
  BY DEF TraceFollowsDepth
<1>4. PreflightsStayOutside'
  <2> SUFFICES ASSUME NEW q \in Slots, at'[q] # 0, shape'[q].isPreflight
               PROVE  at'[q] <= 5 /\ phase'[q] \in {"down", "sending"} /\ trace'[q] = {}
    BY DepthIs DEF PreflightsStayOutside
  <2>1. at[r] = 11
    BY DepthIs DEF SlotsAreWhole
  <2>2. ~shape[r].isPreflight
    BY <2>1, DepthIs DEF PreflightsStayOutside
  <2>3. q # r /\ at[q] # 0 /\ shape[q].isPreflight
    BY <2>2 DEF PipelineTypeOK
  <2> QED BY <2>3, DepthIs DEF PreflightsStayOutside
<1>5. HeldClaimHasRequest'
  BY DepthIs DEF HeldClaimHasRequest
<1>6. /\ AuthBucketIsForAuth' /\ EveryResponseIsDecorated' /\ CrossOriginCallersAreServed'
      /\ RefusedRequestsLeaveNoTrace'
  BY DEF AuthBucketIsForAuth, EveryResponseIsDecorated, RequestIds, HasSecurityHeaders,
     CrossOriginCallersAreServed, RefusedRequestsLeaveNoTrace
<1> QED BY <1>1, <1>2, <1>3, <1>4, <1>5, <1>6

\* The deadline turns a request back, and takes a claim from it that is being made, released or
\* settled.
LEMMA CancelKeeps ==
    ASSUME SlotInv, NEW r \in Slots, CancelAtDeadline(r)
    PROVE  SlotInv'
<1> USE DEF SlotInv, CancelAtDeadline, IsUnderDeadline, limiterVars
<1>a. key' \in {key, "stranded", "settling"}
  BY DEF AfterCancellation, AfterLostClaim
<1>1. PipelineTypeOK'
  BY <1>a DEF PipelineTypeOK
<1>2. SlotsAreWhole'
  BY DepthIs DEF SlotsAreWhole
<1>3. TraceFollowsDepth'
  BY DEF TraceFollowsDepth
<1>4. PreflightsStayOutside'
  BY DepthIs DEF PreflightsStayOutside, PipelineTypeOK
<1>5. HeldClaimHasRequest'
  BY <1>a, PipelineAssumption DEF HeldClaimHasRequest
<1>6. /\ AuthBucketIsForAuth' /\ EveryResponseIsDecorated' /\ CrossOriginCallersAreServed'
      /\ RefusedRequestsLeaveNoTrace'
  BY DEF AuthBucketIsForAuth, EveryResponseIsDecorated, RequestIds, HasSecurityHeaders,
     CrossOriginCallersAreServed, RefusedRequestsLeaveNoTrace
<1> QED BY <1>1, <1>2, <1>3, <1>4, <1>5, <1>6

\* A claim is released, or stranded.
LEMMA ReleaseClaimKeeps ==
    ASSUME SlotInv, NEW r \in Slots, ReleaseClaim(r)
    PROVE  SlotInv'
<1> USE DEF SlotInv, ReleaseClaim, limiterVars, requestVars
<1>1. PipelineTypeOK'
  BY DEF PipelineTypeOK
<1>2. HeldClaimHasRequest'
  BY PipelineAssumption DEF HeldClaimHasRequest
<1>3. /\ SlotsAreWhole' /\ TraceFollowsDepth' /\ PreflightsStayOutside' /\ AuthBucketIsForAuth'
      /\ EveryResponseIsDecorated' /\ CrossOriginCallersAreServed' /\ RefusedRequestsLeaveNoTrace'
  BY DEF SlotsAreWhole, TraceFollowsDepth, PreflightsStayOutside, AuthBucketIsForAuth,
     EveryResponseIsDecorated, RequestIds, HasSecurityHeaders, CrossOriginCallersAreServed,
     RefusedRequestsLeaveNoTrace
<1> QED BY <1>1, <1>2, <1>3

\* The layer an exception has reached answers, if nothing has been answered yet.
LEMMA LateAnswerKeeps ==
    ASSUME SlotInv, NEW r \in Slots, NEW layer, NEW status, NEW isByHand \in BOOLEAN,
           phase[r] = "raising", response[r] = NoResponse, key # r,
           Start(r, layer, status, isByHand),
           UNCHANGED <<shape, bucket, elapsed, raised, trace, key>>,
           \/ layer = "timeout" /\ status = "timed_out" /\ ~isByHand
           \/ layer = "server_error" /\ status = "internal" /\ isByHand
    PROVE  SlotInv'
<1> USE DEF SlotInv, Start
<1>a. response' = [response EXCEPT ![r] =
                      [status |-> status, from |-> Depth[layer], isByHand |-> isByHand]]
      /\ [status |-> status, from |-> Depth[layer], isByHand |-> isByHand] \in Responses
  BY DepthIs DEF Responses, Statuses
<1>b. Depth[layer] \in {1, 7}
  BY DepthIs
<1>1. PipelineTypeOK'
  BY <1>a, <1>b DEF PipelineTypeOK
<1>2. SlotsAreWhole'
  BY DepthIs DEF SlotsAreWhole, PipelineTypeOK
<1>3. TraceFollowsDepth'
  BY DEF TraceFollowsDepth
<1>4. PreflightsStayOutside'
  BY DEF PreflightsStayOutside, SlotsAreWhole
<1>5. EveryResponseIsDecorated'
  <2> SUFFICES ASSUME NEW q \in Slots, response'[q] # NoResponse
               PROVE  (RequestIds(q) >= 1 /\ HasSecurityHeaders(q))'
    BY DEF EveryResponseIsDecorated
  <2>1. CASE q = r
    <3>1. response'[q].from = Depth[layer] /\ response'[q].isByHand = isByHand
      BY <2>1
    <3> QED BY <3>1, DepthIs DEF RequestIds, HasSecurityHeaders, Passes
  <2>2. CASE q # r
    <3>1. response'[q] = response[q]
      BY <2>2 DEF PipelineTypeOK
    <3> QED BY <3>1 DEF EveryResponseIsDecorated, RequestIds, HasSecurityHeaders
  <2> QED BY <2>1, <2>2
<1>6. CrossOriginCallersAreServed'
  <2> SUFFICES ASSUME NEW q \in Slots, response'[q] # NoResponse
               PROVE  /\ shape'[q].isPreflight =>
                           /\ response'[q].status \in {"preflight", "payload_too_large"}
                           /\ trace'[q] = {}
                      /\ shape'[q].isCrossOrigin
                           /\ response'[q].status \in {"too_many", "limiter_unavailable"} =>
                           response'[q].from > 5
    BY DEF CrossOriginCallersAreServed
  <2>1. CASE q = r
    <3>1. ~shape[r].isPreflight
      BY DEF PreflightsStayOutside, SlotsAreWhole
    <3>2. response'[r].status \in {"timed_out", "internal"} /\ shape'[r] = shape[r]
      BY DEF PipelineTypeOK
    <3> QED BY <2>1, <3>1
  <2>2. CASE q # r
    <3>1. response'[q] = response[q] /\ shape'[q] = shape[q] /\ trace'[q] = trace[q]
      BY <2>2 DEF PipelineTypeOK
    <3> QED BY <3>1, DepthIs DEF CrossOriginCallersAreServed, Passes
  <2> QED BY <2>1, <2>2
<1>7. RefusedRequestsLeaveNoTrace'
  BY DEF RefusedRequestsLeaveNoTrace
<1>8. HeldClaimHasRequest'
  BY DEF HeldClaimHasRequest
<1>9. AuthBucketIsForAuth'
  BY DEF AuthBucketIsForAuth
<1> QED BY <1>1, <1>2, <1>3, <1>4, <1>5, <1>6, <1>7, <1>8, <1>9

\* A response that has been sent leaves its claim to be settled.
LEMMA SettlingKeeps ==
    ASSUME SlotInv, NEW r \in Slots, phase[r] = "sending", key = r,
           phase' = [phase EXCEPT ![r] = "settling"],
           UNCHANGED <<at, shape, bucket, elapsed, raised, response, trace, key>>
    PROVE  SlotInv'
<1> USE DEF SlotInv
<1>1. PipelineTypeOK'
  BY DEF PipelineTypeOK
<1>2. SlotsAreWhole'
  BY DEF SlotsAreWhole
<1>3. TraceFollowsDepth'
  BY DEF TraceFollowsDepth
<1>4. PreflightsStayOutside'
  <2> SUFFICES ASSUME NEW q \in Slots, at'[q] # 0, shape'[q].isPreflight
               PROVE  at'[q] <= 5 /\ phase'[q] \in {"down", "sending"} /\ trace'[q] = {}
    BY DepthIs DEF PreflightsStayOutside
  <2>1. ~shape[r].isPreflight
    BY DepthIs DEF PreflightsStayOutside, HeldClaimHasRequest
  <2>2. q # r /\ at[q] # 0 /\ shape[q].isPreflight
    BY <2>1 DEF PipelineTypeOK
  <2> QED BY <2>2, DepthIs DEF PreflightsStayOutside
<1>5. /\ AuthBucketIsForAuth' /\ EveryResponseIsDecorated' /\ CrossOriginCallersAreServed'
      /\ RefusedRequestsLeaveNoTrace' /\ HeldClaimHasRequest'
  BY DEF AuthBucketIsForAuth, EveryResponseIsDecorated, RequestIds, HasSecurityHeaders,
     CrossOriginCallersAreServed, RefusedRequestsLeaveNoTrace, HeldClaimHasRequest
<1> QED BY <1>1, <1>2, <1>3, <1>4, <1>5

\* A claim nobody holds is over, or settled without its request.
LEMMA FreeKeyKeeps ==
    ASSUME SlotInv, FreeKey \/ SettleAlone
    PROVE  SlotInv'
<1> USE DEF SlotInv, FreeKey, SettleAlone, limiterVars, requestVars
<1>1. PipelineTypeOK'
  BY DEF PipelineTypeOK
<1>2. HeldClaimHasRequest'
  BY PipelineAssumption DEF HeldClaimHasRequest
<1>3. /\ SlotsAreWhole' /\ TraceFollowsDepth' /\ PreflightsStayOutside' /\ AuthBucketIsForAuth'
      /\ EveryResponseIsDecorated' /\ CrossOriginCallersAreServed' /\ RefusedRequestsLeaveNoTrace'
  BY DEF SlotsAreWhole, TraceFollowsDepth, PreflightsStayOutside, AuthBucketIsForAuth,
     EveryResponseIsDecorated, RequestIds, HasSecurityHeaders, CrossOriginCallersAreServed,
     RefusedRequestsLeaveNoTrace
<1> QED BY <1>1, <1>2, <1>3

\* Time passes for the requests.
LEMMA TickKeeps ==
    ASSUME SlotInv, Tick
    PROVE  SlotInv'
<1> USE DEF SlotInv, Tick, IsUnderDeadline, LimiterTick, Buckets, NoKey
<1>1. PipelineTypeOK'
  BY PipelineAssumption DEF PipelineTypeOK
<1>2. /\ SlotsAreWhole' /\ TraceFollowsDepth' /\ PreflightsStayOutside' /\ AuthBucketIsForAuth'
      /\ EveryResponseIsDecorated' /\ CrossOriginCallersAreServed' /\ RefusedRequestsLeaveNoTrace'
      /\ HeldClaimHasRequest'
  BY DEF SlotsAreWhole, TraceFollowsDepth, PreflightsStayOutside, AuthBucketIsForAuth,
     EveryResponseIsDecorated, RequestIds, HasSecurityHeaders, CrossOriginCallersAreServed,
     RefusedRequestsLeaveNoTrace, HeldClaimHasRequest
<1> QED BY <1>1, <1>2

----------------------------------------------------------------------------
(* The limiter. *)

\* What a script call does to the counters in Redis: they only grow, and a counter under its limit
\* grows by one.
LEMMA IncrementCounts ==
    ASSUME LimiterTypeOK, CountersCoverCredentials, NEW b \in Buckets, Increment(b)
    PROVE  /\ redis' \in [Buckets -> [count : Nat, ttl : 0..Window]]
           /\ \A c \in Buckets :
                /\ \/ redis'[c].count <= Limit(c) /\ redis'[c].ttl # 0
                   \/ redis'[c] = redis[c]
                /\ redis[c].count <= redis'[c].count
           /\ ~IsExceeded(b) => redis'[b].count = redis[b].count + 1
<1>1. redis[b] \in [count : Nat, ttl : 0..Window] /\ redis[b].count <= Limit(b) /\ Limit(b) \in Nat
  BY LimiterAssumption DEF LimiterTypeOK, CountersCoverCredentials, Limit
<1>2. Bump(b, redis[b].count) \in Nat /\ Bump(b, redis[b].count) <= Limit(b)
      /\ redis[b].count <= Bump(b, redis[b].count)
      /\ (~IsExceeded(b) => Bump(b, redis[b].count) = redis[b].count + 1)
  BY <1>1 DEF Bump, IsExceeded
<1>3. /\ redis' = [redis EXCEPT ![b] = redis'[b]]
      /\ redis'[b] \in [count : Nat, ttl : 0..Window]
      /\ redis'[b].count = Bump(b, redis[b].count) /\ redis'[b].ttl # 0
  BY <1>1, <1>2, LimiterAssumption DEF Increment, LimiterTypeOK
<1>4. redis' \in [Buckets -> [count : Nat, ttl : 0..Window]]
  BY <1>3 DEF LimiterTypeOK
<1>5. \A c \in Buckets \ {b} : redis'[c] = redis[c] /\ redis[c].count \in Nat
  BY <1>3 DEF LimiterTypeOK
<1> QED BY <1>1, <1>2, <1>3, <1>4, <1>5

\* What a fresh count does to the entries in memory: a request that is let through against the auth
\* bucket is in it.
LEMMA MemoryCounts ==
    ASSUME LimiterTypeOK, CountersCoverCredentials, NEW bs \in {Buckets, {"global"}},
           CountInMemory(bs)
    PROVE  /\ memory' \in [Buckets -> [count : Nat, age : 0..Window]]
           /\ \A b \in Buckets : memory'[b].count <= Limit(b)
           /\ Remembered("auth").count \in Nat
           /\ Remembered("auth").count > 0 =>
                credentials["memory"] <= Remembered("auth").count
           /\ \/ memory'["auth"].count = Remembered("auth").count
              \/ /\ "auth" \in bs /\ memory'["auth"].count = Remembered("auth").count + 1
                 /\ ~IsRefusedFromMemory(bs)
           /\ ~IsRefusedFromMemory(bs) /\ "auth" \in bs =>
                /\ Remembered("auth").count < AuthLimit
                /\ memory'["auth"].count = Remembered("auth").count + 1
<1> USE DEF Buckets
<1>1. \A b \in Buckets : /\ Remembered(b) \in [count : Nat, age : 0..Window]
                         /\ Remembered(b).count <= Limit(b) /\ Limit(b) \in Nat \ {0}
  BY LimiterAssumption DEF Remembered, NoEntry, LimiterTypeOK, CountersCoverCredentials, Limit
<1>2. \A b \in Buckets : /\ CountedInMemory(b) \in [count : Nat, age : 0..Window]
                         /\ CountedInMemory(b).count <= Limit(b)
                         /\ IF IsExceededInMemory(b)
                            THEN CountedInMemory(b).count = Remembered(b).count
                            ELSE CountedInMemory(b).count = Remembered(b).count + 1
  <2> SUFFICES ASSUME NEW b \in Buckets
               PROVE  /\ CountedInMemory(b) \in [count : Nat, age : 0..Window]
                      /\ CountedInMemory(b).count <= Limit(b)
                      /\ IF IsExceededInMemory(b)
                         THEN CountedInMemory(b).count = Remembered(b).count
                         ELSE CountedInMemory(b).count = Remembered(b).count + 1
    OBVIOUS
  <2>1. Bump(b, Remembered(b).count) \in Nat /\ Bump(b, Remembered(b).count) <= Limit(b)
    BY <1>1 DEF Bump
  <2>2. /\ CountedInMemory(b) \in [count : Nat, age : 0..Window]
        /\ CountedInMemory(b).count = Bump(b, Remembered(b).count)
    BY <1>1, <2>1 DEF CountedInMemory
  <2> QED BY <1>1, <2>1, <2>2 DEF Bump, IsExceededInMemory
<1>3. /\ memory' = [b \in Buckets |-> memory'[b]]
      /\ \A b \in Buckets : memory'[b] \in {CountedInMemory(b), Remembered(b)}
  BY DEF CountInMemory
<1>4. memory' \in [Buckets -> [count : Nat, age : 0..Window]]
  BY <1>1, <1>2, <1>3
<1>5. \A b \in Buckets : memory'[b].count <= Limit(b)
  BY <1>1, <1>2, <1>3
<1>6. Remembered("auth").count > 0 => credentials["memory"] <= Remembered("auth").count
  BY DEF Remembered, NoEntry, CountersCoverCredentials
<1>7. memory'["auth"] = IF "auth" \in bs /\ ~IsExceededInMemory("global")
                        THEN CountedInMemory("auth") ELSE Remembered("auth")
  BY DEF CountInMemory
<1>8. ASSUME IsRefusedFromMemory(bs)
      PROVE  IsExceededInMemory("global") \/ IsExceededInMemory("auth")
  <2>1. PICK b \in bs : IsExceededInMemory(b)
    BY <1>8 DEF IsRefusedFromMemory
  <2>2. b = "global" \/ b = "auth"
    OBVIOUS
  <2> QED BY <2>1, <2>2
<1>9. Limit("auth") = AuthLimit
  BY DEF Limit
<1>10. ~IsExceededInMemory("auth") => Remembered("auth").count < AuthLimit
  BY <1>1, <1>9 DEF IsExceededInMemory
<1>11. ~IsRefusedFromMemory(bs) /\ "auth" \in bs =>
         /\ memory'["auth"].count = Remembered("auth").count + 1
         /\ Remembered("auth").count < AuthLimit
  <2>0. "global" \in bs
    OBVIOUS
  <2>1. ~IsRefusedFromMemory(bs) /\ "auth" \in bs =>
          ~IsExceededInMemory("global") /\ ~IsExceededInMemory("auth")
    BY <2>0 DEF IsRefusedFromMemory, IsExceededInMemory
  <2> QED BY <1>2, <1>7, <1>10, <2>1
<1>12. \/ memory'["auth"].count = Remembered("auth").count
       \/ /\ "auth" \in bs /\ memory'["auth"].count = Remembered("auth").count + 1
          /\ ~IsRefusedFromMemory(bs)
  <2>1. CASE IsRefusedFromMemory(bs) \/ "auth" \notin bs
    BY <1>2, <1>7, <1>8, <2>1
  <2> QED BY <1>11, <2>1
<1>13. Remembered("auth").count \in Nat
  BY <1>1
<1> QED BY <1>4, <1>5, <1>6, <1>11, <1>12, <1>13

\* Counting in Redis keeps the limit: the last bucket of a credential request is the auth bucket.
LEMMA CountInRedisKeeps ==
    ASSUME LimiterInv, SlotInv, NEW r \in Slots, CountInRedis(r)
    PROVE  LimiterInv'
<1> USE DEF LimiterInv
<1>1. bucket[r] \in Buckets /\ (bucket[r] = "auth" => shape[r].path = "auth")
  BY DEF SlotInv, PipelineTypeOK, AuthBucketIsForAuth
<1>2. /\ redis' \in [Buckets -> [count : Nat, ttl : 0..Window]]
      /\ \A c \in Buckets : /\ \/ redis'[c].count <= Limit(c) /\ redis'[c].ttl # 0
                               \/ redis'[c] = redis[c]
                            /\ redis[c].count <= redis'[c].count
      /\ ~IsExceeded(bucket[r]) => redis'[bucket[r]].count = redis[bucket[r]].count + 1
  BY <1>1, IncrementCounts DEF CountInRedis
<1>3. \A c \in Buckets : /\ redis[c].count \in Nat /\ redis'[c].count \in Nat
                         /\ redis'[c].count <= Limit(c)
                         /\ redis'[c].ttl = 0 => redis'[c].count = 0
  BY <1>2 DEF LimiterTypeOK, CountersCoverCredentials
<1>4. /\ "auth" \in Buckets /\ Limit("auth") = AuthLimit /\ AuthLimit \in Nat
      /\ credentials["redis"] \in Nat /\ credentials["redis"] <= redis["auth"].count
  BY LimiterAssumption DEF Buckets, Limit, LimiterTypeOK, CountersCoverCredentials
<1>5. CASE UNCHANGED credentials
  BY <1>2, <1>3, <1>4, <1>5
     DEF CountInRedis, LimiterTypeOK, CountersCoverCredentials, AuthLimitHolds
<1>6. CASE ~UNCHANGED credentials
  <2>1. ~IsExceeded(bucket[r]) /\ IsLastBucket(r) /\ LetPass(r, "redis")
    BY <1>6 DEF CountInRedis
  <2>2. shape[r].path = "auth" /\ LetThrough("redis")
    BY <1>6, <2>1 DEF LetPass
  <2>3. bucket[r] = "auth"
    BY <2>1, <2>2 DEF IsLastBucket, BucketsOf, Buckets
  <2>4. redis'["auth"].count = redis["auth"].count + 1
    BY <1>2, <2>1, <2>3
  <2>5. credentials' = [credentials EXCEPT !["redis"] = credentials["redis"] + 1]
    <3>1. ~(credentials["redis"] > AuthLimit)
      BY <1>3, <1>4, <2>4
    <3> QED BY <2>2, <3>1 DEF LetThrough
  <2>6. credentials["redis"] + 1 <= redis'["auth"].count
    BY <1>3, <1>4, <2>4
  <2>7. /\ credentials' \in [{"redis", "memory", "uncounted"} -> Nat]
        /\ credentials'["redis"] = credentials["redis"] + 1
        /\ credentials'["memory"] = credentials["memory"]
        /\ credentials'["uncounted"] = credentials["uncounted"]
    BY <1>4, <2>5 DEF LimiterTypeOK
  <2>8. UNCHANGED <<server, memory>>
    BY DEF CountInRedis
  <2>9. credentials'["redis"] <= AuthLimit
    BY <1>3, <1>4, <2>6, <2>7
  <2> QED BY <1>2, <1>3, <1>4, <2>6, <2>7, <2>8, <2>9
          DEF LimiterTypeOK, CountersCoverCredentials, AuthLimitHolds
<1> QED BY <1>5, <1>6

\* Without an answer from Redis the limit is kept by the memory of one process outside production,
\* and by refusing every credential request in production.
LEMMA UnavailableKeeps ==
    ASSUME LimiterInv, SlotInv, NEW r \in Slots, HandleUnavailable(r), UNCHANGED server,
           Increment(bucket[r]) \/ UNCHANGED redis
    PROVE  LimiterInv'
<1> USE DEF LimiterInv
<1>1. /\ redis' \in [Buckets -> [count : Nat, ttl : 0..Window]]
      /\ \A c \in Buckets : /\ redis'[c].count <= Limit(c)
                            /\ redis'[c].ttl = 0 => redis'[c].count = 0
                            /\ redis[c].count <= redis'[c].count
  <2>1. CASE UNCHANGED redis
    BY <2>1 DEF LimiterTypeOK, CountersCoverCredentials
  <2>2. CASE Increment(bucket[r])
    <3>1. bucket[r] \in Buckets
      BY DEF SlotInv, PipelineTypeOK
    <3> QED BY <2>2, <3>1, IncrementCounts DEF CountersCoverCredentials
  <2> QED BY <2>1, <2>2
<1>2. /\ credentials["redis"] <= redis'["auth"].count
      /\ credentials \in [{"redis", "memory", "uncounted"} -> Nat]
      /\ "auth" \in Buckets /\ AuthLimit \in Nat \ {0} /\ Limit("auth") = AuthLimit
  BY <1>1, LimiterAssumption
     DEF LimiterTypeOK, CountersCoverCredentials, Buckets, Limit
<1>3. CASE UNCHANGED <<memory, credentials>>
  BY <1>1, <1>2, <1>3 DEF LimiterTypeOK, CountersCoverCredentials, AuthLimitHolds
<1>4. CASE ~server.isDeployed /\ CountLocally(r)
  <2> DEFINE old == Remembered("auth").count
  <2>1. BucketsOf(r) \in {Buckets, {"global"}} /\ CountInMemory(BucketsOf(r))
        /\ ("auth" \in BucketsOf(r) <=> shape[r].path = "auth")
    BY <1>4 DEF BucketsOf, CountLocally, Buckets
  <2>2. /\ memory' \in [Buckets -> [count : Nat, age : 0..Window]]
        /\ \A b \in Buckets : memory'[b].count <= Limit(b)
        /\ old \in Nat
        /\ old > 0 => credentials["memory"] <= old
        /\ memory'["auth"].count = old
             \/ /\ shape[r].path = "auth" /\ memory'["auth"].count = old + 1
                /\ ~IsRefusedFromMemory(BucketsOf(r))
        /\ ~IsRefusedFromMemory(BucketsOf(r)) /\ shape[r].path = "auth" =>
             old < AuthLimit /\ memory'["auth"].count = old + 1
    BY <2>1, MemoryCounts
  <2>3. CASE UNCHANGED credentials /\ memory'["auth"].count = old
    BY <1>1, <1>2, <2>2, <2>3 DEF LimiterTypeOK, CountersCoverCredentials, AuthLimitHolds
  <2>4. CASE ~(UNCHANGED credentials /\ memory'["auth"].count = old)
    <3>1. shape[r].path = "auth" /\ ~IsRefusedFromMemory(BucketsOf(r))
      BY <1>4, <2>2, <2>4 DEF CountLocally, LetPass
    <3>2. LetThrough("memory")
      BY <1>4, <3>1 DEF CountLocally, LetPass
    <3>3. memory'["auth"].count = old + 1 /\ old < AuthLimit
      BY <2>2, <3>1
    <3>4. /\ credentials' = [credentials EXCEPT !["memory"] = credentials'["memory"]]
          /\ credentials'["memory"] \in Nat /\ credentials'["memory"] <= old + 1
      <4>1. CASE old = 0
        <5>1. credentials' = [credentials EXCEPT !["memory"] = 1]
          BY <3>2, <4>1 DEF LetThrough
        <5> QED BY <1>2, <4>1, <5>1
      <4>2. CASE old # 0
        <5>1. credentials["memory"] \in Nat /\ credentials["memory"] <= old
          BY <1>2, <2>2, <4>2
        <5>2. ~(credentials["memory"] > AuthLimit)
          BY <1>2, <5>1 DEF AuthLimitHolds
        <5>3. credentials' = [credentials EXCEPT !["memory"] = credentials["memory"] + 1]
          BY <3>2, <4>2, <5>2 DEF LetThrough
        <5> QED BY <1>2, <2>2, <5>1, <5>3
      <4> QED BY <4>1, <4>2
    <3>5. /\ credentials' \in [{"redis", "memory", "uncounted"} -> Nat]
          /\ credentials'["memory"] <= memory'["auth"].count
          /\ credentials'["memory"] <= AuthLimit
          /\ credentials'["redis"] = credentials["redis"]
          /\ credentials'["uncounted"] = credentials["uncounted"]
      BY <1>2, <2>2, <3>3, <3>4
    <3> QED BY <1>1, <1>2, <1>4, <2>2, <3>5
            DEF LimiterTypeOK, CountersCoverCredentials, AuthLimitHolds
  <2> QED BY <2>3, <2>4
<1> QED BY <1>3, <1>4 DEF HandleUnavailable, ServeUncounted, LetPass

\* A window that ends takes its count and its credentials with it.
LEMMA LimiterTickKeeps ==
    ASSUME LimiterInv, LimiterTick
    PROVE  LimiterInv'
<1> USE DEF LimiterInv
<1>1. \A b \in Buckets : /\ redis[b] \in [count : Nat, ttl : 0..Window]
                         /\ memory[b] \in [count : Nat, age : 0..Window]
                         /\ redis[b].count <= Limit(b) /\ memory[b].count <= Limit(b)
                         /\ redis[b].ttl = 0 => redis[b].count = 0
                         /\ Limit(b) \in Nat /\ Window \in Nat
  BY LimiterAssumption DEF LimiterTypeOK, CountersCoverCredentials, Limit
<1>2. \A b \in Buckets :
        IF redis[b].ttl <= 1 THEN redis'[b] = NoKey
        ELSE /\ redis'[b] \in [count : Nat, ttl : 0..Window] /\ redis'[b].ttl # 0
             /\ redis'[b].count = redis[b].count
  BY <1>1 DEF LimiterTick
<1>3. \A b \in Buckets : /\ memory'[b] \in [count : Nat, age : 0..Window]
                         /\ memory'[b].count = memory[b].count
  BY <1>1 DEF LimiterTick
<1>4. /\ redis' = [b \in Buckets |-> redis'[b]] /\ memory' = [b \in Buckets |-> memory'[b]]
      /\ UNCHANGED server
  BY DEF LimiterTick
<1>5. \A b \in Buckets : /\ redis'[b] \in [count : Nat, ttl : 0..Window]
                         /\ redis'[b].count <= Limit(b)
                         /\ redis'[b].ttl = 0 => redis'[b].count = 0
  BY <1>1, <1>2, LimiterAssumption DEF NoKey
<1>6. /\ redis' \in [Buckets -> [count : Nat, ttl : 0..Window]]
      /\ memory' \in [Buckets -> [count : Nat, age : 0..Window]]
  BY <1>3, <1>4, <1>5
<1>7. /\ credentials' \in [{"redis", "memory", "uncounted"} -> Nat]
      /\ credentials'["memory"] = credentials["memory"]
      /\ credentials'["uncounted"] = credentials["uncounted"]
      /\ \/ credentials'["redis"] = 0
         \/ credentials'["redis"] = credentials["redis"] /\ redis["auth"].ttl # 1
  BY DEF LimiterTick, LimiterTypeOK
<1>8. credentials'["redis"] <= redis'["auth"].count
  <2>1. /\ credentials["redis"] \in Nat /\ credentials["redis"] <= redis["auth"].count
        /\ "auth" \in Buckets
    BY DEF LimiterTypeOK, CountersCoverCredentials, Buckets
  <2>2. CASE redis["auth"].ttl <= 1
    BY <1>1, <1>2, <1>7, <2>1, <2>2 DEF NoKey
  <2>3. CASE redis["auth"].ttl > 1
    BY <1>1, <1>2, <1>5, <1>7, <2>1, <2>3
  <2> QED BY <1>1, <2>1, <2>2, <2>3
<1>9. "auth" \in Buckets /\ AuthLimit \in Nat
  BY LimiterAssumption DEF Buckets
<1>10. CountersCoverCredentials'
  BY <1>1, <1>3, <1>5, <1>7, <1>8, <1>9 DEF CountersCoverCredentials
<1>11. AuthLimitHolds'
  BY <1>4, <1>7, <1>9 DEF AuthLimitHolds
<1> QED BY <1>6, <1>7, <1>10, <1>11 DEF LimiterTypeOK

\* The limiter looks at nothing else.
LEMMA LimiterFrame ==
    ASSUME LimiterInv, UNCHANGED limiterVars
    PROVE  LimiterInv'
BY DEF LimiterInv, LimiterTypeOK, CountersCoverCredentials, AuthLimitHolds, limiterVars


----------------------------------------------------------------------------
(* The operations, from the ways of moving above. *)

\* A layer that passes the request on.
LEMMA PassKeeps ==
    ASSUME SlotInv, NEW r \in Slots, phase[r] = "down", at[r] \in {4, 5, 6, 8, 9},
           at[r] = 5 => ~shape[r].isPreflight, Pass(r)
    PROVE  SlotInv'
<1>1. trace' = [trace EXCEPT ![r] = trace[r]]
  BY DEF Pass, SlotInv, PipelineTypeOK
<1>2. Counts(r, trace[r])
  BY DEF Counts
<1> QED BY <1>1, <1>2, DescentKeeps DEF Pass

\* A layer that refuses the request, and leaves what it has done alone.
LEMMA RefuseKeeps ==
    ASSUME SlotInv, NEW r \in Slots, NEW layer, NEW status,
           Here(r, layer), Refuses(layer, status), Refuse(r, layer, status)
    PROVE  SlotInv'
<1>1. trace' = [trace EXCEPT ![r] = trace[r]]
  BY DEF Refuse, SlotInv, PipelineTypeOK
<1>2. Counts(r, trace[r])
  BY DEF Counts
<1> QED BY <1>1, <1>2, RefusalKeeps DEF Refuse

\* The layers that only look at the request.
LEMMA LookingKeeps ==
    ASSUME SlotInv, NEW r \in Slots,
           \/ LimitBody(r) \/ AnswerPreflight(r) \/ SkipLimiter(r)
           \/ CheckCsrfHeader(r) \/ ReadKeyHeader(r) \/ FailToResolve(r)
    PROVE  SlotInv'
<1>1. CASE LimitBody(r)
  <2>1. Refuses("request_context", "payload_too_large")
    BY DEF Refuses
  <2> QED BY <1>1, <2>1, DepthIs, PassKeeps, RefuseKeeps DEF LimitBody, Here
<1>2. CASE AnswerPreflight(r)
  <2>1. Refuses("cors", "preflight")
    BY DEF Refuses
  <2> QED BY <1>2, <2>1, DepthIs, PassKeeps, RefuseKeeps DEF AnswerPreflight, Here
<1>3. CASE SkipLimiter(r)
  BY <1>3, DepthIs, PassKeeps DEF SkipLimiter, Here
<1>4. CASE CheckCsrfHeader(r)
  <2>1. Refuses("csrf_guard", "csrf")
    BY DEF Refuses
  <2> QED BY <1>4, <2>1, DepthIs, PassKeeps, RefuseKeeps DEF CheckCsrfHeader, Here
<1>5. CASE ReadKeyHeader(r)
  <2>1. Refuses("idempotency", "bad_key")
    BY DEF Refuses
  <2> QED BY <1>5, <2>1, DepthIs, PassKeeps, RefuseKeeps DEF ReadKeyHeader, Here
<1>6. CASE FailToResolve(r)
  <2>1. Refuses("idempotency", "database_unavailable") /\ Counts(r, trace[r])
    BY DEF Refuses, Counts
  <2>2. trace' = [trace EXCEPT ![r] = trace[r]] /\ key' \in {key, "stranded"}
    BY <1>6 DEF FailToResolve, AfterLostClaim, SlotInv, PipelineTypeOK
  <2> QED BY <1>6, <2>1, <2>2, RefusalKeeps DEF FailToResolve, IsKeyed
<1> QED BY <1>1, <1>2, <1>3, <1>4, <1>5, <1>6

\* The limiter's own steps move the request inward, to its other bucket, or to a refusal.
LEMMA CountingKeeps ==
    ASSUME SlotInv, NEW r \in Slots,
           CountInRedis(r) \/ LoseRedis(r) \/ CountWithoutRedis(r)
    PROVE  SlotInv'
<1>1. phase[r] = "down" /\ at[r] = 6 /\ Here(r, "rate_limit")
  BY DepthIs DEF CountInRedis, LoseRedis, CountWithoutRedis, Here
<1>2. UNCHANGED <<shape, elapsed, raised, key>>
  BY DEF CountInRedis, LoseRedis, CountWithoutRedis
<1>3. /\ Refuses("rate_limit", "too_many") /\ Refuses("rate_limit", "limiter_unavailable")
      /\ Counts(r, trace[r]) /\ Counts(r, trace[r] \cup {"counted"})
  BY <1>1, DepthIs DEF Refuses, Counts
<1>4. UNCHANGED trace => trace' = [trace EXCEPT ![r] = trace[r]]
  BY DEF SlotInv, PipelineTypeOK
<1>5. Trace(r, "counted") => trace' = [trace EXCEPT ![r] = trace[r] \cup {"counted"}]
  BY DEF Trace
<1>6. CASE CountInRedis(r)
  <2>1. CASE Start(r, "rate_limit", "too_many", FALSE) /\ UNCHANGED bucket
    BY <1>1, <1>2, <1>3, <1>5, <1>6, <2>1, RefusalKeeps DEF CountInRedis
  <2>2. CASE Descend(r) /\ UNCHANGED <<phase, bucket, response>>
    BY <1>1, <1>2, <1>3, <1>5, <1>6, <2>2, DescentKeeps DEF CountInRedis
  <2>3. CASE ~IsLastBucket(r) /\ bucket' = [bucket EXCEPT ![r] = "auth"]
             /\ UNCHANGED <<at, phase, response>>
    BY <1>1, <1>2, <1>6, <2>3, TurnToAuthKeeps DEF CountInRedis
  <2> QED BY <1>6, <2>1, <2>2, <2>3 DEF CountInRedis
<1>7. CASE LoseRedis(r) \/ CountWithoutRedis(r)
  <2>1. HandleUnavailable(r) /\ UNCHANGED bucket
    BY <1>7 DEF LoseRedis, CountWithoutRedis
  <2>2. CASE Start(r, "rate_limit", "too_many", FALSE) /\ Trace(r, "counted")
    BY <1>1, <1>2, <1>3, <1>5, <2>1, <2>2, RefusalKeeps
  <2>3. CASE Start(r, "rate_limit", "limiter_unavailable", FALSE) /\ UNCHANGED trace
    BY <1>1, <1>2, <1>3, <1>4, <2>1, <2>3, RefusalKeeps
  <2>4. CASE Descend(r) /\ UNCHANGED <<phase, response>> /\ Trace(r, "counted")
    BY <1>1, <1>2, <1>3, <1>5, <2>1, <2>4, DescentKeeps
  <2>5. CASE Descend(r) /\ UNCHANGED <<phase, response, trace>>
    BY <1>1, <1>2, <1>3, <1>4, <2>1, <2>5, DescentKeeps
  <2> QED BY <2>1, <2>2, <2>3, <2>4, <2>5 DEF HandleUnavailable, CountLocally, ServeUncounted
<1> QED BY <1>6, <1>7

\* A claim is resolved: nobody to claim for, a claim, a replay, or a refusal.
LEMMA ResolvingKeeps ==
    ASSUME SlotInv, NEW r \in Slots, ResolveClaim(r)
    PROVE  SlotInv'
<1>1. Here(r, "idempotency") /\ phase[r] = "down" /\ at[r] = 9 /\ IsKeyed(r)
  BY DepthIs DEF ResolveClaim, IsKeyed, Here
<1>2. Refuses("idempotency", "replay") /\ Refuses("idempotency", "in_progress")
  BY DEF Refuses
<1>3. CASE Pass(r)
  BY <1>1, <1>3, PassKeeps
<1>4. CASE Refuse(r, "idempotency", "replay") \/ Refuse(r, "idempotency", "in_progress")
  BY <1>1, <1>2, <1>4, RefuseKeeps
<1>5. CASE /\ shape[r].isSignedIn /\ key' = r /\ Descend(r) /\ Trace(r, "claimed")
           /\ UNCHANGED <<phase, shape, bucket, elapsed, raised, response>>
  BY <1>1, <1>5, ClaimKeeps
<1> QED BY <1>3, <1>4, <1>5 DEF ResolveClaim

\* What the route or the handlers around it answer.
LEMMA RoutingKeeps ==
    ASSUME SlotInv, NEW r \in Slots, Route(r)
    PROVE  SlotInv'
BY AnswerKeeps, RaiseInRouteKeeps
   DEF Route, AnswerFromRoute, HandleAppError, HandleDatabaseUnavailable, HandleDriverError

\* The ways out.
LEMMA LeavingKeeps ==
    ASSUME SlotInv, NEW r \in Slots, Leave(r)
    PROVE  SlotInv'
<1>1. CASE CancelAtDeadline(r)
  BY <1>1, CancelKeeps
<1>2. CASE ReleaseClaim(r)
  BY <1>2, ReleaseClaimKeeps
<1>3. ASSUME NEW layer, NEW status, NEW isByHand \in BOOLEAN, Catch(r, layer, status, isByHand),
             \/ layer = "timeout" /\ status = "timed_out" /\ ~isByHand
             \/ layer = "server_error" /\ status = "internal" /\ isByHand
      PROVE  SlotInv'
  <2>1. CASE response[r] = NoResponse
    BY <1>3, <2>1, LateAnswerKeeps DEF Catch
  <2>2. CASE response[r] # NoResponse
    BY <1>3, <2>2, EndKeeps DEF Catch
  <2> QED BY <2>1, <2>2
<1>4. CASE CatchTimeout(r) \/ CatchException(r)
  BY <1>3, <1>4 DEF CatchTimeout, CatchException
<1>5. CASE FinishResponse(r)
  <2>1. CASE key = r
    BY <1>5, <2>1, SettlingKeeps DEF FinishResponse
  <2>2. CASE key # r
    BY <1>5, <2>2, EndKeeps DEF FinishResponse
  <2> QED BY <2>1, <2>2
<1>6. CASE SettleClaim(r)
  <2>1. key' \in {"free", "stranded", "completed"} /\ End(r)
    BY <1>6 DEF SettleClaim
  <2>2. key' # r
    BY <2>1, PipelineAssumption
  <2> QED BY <2>1, <2>2, EndKeeps
<1> QED BY <1>1, <1>2, <1>4, <1>5, <1>6 DEF Leave

----------------------------------------------------------------------------
(* The invariant. *)

\* No request and no count.
LEMMA InitEstablishes == Init => IInv
<1> SUFFICES ASSUME Init PROVE IInv
  OBVIOUS
<1> USE DEF Init
<1>1. server \in Servers
  OBVIOUS
<1>2. PipelineTypeOK
  BY PipelineAssumption DEF PipelineTypeOK, Responses, NoResponse, Statuses, Buckets
<1>3. SlotsAreWhole /\ TraceFollowsDepth /\ PreflightsStayOutside /\ AuthBucketIsForAuth
  BY DepthIs DEF SlotsAreWhole, TraceFollowsDepth, PreflightsStayOutside, AuthBucketIsForAuth
<1>4. EveryResponseIsDecorated /\ CrossOriginCallersAreServed
  BY DEF EveryResponseIsDecorated, CrossOriginCallersAreServed
<1>5. RefusedRequestsLeaveNoTrace /\ HeldClaimHasRequest
  BY PipelineAssumption DEF RefusedRequestsLeaveNoTrace, HeldClaimHasRequest, NoResponse
<1>6. LimiterTypeOK /\ CountersCoverCredentials /\ AuthLimitHolds
  BY LimiterAssumption DEF LimiterInit, LimiterTypeOK, CountersCoverCredentials, AuthLimitHolds,
     NoKey, NoEntry, Buckets, Limit
<1> QED BY <1>1, <1>2, <1>3, <1>4, <1>5, <1>6 DEF IInv, SlotInv, LimiterInv

\* Every step of every layer keeps it.
LEMMA NextKeeps == IInv /\ [Next]_vars => IInv'
<1> SUFFICES ASSUME IInv, [Next]_vars PROVE IInv'
  OBVIOUS
<1> USE DEF IInv
<1>1. ASSUME SlotInv', LimiterInv', UNCHANGED server PROVE IInv'
  BY <1>1
<1>2. ASSUME SlotInv', UNCHANGED limiterVars PROVE IInv'
  BY <1>1, <1>2, LimiterFrame DEF limiterVars
<1>3. ASSUME NEW r \in Slots, NEW s \in server.shapes, Arrive(r, s) PROVE IInv'
  BY <1>2, <1>3, ArriveKeeps DEF Arrive
<1>4. ASSUME NEW r \in Slots,
             \/ LimitBody(r) \/ AnswerPreflight(r) \/ SkipLimiter(r)
             \/ CheckCsrfHeader(r) \/ ReadKeyHeader(r) \/ FailToResolve(r)
      PROVE  IInv'
  <2>1. UNCHANGED limiterVars
    BY <1>4 DEF LimitBody, AnswerPreflight, SkipLimiter, CheckCsrfHeader, ReadKeyHeader,
       FailToResolve
  <2> QED BY <1>2, <1>4, <2>1, LookingKeeps
<1>5. ASSUME NEW r \in Slots, CountInRedis(r) PROVE IInv'
  BY <1>1, <1>5, CountingKeeps, CountInRedisKeeps DEF CountInRedis
<1>6. ASSUME NEW r \in Slots, LoseRedis(r) \/ CountWithoutRedis(r) PROVE IInv'
  <2>1. /\ HandleUnavailable(r) /\ UNCHANGED server
        /\ Increment(bucket[r]) \/ UNCHANGED redis
    BY <1>6 DEF LoseRedis, CountWithoutRedis
  <2> QED BY <1>1, <1>6, <2>1, CountingKeeps, UnavailableKeeps
<1>7. ASSUME NEW r \in Slots, ResolveClaim(r) PROVE IInv'
  BY <1>2, <1>7, ResolvingKeeps DEF ResolveClaim
<1>8. ASSUME NEW r \in Slots, EnterRoute(r) PROVE IInv'
  BY <1>2, <1>8, EnterRouteKeeps DEF EnterRoute
<1>9. ASSUME NEW r \in Slots, Route(r) PROVE IInv'
  <2>1. UNCHANGED limiterVars
    BY <1>9 DEF Route, AnswerFromRoute, HandleAppError, HandleDatabaseUnavailable,
       HandleDriverError, RaiseInRoute, Answer
  <2> QED BY <1>2, <1>9, <2>1, RoutingKeeps
<1>10. ASSUME NEW r \in Slots, Leave(r) PROVE IInv'
  <2>1. UNCHANGED limiterVars
    BY <1>10 DEF Leave, CancelAtDeadline, ReleaseClaim, CatchTimeout, CatchException,
       FinishResponse, SettleClaim, Catch
  <2> QED BY <1>2, <1>10, <2>1, LeavingKeeps
<1>11. CASE FreeKey \/ SettleAlone
  BY <1>2, <1>11, FreeKeyKeeps DEF FreeKey, SettleAlone
<1>12. CASE Tick
  <2>1. LimiterTick /\ UNCHANGED server
    BY <1>12 DEF Tick, LimiterTick
  <2> QED BY <1>1, <1>12, <2>1, TickKeeps, LimiterTickKeeps
<1>13. CASE UNCHANGED vars
  <2>1. SlotInv'
    BY <1>13 DEF vars, requestVars, SlotInv, PipelineTypeOK, SlotsAreWhole, TraceFollowsDepth,
       PreflightsStayOutside, AuthBucketIsForAuth, EveryResponseIsDecorated,
       CrossOriginCallersAreServed, RefusedRequestsLeaveNoTrace, HeldClaimHasRequest,
       RequestIds, HasSecurityHeaders
  <2> QED BY <1>2, <1>13, <2>1 DEF vars
<1> QED BY <1>3, <1>4, <1>5, <1>6, <1>7, <1>8, <1>9, <1>10, <1>11, <1>12, <1>13
        DEF Next, Step, LimitRate, Guard

\* What holds of every reachable state: the values of every slot and counter, what a request can
\* have done by the time it is where it is, and the safety properties of the runs.
THEOREM Invariance == Spec => []IInv
<1> QED BY InitEstablishes, NextKeeps, PTL DEF Spec

\* Every variable keeps its type, whatever the chain, the routes and Redis do.
THEOREM TypeCorrect == Spec => []TypeOK
<1>1. IInv => TypeOK
  BY DEF IInv, SlotInv, LimiterInv, TypeOK
<1> QED BY <1>1, Invariance, PTL

\* Whichever layer answers, the response carries a request ID and the security headers, since only
\* ServerErrorMiddleware is outside the layers that add them and it sets them by hand.
THEOREM ResponsesAreDecorated == Spec => []EveryResponseIsDecorated
<1>1. IInv => EveryResponseIsDecorated
  BY DEF IInv, SlotInv
<1> QED BY <1>1, Invariance, PTL

\* A preflight is answered before any guard, and the limiter's refusals pass the CORS layer.
THEOREM CallersAreServed == Spec => []CrossOriginCallersAreServed
<1>1. IInv => CrossOriginCallersAreServed
  BY DEF IInv, SlotInv
<1> QED BY <1>1, Invariance, PTL

\* What a guard refuses has claimed no key and run no route.
THEOREM RefusalsLeaveNoTrace == Spec => []RefusedRequestsLeaveNoTrace
<1>1. IInv => RefusedRequestsLeaveNoTrace
  BY DEF IInv, SlotInv
<1> QED BY <1>1, Invariance, PTL

\* A claim is held only by a request that is still inside the idempotency layer.
THEOREM ClaimsHaveRequests == Spec => []HeldClaimHasRequest
<1>1. IInv => HeldClaimHasRequest
  BY DEF IInv, SlotInv
<1> QED BY <1>1, Invariance, PTL

\* No more credential requests than the limit pass one window of a counter, whatever Redis loses.
THEOREM CredentialsAreLimited == Spec => []AuthLimitHolds
<1>1. IInv => AuthLimitHolds
  BY DEF IInv, LimiterInv
<1> QED BY <1>1, Invariance, PTL

\* A response that has started is never replaced: a step starts one only where there is none.
THEOREM StartedIsFinal == Spec => AnsweredOnce
<1> DEFINE Kept == \A r \in Slots :
                     response[r] # NoResponse => response'[r] \in {response[r], NoResponse}
<1>1. ASSUME IInv, Next PROVE Kept
  <2>1. response \in [Slots -> Responses]
    BY <1>1 DEF IInv, SlotInv, PipelineTypeOK
  <2>2. ASSUME UNCHANGED response PROVE Kept
    BY <2>2
  <2>3. ASSUME NEW q \in Slots, response[q] = NoResponse \/ response'[q] = NoResponse,
               \A r \in Slots \ {q} : response'[r] = response[r]
        PROVE  Kept
    BY <2>3
  <2>4. ASSUME NEW q \in Slots, NEW layer, NEW status, NEW isByHand,
               Start(q, layer, status, isByHand), response[q] = NoResponse
        PROVE  Kept
    BY <2>1, <2>3, <2>4 DEF Start
  <2>5. ASSUME NEW q \in Slots, End(q) PROVE Kept
    BY <2>1, <2>3, <2>5 DEF End
  <2>6. \A q \in Slots : phase[q] = "down" => response[q] = NoResponse
    BY <1>1 DEF IInv, SlotInv, SlotsAreWhole
  <2>7. ASSUME NEW q \in Slots, Route(q) PROVE Kept
    BY <2>2, <2>4, <2>6, <2>7
       DEF Route, AnswerFromRoute, HandleAppError, HandleDatabaseUnavailable,
           HandleDriverError, RaiseInRoute, Answer, Here
  <2>8. ASSUME NEW q \in Slots, Leave(q) PROVE Kept
    BY <2>2, <2>4, <2>5, <2>8
       DEF Leave, CancelAtDeadline, ReleaseClaim, CatchTimeout, CatchException,
           FinishResponse, SettleClaim, Catch, requestVars
  <2>9. ASSUME NEW q \in Slots, LimitRate(q) PROVE Kept
    BY <2>2, <2>4, <2>6, <2>9
       DEF LimitRate, SkipLimiter, CountInRedis, LoseRedis, CountWithoutRedis,
           HandleUnavailable, CountLocally, ServeUncounted, Pass, Here
  <2>10. ASSUME NEW q \in Slots, LimitBody(q) \/ Guard(q) PROVE Kept
    BY <2>2, <2>4, <2>6, <2>10
       DEF Guard, LimitBody, AnswerPreflight, CheckCsrfHeader, ReadKeyHeader, ResolveClaim,
           FailToResolve, EnterRoute, IsKeyed, Pass, Refuse, Here
  <2>11. CASE \/ FreeKey \/ SettleAlone \/ Tick
              \/ \E q \in Slots : \E s \in server.shapes : Arrive(q, s)
    BY <2>2, <2>11 DEF FreeKey, SettleAlone, Tick, Arrive, requestVars
  <2> QED BY <1>1, <2>7, <2>8, <2>9, <2>10, <2>11 DEF Next, Step
<1>2. UNCHANGED vars => Kept
  BY DEF vars, requestVars
<1>3. IInv /\ [Next]_vars => [Kept]_vars
  BY <1>1, <1>2
<1> QED BY <1>3, Invariance, PTL DEF Spec, AnsweredOnce
=============================================================================
