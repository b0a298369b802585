------------------------- MODULE MCRequestPipeline -------------------------
(* TLC's instance of RequestPipeline: what the requests look like. *)
EXTENDS RequestPipeline

Shape(path, isPreflight, isCrossOrigin, hasCsrfHeader, k, isSignedIn, body) ==
    [path |-> path, isPreflight |-> isPreflight, isSafe |-> isPreflight,
     isCrossOrigin |-> isCrossOrigin, hasCsrfHeader |-> hasCsrfHeader,
     key |-> k, isSignedIn |-> isSignedIn, body |-> body]

Preflight == Shape("other", TRUE, TRUE, FALSE, "none", FALSE, "fits")
Delivery  == Shape("webhook", FALSE, FALSE, FALSE, "none", FALSE, "fits")
SignIn    == Shape("auth", FALSE, TRUE, TRUE, "valid", FALSE, "fits")
Attempt   == Shape("auth", FALSE, TRUE, FALSE, "none", FALSE, "fits")
Unmarked  == Shape("other", FALSE, TRUE, FALSE, "valid", TRUE, "fits")
Keyed     == Shape("other", FALSE, FALSE, TRUE, "valid", TRUE, "fits")
Malformed == Shape("other", FALSE, FALSE, TRUE, "malformed", TRUE, "fits")
Oversized == Shape("other", FALSE, TRUE, TRUE, "valid", TRUE, "oversized")

AllShapes == {Preflight, Delivery, SignIn, Attempt, Unmarked, Keyed, Malformed, Oversized}

Server(isDeployed, hasRedisUrl, shapes) ==
    [isDeployed |-> isDeployed, hasRedisUrl |-> hasRedisUrl, shapes |-> shapes]

\* Production, staging without Redis, development with and without Redis.  The larger sets of
\* shapes go to the servers whose limiter has little to remember.
AllServers ==
    { Server(TRUE, TRUE, {SignIn, Unmarked}),
      Server(TRUE, FALSE, AllShapes),
      Server(FALSE, TRUE, {Attempt}),
      Server(FALSE, FALSE, {SignIn, Unmarked}) }
=============================================================================
