---------------------------- MODULE SessionGate ----------------------------
(***************************************************************************)
(* Who the browser believes is signed in: one tab of the client, the       *)
(* session entry of its query cache, and the route gates that ask the      *)
(* backend before a page is shown (apps/client/web/app).                   *)
(*                                                                         *)
(* The gates, the layout and the mutations share one cache entry and at    *)
(* most one outstanding request, which everybody who asks meanwhile joins. *)
(* A request carries the cookie of the moment it is sent, is judged by the *)
(* backend later, and is answered later still; sessions are revoked and    *)
(* cookies replaced by other tabs and devices at any time between.         *)
(***************************************************************************)
EXTENDS Integers, FiniteSets

CONSTANTS
    Sessions,      \* sessions the backend may create
    Admins,        \* those whose user is an administrator
    None,          \* no session, no page, nothing in flight
    Window,        \* RECENT_SESSION_WINDOW_MILLISECONDS, in ticks
    Skews,         \* how far the browser's clock may be ahead of the server's
    Horizon,       \* ages are counted up to here
    MaxAttempts,   \* MAX_QUERY_ATTEMPTS
    MaxMoves       \* what users, tabs and devices do besides waiting

Behind(k) == IF k < 0 THEN 0 - k ELSE 0

ASSUME GateAssumption ==
    /\ Window \in Nat \ {0} /\ Horizon \in Nat /\ MaxMoves \in Nat
    /\ MaxAttempts \in Nat \ {0}
    /\ Admins \subseteq Sessions /\ None \notin Sessions
    /\ Skews \subseteq Int /\ \A k \in Skews : Window + Behind(k) <= Horizon

VARIABLES
    life,        \* each session at the backend
    deadFor,     \* for how long it has been revoked
    skew,        \* the browser's clock minus the server's
    cookie,      \* the session the browser's cookie names
    page,        \* what the tab shows, or how far a full page load has come: "hydrating" is
                 \* painted, but not the visitor's to use before its own gate has ended
    target,      \* the page the tab is on its way to
    entry,       \* the session query: whose answer it holds, how it ended, its age, who fetched it
    request,     \* the outstanding request of that query
    mutation,    \* the sign-in or sign-out in flight
    departed,    \* sessions this tab has signed out of
    hopeless,    \* the pending gate asked for itself when the cookie was worth nothing
    moves        \* how often users, tabs and devices have acted

backendVars == <<life, deadFor>>
tabVars == <<page, target, entry, request, mutation, departed, hopeless>>
vars == <<backendVars, skew, cookie, tabVars, moves>>

----------------------------------------------------------------------------

Protected == {"dashboard", "admin"}
Pages == Protected \cup {"login"}

Entries == [session : Sessions \cup {None}, status : {"pending", "success", "error"},
            age : 0..Horizon, isServers : BOOLEAN]
Requests == [cookie : Sessions \cup {None}, attempt : 0..MaxAttempts,
             answer : {"none", "user", "unauthorized", "refused", "down"}]
Mutations == [kind : {"none", "signIn", "signOut"}, session : Sessions \cup {None},
              isAnswered : BOOLEAN]

NoEntry == [session |-> None, status |-> "pending", age |-> 0, isServers |-> FALSE]
NoRequest == [cookie |-> None, attempt |-> 0, answer |-> "none"]
NoMutation == [kind |-> "none", session |-> None, isAnswered |-> FALSE]

Fetched(s, isServers) == [session |-> s, status |-> "success", age |-> 0, isServers |-> isServers]
Sent(c) == [cookie |-> c, attempt |-> 1, answer |-> "none"]

BackendTypeOK ==
    /\ life \in [Sessions -> {"unborn", "live", "dead"}]
    /\ deadFor \in [Sessions -> 0..Horizon]
    /\ skew \in Skews
    /\ cookie \in Sessions \cup {None}
    /\ moves \in 0..MaxMoves

TabTypeOK ==
    /\ page \in Pages \cup {"loading", "arriving", "hydrating", "error"}
    /\ target \in Pages \cup {"none"}
    /\ entry \in Entries /\ request \in Requests /\ mutation \in Mutations
    /\ departed \subseteq Sessions
    /\ hopeless \in BOOLEAN

TypeOK == BackendTypeOK /\ TabTypeOK

\* A visitor opens a page, with or without a session.
Init ==
    /\ skew \in Skews
    /\ cookie \in Sessions \cup {None}
    /\ life = [s \in Sessions |-> IF s = cookie THEN "live" ELSE "unborn"]
    /\ deadFor = [s \in Sessions |-> 0]
    /\ page = "loading"
    /\ target \in Pages
    /\ entry = NoEntry
    /\ request = NoRequest
    /\ mutation = NoMutation
    /\ departed = {}
    /\ hopeless = FALSE
    /\ moves = 0

IsLive(c) == c # None /\ life[c] = "live"

\* What GET /v1/auth/me may say of this cookie: a 429 or 403, and a 5xx or no answer, any time.
Answers(c) == {IF IsLive(c) THEN "user" ELSE "unauthorized", "refused", "down"}

Move == moves < MaxMoves /\ moves' = moves + 1

----------------------------------------------------------------------------
(* The gates. *)

\* Mutant: every failure is read as a sign-out.
OutcomeOfAnyFailure(answer) == IF answer = "user" THEN "signedIn" ELSE "signedOut"

\* Mutant: a failed fetch leaves the cached user in place, and the gate reads that.
OutcomeFromCache(answer) ==
    IF answer = "user" \/ entry.session # None THEN "signedIn" ELSE "signedOut"

\* classifySessionFailure: only 401 says that nobody is signed in.
Outcome(answer) ==
    CASE answer = "user"         -> "signedIn"
      [] answer = "unauthorized" -> "signedOut"
      [] OTHER                   -> "unavailable"

\* redirectIfSession, on the login page.
RedirectIfSession(outcome) == IF outcome = "signedIn" THEN "dashboard" ELSE "login"

\* requireAdmin, after requireSession has let the visitor by.
RequireAdmin(p, s) == IF p = "admin" /\ s \notin Admins THEN "dashboard" ELSE p

\* Mutant: whoever cannot be confirmed is sent to the login page.
RequireSessionOrLogin(p, outcome, s) ==
    IF outcome = "signedIn" THEN RequireAdmin(p, s) ELSE "login"

\* requireSession, on the protected pages: what cannot be confirmed aborts the navigation.
RequireSession(p, outcome, s) ==
    CASE outcome = "signedIn"    -> RequireAdmin(p, s)
      [] outcome = "signedOut"   -> "login"
      [] outcome = "unavailable" -> "aborted"

Destination(p, outcome, s) ==
    IF p = "login" THEN RedirectIfSession(outcome) ELSE RequireSession(p, outcome, s)

\* readSessionOutcome begins for this page: it invalidates the entry, so it is never answered from
\* the cache; it joins the request that is outstanding, or sends one.
GateFor(p, c, outstanding) ==
    /\ target' = p
    /\ request' = IF outstanding = NoRequest THEN Sent(c) ELSE outstanding
    /\ hopeless' = (outstanding = NoRequest /\ ~IsLive(c))

\* A navigation inside the tab supersedes the one that is pending; to the page it is on the router
\* needs no gate, and what is outstanding goes on for the entry alone.
GoTo(p, c, outstanding) ==
    \/ /\ p # page
       /\ GateFor(p, c, outstanding)
    \/ /\ p = page
       /\ target' = "none" /\ request' = outstanding /\ hopeless' = FALSE

----------------------------------------------------------------------------
(* A full page load: the server runs the gates, the browser runs them again as it hydrates. *)

\* The tab drops everything it held, its requests included.
LoadPage(p) ==
    /\ Move
    /\ page' = "loading"
    /\ target' = p
    /\ entry' = NoEntry
    /\ request' = NoRequest
    /\ mutation' = NoMutation
    /\ hopeless' = FALSE
    /\ UNCHANGED <<backendVars, skew, cookie, departed>>

\* sessionCookieGate asks only for a cookie; the route gates then ask the backend.  A redirect is
\* another page request, an abort the error page.
RenderOnServer(answer) ==
    LET isTurnedAway == target \in Protected /\ cookie = None
        destination == IF isTurnedAway THEN "login"
                       ELSE Destination(target, Outcome(answer), cookie)
    IN /\ page = "loading"
       /\ \/ /\ destination = "aborted"
             /\ page' = "error" /\ target' = "none"
             /\ UNCHANGED entry
          \/ /\ destination = target
             /\ page' = "arriving"
             /\ entry' = IF answer = "user" THEN Fetched(cookie, TRUE) ELSE NoEntry
             /\ UNCHANGED target
          \/ /\ destination \notin {target, "aborted"}
             /\ target' = destination
             /\ UNCHANGED <<page, entry>>
       /\ UNCHANGED <<backendVars, skew, cookie, request, mutation, departed, hopeless, moves>>

Render == \E answer \in Answers(cookie) : RenderOnServer(answer)

\* Its age as the browser computes it from the server's timestamp.
BrowserAge(e) == e.age + (IF e.isServers THEN skew ELSE 0)

\* Mutant: any session of the render is trusted.
HasAnyServerSession == entry.session # None

\* hasRecentServerSession
HasRecentServerSession ==
    entry.session # None /\ BrowserAge(entry) >= 0 /\ BrowserAge(entry) < Window

\* isHydratingServerRender: the login page stands; a protected one stands if its session is recent.
Hydrate ==
    /\ page = "arriving"
    /\ \/ /\ target = "login" \/ HasRecentServerSession
          /\ page' = target /\ target' = "none"
          /\ UNCHANGED <<request, hopeless>>
       \/ /\ target # "login" /\ ~HasRecentServerSession
          /\ page' = "hydrating"
          /\ GateFor(target, cookie, request)
    /\ UNCHANGED <<backendVars, skew, cookie, entry, mutation, departed, moves>>

----------------------------------------------------------------------------
(* Navigation inside the tab. *)

IsRunning == page \in Pages \cup {"error"}

\* A link, or Back.
Navigate(p) ==
    /\ Move
    /\ IsRunning /\ (p # page \/ target # "none")
    /\ GoTo(p, cookie, request)
    /\ UNCHANGED <<backendVars, skew, cookie, page, entry, mutation, departed>>

\* An entry dated in the browser's future is not stale, until a failed gate leaves it invalidated.
IsStale(e) == BrowserAge(e) >= 0 \/ e.status = "error"

\* The layout's useSessionQuery refetches a stale entry when the window gets the focus.
FocusWindow ==
    /\ Move
    /\ page \in Protected /\ entry.session # None /\ IsStale(entry)
    /\ request = NoRequest
    /\ request' = Sent(cookie)
    /\ UNCHANGED <<backendVars, skew, cookie, page, target, entry, mutation, departed, hopeless>>

\* The backend judges the request.
Evaluate ==
    /\ request # NoRequest /\ request.answer = "none"
    /\ \E answer \in Answers(request.cookie) : request' = [request EXCEPT !.answer = answer]
    /\ UNCHANGED <<backendVars, skew, cookie, page, target, entry, mutation, departed, hopeless,
                   moves>>

\* shouldRetryFailedQuery: a server error, a bounded number of times; never a refusal.
ShouldRetry == request.answer = "down" /\ request.attempt < MaxAttempts

Retry ==
    /\ ShouldRetry
    /\ request' = [cookie |-> cookie, attempt |-> request.attempt + 1, answer |-> "none"]
    /\ UNCHANGED <<backendVars, skew, cookie, page, target, entry, mutation, departed, hopeless,
                   moves>>

\* The gate's navigation is over once it is let by, aborted, or sent where the tab already is; a
\* redirect needs a gate of its own, except that it stands aside during hydration.
IsOver(destination) == destination \in {target, page, "aborted"} \/ page = "hydrating"

\* An aborted navigation leaves the tab on the page it had; only the first one, which has none yet,
\* ends on the error page.
Arrival(destination) ==
    CASE destination # "aborted"                        -> destination
      [] destination = "aborted" /\ page = "hydrating" -> "error"
      [] OTHER                                          -> page

\* The answer reaches the tab: the entry takes it, and the gate that waits for it decides.
Deliver ==
    /\ request.answer # "none" /\ ~ShouldRetry
    /\ entry' = IF request.answer = "user" THEN Fetched(request.cookie, FALSE)
                ELSE [entry EXCEPT !.status = "error"]
    /\ LET destination == Destination(target, Outcome(request.answer), request.cookie)
       IN \/ /\ target = "none"
             /\ request' = NoRequest
             /\ UNCHANGED <<page, target, hopeless>>
          \/ /\ target # "none" /\ IsOver(destination)
             /\ page' = Arrival(destination) /\ target' = "none"
             /\ request' = NoRequest
             /\ hopeless' = FALSE
          \/ /\ target # "none" /\ ~IsOver(destination)
             /\ GateFor(destination, cookie, NoRequest)
             /\ UNCHANGED page
    /\ UNCHANGED <<backendVars, skew, cookie, mutation, departed, moves>>

----------------------------------------------------------------------------
(* Signing in and out. *)

SubmitSignIn ==
    /\ Move
    /\ page = "login" /\ mutation = NoMutation
    /\ mutation' = [NoMutation EXCEPT !.kind = "signIn"]
    /\ UNCHANGED <<backendVars, skew, cookie, page, target, entry, request, departed, hopeless>>

\* The protected layout offers it once the session has resolved.
SubmitSignOut ==
    /\ Move
    /\ page \in Protected /\ entry.status = "success" /\ mutation = NoMutation
    /\ mutation' = [kind |-> "signOut", session |-> cookie, isAnswered |-> FALSE]
    /\ UNCHANGED <<backendVars, skew, cookie, page, target, entry, request, departed, hopeless>>

IsSent(kind) == mutation.kind = kind /\ ~mutation.isAnswered
IsAnswered(kind) == mutation.kind = kind /\ mutation.isAnswered

Revoked(c) == [s \in Sessions |-> IF s = c /\ IsLive(s) THEN "dead" ELSE life[s]]

CommitSignIn(s) ==
    /\ IsSent("signIn")
    /\ life[s] = "unborn"
    /\ life' = [life EXCEPT ![s] = "live"]
    /\ mutation' = [kind |-> "signIn", session |-> s, isAnswered |-> TRUE]
    /\ UNCHANGED <<deadFor, skew, cookie, page, target, entry, request, departed, hopeless, moves>>

CommitSignOut ==
    /\ IsSent("signOut")
    /\ life' = Revoked(mutation.session)
    /\ mutation' = [mutation EXCEPT !.isAnswered = TRUE]
    /\ UNCHANGED <<deadFor, skew, cookie, page, target, entry, request, departed, hopeless, moves>>

\* Refused, or its answer lost: neither mutation touches the cache.
FailMutation ==
    /\ mutation # NoMutation
    /\ mutation' = NoMutation
    /\ UNCHANGED <<backendVars, skew, cookie, page, target, entry, request, departed, hopeless,
                   moves>>

\* useSignInMutation and useRegisterMutation: the entry is written, and on to the dashboard.
ReceiveSignIn ==
    /\ IsAnswered("signIn")
    /\ cookie' = mutation.session
    /\ entry' = Fetched(mutation.session, FALSE)
    /\ mutation' = NoMutation
    /\ GoTo("dashboard", mutation.session, request)
    /\ UNCHANGED <<backendVars, skew, page, departed, moves>>

\* Mutant: the entry is emptied, but what is outstanding may still fill it.
AfterReset(outstanding) == outstanding

\* removeQueries: the entry's request is cancelled with it, and its answer is nobody's.
AfterRemoval(outstanding) == NoRequest

\* useSignOutMutation and the layout: the entry is removed, and on to the login page.
ReceiveSignOut ==
    /\ IsAnswered("signOut")
    /\ cookie' = None
    /\ entry' = NoEntry
    /\ mutation' = NoMutation
    /\ departed' = departed \cup ({mutation.session} \ {None})
    /\ GoTo("login", None, AfterRemoval(request))
    /\ UNCHANGED <<backendVars, skew, page, moves>>

----------------------------------------------------------------------------
(* Other tabs of the browser, other devices, and time. *)

\* A session ends: expired, signed out or its password changed; another tab also drops the cookie.
Revoke(s) ==
    /\ Move
    /\ IsLive(s)
    /\ life' = Revoked(s)
    /\ cookie' \in {cookie} \cup (IF cookie = s THEN {None} ELSE {})
    /\ UNCHANGED <<deadFor, skew, tabVars>>

SignInElsewhere(s) ==
    /\ Move
    /\ life[s] = "unborn"
    /\ life' = [life EXCEPT ![s] = "live"]
    /\ cookie' = s
    /\ hopeless' = FALSE
    /\ UNCHANGED <<deadFor, skew, page, target, entry, request, mutation, departed>>

Older(age) == IF age = Horizon THEN age ELSE age + 1

Tick ==
    /\ deadFor' = [s \in Sessions |-> IF life[s] = "dead" THEN Older(deadFor[s]) ELSE 0]
    /\ entry' = IF entry.session = None THEN entry ELSE [entry EXCEPT !.age = Older(@)]
    /\ UNCHANGED <<life, skew, cookie, page, target, request, mutation, departed, hopeless, moves>>

----------------------------------------------------------------------------

\* What goes on without anybody doing anything.
Settle == Render \/ Hydrate \/ Evaluate \/ Retry \/ Deliver

Mutate ==
    \/ SubmitSignIn \/ SubmitSignOut \/ CommitSignOut \/ FailMutation
    \/ ReceiveSignIn \/ ReceiveSignOut
    \/ \E s \in Sessions : CommitSignIn(s)

Next ==
    \/ Settle
    \/ Mutate
    \/ \E p \in Pages : LoadPage(p) \/ Navigate(p)
    \/ FocusWindow
    \/ \E s \in Sessions : Revoke(s) \/ SignInElsewhere(s)
    \/ Tick

Spec == Init /\ [][Next]_vars

\* Renders, hydrations and requests go on and end; nothing makes anybody act.
FairSpec == Spec /\ WF_vars(Settle)

----------------------------------------------------------------------------
(* Properties. *)

\* useSignOutMutation.ts:31-34: once this tab has signed out of a session, no late answer brings it
\* back into the cache, however many requests were outstanding.
SignOutIsFinal == entry.session \notin departed

\* What nobody in the tab has done.
GoesOnByItself == moves' = moves /\ mutation' = mutation

\* Spec B-12, readSessionOutcome.ts:10-12 and requireSession.ts:8-9: a gate that asked for itself
\* when the visitor's session was already over never lets them in, whatever the cache still holds of
\* it.  Whoever is on a protected page afterwards was there before, because the backend could not
\* say, and the layout has no success of the session query left to show its content by.
RevokedIsTurnedAway ==
    [][hopeless /\ target # "none" /\ target' = "none" /\ GoesOnByItself =>
         \/ page' \notin Protected
         \/ page' = page /\ entry'.status = "error" /\ request.answer # "unauthorized"]_vars

\* A gate sends somebody who asked for a protected page to the login page.
IsBounced ==
    /\ target \in Protected /\ page # "login" /\ "login" \in {target', page'}
    /\ GoesOnByItself

\* auth.md:13: a backend that is down, or refuses for another reason, signs nobody out: whoever a
\* gate sends to the login page had asked with a cookie that names no live session.
OutageSignsNobodyOut ==
    [][IsBounced => ~IsLive(IF page = "loading" THEN cookie ELSE request.cookie)]_vars

\* hasRecentServerSession.ts:11-16: a page that is shown without asking again was signed in at most
\* a window ago, and a browser whose clock is behind adds no more than that to it.
TrustIsBounded ==
    [][page = "arriving" /\ page' \in Protected /\ target' = "none" =>
         IsLive(entry.session) \/ deadFor[entry.session] < Window + Behind(skew)]_vars

\* Spec B-45: the two gates never send a visitor back and forth: every navigation ends.
NavigationSettles == target # "none" ~> target = "none"
=============================================================================
