# Formal verification of the template

TLA+ models of the parts of this repository, server and browser, whose correctness depends on the order in which
requests, jobs and failures meet, TLC configurations that check them on small instances, and
theorems about them that TLAPS checks for every instance. Sources are cited relative to
`src/apps/server/app/` unless a path starts elsewhere.

## The system

A FastAPI server (`src/apps/server/app`), an arq worker that shares its code and database, and a
Nuxt client (`src/apps/client/web`). State lives in Postgres; Redis holds the job queue and the
rate-limit counters. Requests run concurrently on one event loop per replica, with several
replicas; every `await` may be interleaved with, cancelled by the request timeout or cut off by a
crash, and Postgres runs at READ COMMITTED, so each statement sees its own snapshot and re-reads a
row it had to wait for.

| Component | State | Operations | Interacts with | What makes it correct |
|---|---|---|---|---|
| Idempotency keys (`middleware/idempotency.py`, `repositories/request_idempotency_keys.py`) | one row per (key, user): identity, state, lease, token, stored answer, created_at | claim, read, take over, complete, release, clean up | every keyed POST/PUT handler; the request timeout around it | a handler alone in its claim; a stored answer closes the key for 24 h; a replay is the answer of the same request |
| Billing webhook (`services/billing/`, `repositories/billing_webhook_events.py`, `user_subscriptions.py`) | event ledger; one subscription row per user | claim event, apply one of five handlers, mark processed or failed, clean up | Stripe's at-least-once, unordered delivery; the users row lock | each event once; acknowledged means applied; newest event shown; a customer belongs to one user |
| Accounts, sessions, resets (`services/auth/`, `repositories/users.py`, `user_sessions.py`, `user_password_resets.py`, `workers/jobs/send_password_reset_email.py`) | users row, its sessions, its reset rows, queued jobs | register, sign in, sign out, change password, ask for, issue, mail and use a reset link | the queue and its retries; the email provider; row locks | no session outlives its password; at most one link works, once |
| Request timeout (`middleware/request_timeout.py`) | a deadline per request | cancel the handler | everything inside it | whatever it cancels is rolled back or released |
| Rate limiter (`middleware/rate_limit.py`) | a counter per bucket and window, in Redis or in memory | count, refuse, fall back | Redis outages | the limit on credential attempts holds under interleaving and outages; windows end |
| Cleanup job (`workers/jobs/delete_expired_rows.py`, the three `delete_*_batch`) | the table it is at, the rows its open batch has locked | snapshot, lock or skip each row, delete, go on with the next batch or table | requests that lock, renew and delete the same rows; arq's cron and timeout | deletes only what is expired when it goes; holds one batch at most; leaves no backlog behind |
| Checkout (`routers/billing.py`, `services/billing/create_checkout_url.py`, `clients/stripe.py`) | none here; Stripe remembers the idempotency key | call Stripe under the key of the claim's generation, answer its URL | the idempotency middleware around it; Stripe's own replay of a key | one session per claim unless the claim was released; a released failure is not replayed |
| Middleware chain (`main.py`), CSRF guard, request context, security headers, body limit | none per request | refuse or pass on | each other, by order | whichever layer answers, its headers, and what the request has done before; one answer per request |
| Current user, admin guard (`dependencies/`) | none | resolve a cookie | sessions | a revoked session resolves to nobody |
| Portal, uploads, admin list, health, settings, provider clients | none | one call or read each | providers | pure I/O |
| Client session gates (`middleware/*.ts`, `services/session/`, `composables/useSession*`) | the session query's cache entry | fetch, trust, forget, redirect | hydration, navigation, sign-in and sign-out | a signed-out visitor is never shown as signed in; an outage signs nobody out |
| Client modal and toast state (`composables/`) | open dialogs, queued messages | open, close | the router | |
| Client server routes (proxy, cookie gate, request id, address resolution) | none | decide from one request | the backend | |

The hard behaviours, each listed with its line in `PROJECT.json` under `hazards`: statements of
one request interleaved with another's; a claim that outlives or is outlived by its holder; a
timeout that lands after a commit; a crash between two transactions; events repeated, delayed and
reordered; clocks compared with `<` on one side and `>` on the other; lock orders that cross; a
retry of what had in fact succeeded.

## Modules

| Module | Role |
|---|---|
| `IdempotencyKeys` | the claim protocol on one (key, user) row |
| `StoredOnce` | abstract: generations, commits and one stored answer, without rows or time |
| `CheckoutSessions` | the checkout route as the handler of such a claim, and Stripe's memory of keys; extends `IdempotencyKeys` |
| `SubscriptionRows` | the statements on `user_subscriptions`, as operators |
| `BillingWebhook` | ledger, deliveries and handlers; extends `SubscriptionRows` |
| `AuthAccounts` | one account through the authentication routes and the reset job |
| `AccountAtOnce` | abstract: every route takes effect in one step |
| `RateLimiter` | the two counters of one client address, in Redis and in memory |
| `RequestPipeline` | the middleware chain around the routes; extends `RateLimiter` and has a claim |
| `ExpiredRowsCleanup` | the hourly cleanup job over its three tables, beside the requests that use the rows |
| `RowsAtOnce` | abstract: rows that expire and are cleaned up in one step, without batches, snapshots or runs |
| `SessionGate` | one browser tab: session query, route gates, render and hydration, mutations |
| `MC*` | values of the constants that a `.cfg` cannot write, and symmetry |
| `*_proofs` | the inductive invariants and theorems |

`PROJECT.json` maps every definition to the lines it stands for.

### IdempotencyKeys

`row` is the row, `pc`, `identity`, `bornAt`, `gen`, `startedAt`, `result`, `fate`, `answer` and
`replayOf` are what the middleware's task holds for each request and what its client saw.
A request inserts (`ClaimIdempotencyKey`), or judges the row it met (`JudgeStoredClaim`), or takes
it over (`TakeOverIdempotencyKey`) and judges once more if that took nothing; each of them is a
transaction of its own, as in `resolve_claim`. The insert is one step: `ON CONFLICT DO UPDATE`
locks the conflicting row even if its `WHERE` is false. The handler commits, refuses, fails or is
cancelled; then its answer is sent, and the claim is completed, released, or the settlement is
lost. Any step may lose its connection, and the process may die. `DeleteStaleKey` is the cleanup.

Time is discrete, and it does not pass the deadline of a live request: the request timeout
surrounds resolving and handling, and cancels. The lease is at least the timeout
(`constants/idempotency.py`): that is the one assumption about time the proofs need. `IsClaimable` uses `<` and `IsWithinReplayWindow` uses `>` as the statements do,
so the instant at which a row is neither is explored.

### CheckoutSessions

`POST /v1/billing/checkout` is the one handler that calls a provider with an idempotency layer of
its own. The module keeps every action of `IdempotencyKeys` and puts the route in the handler's
place (`HandleCheckout`): the call is sent once (`CallStripe`), it reaches Stripe at any later
time, also when its handler has given up or died (`StripeActs`), and the answer reaches the
handler if that still waits and nothing is lost. The route commits only on an answered session
(`CommitCheckout`); without one it may only fail, be refused before the call, or be cancelled.
`StripeKey(r)` is `gen[r]`: `bind_claim_generation` hashes user, key and `created_at`, which a
takeover keeps and a release or the window's end renews. Stripe answers a key it knows from
memory, failures included, and may forget it after `KeyRetention`. `source[r]` is the call whose
work answered `r`, `outcome` what that work was, `calledAt` when the call arrived.

Not modelled: Stripe's refusal of a second call while the first of the same key is still at work
(it is one more failure, which `FailCheckout` allows), and calls without a client key, which
promise nothing. Stripe's remembering is external; the module states it as `AnswerFromMemory` and
`AnswerAfresh`.

### SubscriptionRows and BillingWebhook

An event's content (`EventOf`) is a constant: kind, user, customer, subscription, `created`,
position in Stripe's own order, status. A delivery (`Deliveries` are slots, reused) claims the event, skips it, is refused
with 409, or runs the handler: an update of the row naming the subscription; failing that the
users row is locked, the customer looked up, and the row linked or upserted. The write and
`mark_webhook_event_processed` commit together. A unique violation or any other failure leads to
`MarkEventFailed`, which may fail too. Updates of one row hold its lock to the commit and are one
step; the user's lock is a variable, held from the lookup to the commit; the lookup and the write
are two steps, because another user's transaction fits between them. `SubscriptionAssumption`
says what Checkout guarantees: all events of one subscription name one user and one customer.
The cleanup (`DeleteStaleWebhookEvent`) looks at `attempted_at` alone in the code; in the model it also
asks that the event was acknowledged. That stands for the 30 days of retention against the three
after which Stripe gives up, which the model's ages are too short to tell apart: an event that
never succeeded in those three days is outside what `EventuallyApplied` assumes of Stripe. Ages are counted up to one past the stale age, where comparisons stop changing.
A row that names no subscription is representable but no write of the application makes one.
No code deletes a user, so the missing-user branch is an event naming nobody of `Users`.

### AuthAccounts

One account. `user`, `sessions`, `unused` are the tables; `userLock` is the row lock that
`lock_user_*` takes; `seen` is the row as its holder read it; `asked` what a request asks. Postgres
re-reads a row it waited for, so `LockUser` reads the latest version. Between two waits nothing
another transaction does can matter, so the statements up to the next wait, and the commit, are
one step. Registration is two steps, because the unique index makes a second one wait between
them. A reset takes the link's lock (`ConsumeReset`) and then the user's; the job takes the
user's and then deletes the link; `BreakDeadlock` is Postgres aborting either. The job is one
transaction and then a call of the provider that may be refused, or accepted with the answer lost
(`SendEmail`, `FailSend`), retried up to the limit with a new link each time (`<<job, try>>`).
Requests submit only links that were mailed and cookies of requests that were answered; a session
is resolved before the request waits for the lock, as `current_user.py` does in a read of its own.
Any request or try may fail at any point (`Fail`) within `MaxFaults`.

Left out: `touch_session` (only tests call it), roles, the text of emails, foreign-key locks of
tables that refer to `users`, tokens colliding.

### RateLimiter and RequestPipeline

`RequestPipeline` is the composition: the order of the layers, from the two that
Starlette and `register_middleware` put outermost to the route, is the function `Depth`, and a
request is a slot with a depth and a direction (`at`, `phase`). Going in, it stops at the layers
that decide (`Deciding`): the body limit, CORS, the limiter, the guard, the idempotency layer, the
exception handlers, the route; each passes it on or starts a response (`Start`). A response passes
every layer outside the one it starts from (`Passes`): which headers it collects follows from
`from`, and `isByHand` marks the one whose headers `handle_unexpected_error` sets itself. An
exception travels outward in the phase `raising`; the deadline turns what is inside the timeout
layer into one. `FinishResponse` and `SettleClaim` are the end of a response and the shielded
settlement after it; a deadline that falls into it ends the request, and the settlement runs on
alone (`SettleAlone`, the task in `PENDING_SETTLEMENTS`). The idempotency claim is one variable
here, `key`: which slot holds it, or that it is free, settling alone, stranded or completed; its row,
lease and takeover are `IdempotencyKeys`. An attempt to claim that fails or is cancelled may have
been committed all the same, and then the key is stranded (`AfterLostClaim`).

`RateLimiter` holds what the requests of one client address share: Redis counts a bucket and arms
its expiry in one script, hence one step, while a request of an auth path takes two such steps
with others between them; memory counts every bucket in one step, because nothing awaits there.
A Redis call may fail with or without having counted. Counts saturate at the limit, where more of
them decide nothing. `credentials` is a history variable: auth requests let through in the open
window of each counter.

### ExpiredRowsCleanup

`row` and `lock` are the rows of the three tables and who has each locked; `phase`, `table` and
`toScan` are the job. A batch is one SQL statement, but Postgres takes its snapshot once and locks
row by row while other transactions commit, so it is many steps: `BeginBatch` takes the snapshot,
`Visit` comes to one row, which a request may hold (skipped), may have renewed or deleted since
(passed over after the re-check), or which is locked; `CommitBatch` deletes what was locked and
goes on (`GoOn`): a full batch means another, a short one the next table or the end. `FailRun` is a
database failure, the job's timeout or the worker's death: the batch rolls back, and the run is
not retried. Requests hold a row between two steps of the job (`LockForRequest`, `EndRequest`) and
renew it (keys, events), delete it, or leave it; sessions are never extended. `due` and `skipped`
are history variables: the rows that were expired when the job came to the table, and those the
current batch passed over.

A row that is inserted is in nobody's snapshot and expires no earlier than a day later, so it is
inserted between runs only. The run never overlaps another: its timeout is half an hour
(`constants/cleanup.py`) and arq gives a cron job one unique run per hour.

### SessionGate

`entry` is the session query of the tab's cache, `request` its one outstanding fetch, which
carries the cookie of the moment it was sent, `mutation` the sign-in or sign-out in flight;
`life`, `deadFor` and `cookie` are the backend's sessions and the browser's cookie; `page` and
`target` what the tab shows and where a gate has yet to let it go. A full load passes
`sessionCookieGate` and the route gates on the server (`Render`) and the same gates while it
hydrates (`Hydrate`), where `hasRecentServerSession` may trust the render. Inside the tab every
gate refetches (`GateFor`), joining a fetch that is already out. The backend judges the request
(`Evaluate`), server errors are retried, and the answer is delivered later still (`Deliver`).

What a gate decides is not where the tab ends up. `requireSession` aborts with an error that is
not fatal when the backend cannot say who is there: on the server, and in the first navigation of
a page whose render was not trusted (`hydrating`: painted, but not mounted, so nobody can use it),
that is the error page; inside the tab the router rejects the navigation and the visitor stays
where they were (`Arrival`), on a page that may be protected. The failed fetch has put the session
query into its error state by then, so the layout withdraws the page's content and its sign-out
control; focus, links and reloads go on from there. A navigation supersedes the pending one, one to
the page the tab is on needs no gate (`GoTo`), and a redirect during hydration needs none either
(`IsOver`). How Nuxt and its router do this is external to the repository.

Other tabs and devices revoke sessions and replace the cookie at any time. `departed` and
`hopeless` are history variables: sessions signed out of here, and whether the pending gate sent
its own request when the cookie was already worth nothing.

Ages are counted in ticks up to `Horizon`, one value past what `Window` and the clocks can tell
apart. The clock skew is any of `Skews`.

## Runs

| Run | What it shows |
|---|---|
| `idempotency_safety` | handler alone in its claim; stored answer closes the window; generations end by release; replay faithful; completed row final; implements `StoredOnce` |
| `idempotency_twice` | **violation**: a second commit without any crash or lost settlement |
| `checkout` | a second Checkout session needs a released claim; no released call's answer is replayed; every request of the claim protocol and of the checkout ends (fair steps) |
| `webhook_safety` | applied once; acknowledged is applied; newest event wins; rows only move forward |
| `webhook_liveness` | two users: customers are not shared; every event is eventually applied (fair steps, redelivery) |
| `webhook_resubscribe` | **violation**: a second subscription is never linked |
| `auth_safety` | sessions current; one link; a link once; implements `AccountAtOnce` |
| `auth_liveness` | every request and job ends |
| `pipeline` | every response is decorated; cross-origin callers are served; refused requests leave no trace; a held claim has a request; the auth limit holds; one answer per request; every request and every window ends |
| `cleanup` | the job holds one batch at most; implements `RowsAtOnce`: each row goes as if in one step, expired and held by nobody; leaves a table only when its backlog is gone; an expired row goes in the end |
| `session_gate` | sign-out is final; the revoked are turned away; an outage signs nobody out; trust is bounded; every navigation settles |
| `auth_delivered` | **violation**: the delivered link may be retired by the retry of its own send |

The type invariant of every module is a theorem, so no run spends its time on it.

Each property has a mutant in `PROJECT.json`: a definition with a plausible bug (a `WHERE` without
its token, a lock not taken, a counter not counted) under which the same run fails.

### Bounds, and why they are enough

- `idempotency_safety`: three requests (a holder, the one that supersedes it, and one that meets
  the result), two identities (the same operation, another one), timeout and lease of one tick, a
  window of three, five ticks: enough for a lease to lapse, a takeover, a second lapse and a
  window to end. With this timeout no window ends under a live handler; the theorems, which hold for
  every timeout and window, cover that. 1.6 million states.
- `checkout`: two requests of two identities, a holder and the one that takes its claim over or claims
  the key afresh; the window is three ticks and so is Stripe's memory, the tightest retention
  the assumption allows; five ticks. 879 thousand states. Two calls are what a second session
  or a replay needs; the proofs have any number.
- `cleanup`: a session and three keys with batches of two, so that a full batch, a short one and an
  empty one follow each other in one run and a third table is empty; each row live or expired at first;
  two failed runs. 217 thousand states.
- `webhook_safety`: a subscription's first event, a failed payment, the recovery after it, and
  another subscription's checkout for the same user; two concurrent deliveries, which is what two
  claims or two handlers need to collide. No two events of one subscription are of the same second
  here; the theorems have any. 2.8 million states. `webhook_liveness` has a second user
  whose metadata names the same customer, and an event that names nobody; two deliveries, because
  the race is between one user's lookup and the other's write. It has no symmetry. A fault lets a
  handler, its marking or a delivery die, after which the other one goes on.
- `auth_safety`: one request of each kind, two resets of the same link, one job with two tries,
  two passwords, one fault. 2.2 million states. Two jobs side by side and two password changes are in the
  proofs only. Sign-outs are in `auth_liveness` and in the
  proofs only. Two registrations meet in `auth_liveness`.
- `pipeline`: two requests at once, which is what two increments, or a holder and one that meets
  its claim, need; eight shapes of request, one for each answer of each layer; a deadline of one
  tick, a window of two, an auth limit of one and a global limit of two, so that each limit is
  reached and the global one later. Four servers: production with and without Redis, development
  with and without. Each is given the shapes that matter to it, because the limiter's counters and
  all shapes at once multiply. 132 thousand states; the proofs have no such restriction.
- `session_gate`: two sessions, one of an administrator; a window of two ticks with the browser's
  clock one tick ahead, level or behind; two attempts; three moves of users and devices, enough
  for a sign-out, a sign-in elsewhere and a navigation around one outstanding request. 678
  thousand states.
- Every name of an actor is a model value; symmetry is used in safety runs only.
- Deadlock is checked in the webhook, pipeline, session and cleanup runs. The requests of the
  `IdempotencyKeys`, `CheckoutSessions` and `AuthAccounts` runs are finitely many and run once each, so those systems rightly stop when all
  are answered; that none stops earlier is what `EveryRequestEnds` of `checkout` and
  `auth_liveness` checks.

### Fairness

- `CheckoutSessions`, and with it `IdempotencyKeys`: weak fairness of each request's next step: the
  event loop schedules every ready task, and every await is bounded by the timeout. Stripe owes no
  answer. No fairness of faults, crashes or time. Of `StripeActs` the property needs none: a call
  that is never answered ends with the call's own timeout (`FailCheckout`).
- `ExpiredRowsCleanup`: weak fairness of the job's next step: the worker is up, arq starts the job
  every hour and the database answers its statements. Requests and time owe nothing: that a
  request leaves a row alone in the end is a premise of `ExpiredRowsGo`, stated in it.
- `BillingWebhook`: weak fairness of each delivery's step and of time; strong fairness of
  delivering an event Stripe has not been acknowledged for, which is Stripe's documented retry
  (the model's slots are taken and given back, so weak fairness would not express it).
- `AuthAccounts`: weak fairness of each actor's own step (event loop, arq's polling, lock queues)
  and of Postgres's deadlock detector. Nothing makes a user ask, a session expire or a fault
  happen.
- `RequestPipeline`: weak fairness of each request's step inside the chain and of time. Not of
  `LimitBody`: the body is read before the deadline starts, and a client may never send the rest.
  Not of the route: one that never answers is what the deadline is for.
- `SessionGate`: weak fairness of `Settle`, what goes on without anybody acting: renders,
  hydration, requests, retries. Nothing makes a user, another tab or the clock move, and nothing
  in the liveness property needs it.

## Findings

1. `middleware/idempotency.py:224` releases the claim on whatever leaves the application, also
   on a cancellation while a committed answer is being sent. The shield that
   lines 229-231 describe starts only after that. The retry runs the handler again.
2. `repositories/user_subscriptions.py:75` refuses a new subscription for a user whose row names a
   cancelled one; the module's docstring (lines 6-7) says the row is pointed at the new one.
3. `workers/jobs/send_password_reset_email.py:46` retries any failed send, also one the provider
   accepted; lines 9-10 say only the link actually delivered works.

Observed while modelling, and not runs:

- `repositories/user_subscriptions.py:161` accepts an event of the same second as the last one
  applied, and Stripe's `created` counts whole seconds: of two events of one second the order of delivery
  decides. `docs/user-stories/billing.md:49` promises Stripe's order. `NewestEventWins` is about
  `created`, and leaves ties open.
- A Checkout call that times out after Stripe opened the session releases the claim, as any
  failure does; the retry is a new generation, hence a new Stripe key, and opens a second session.
  That is the price of not meeting a saved failure again, which `SecondSessionNeedsRelease` and
  `ReleasedCallIsNotReplayed` state from both sides.
- If the release itself is lost (a crash, or the database away), the claim is taken over under the same
  generation, and Stripe repeats its saved failure to the handler that took over. That one's
  release ends it.
- `db/tables.py:96-98` says an index on `user_password_resets.expires_at` serves the cleanup job;
  the job (`delete_expired_rows.py:32-36`) never deletes from that table.
- `main.py:290-294` says the 500 never passes back through the correlation middleware. The handler
  of a driver error that is no lost connection (`main.py:249-264`) returns the same response from
  inside the chain, where the middleware adds a second `X-Request-Id` (`RequestIds` is 2).
- `main.py:150-163` lists the correlation layer outermost and the security headers after it; the
  code, and the comment at 186-193, has them the other way round.
- The 413 of the body limit and the 500 of `ServerErrorMiddleware` start outside the CORS layer
  and carry no CORS headers; `CrossOriginCallersAreServed` is about the limiter's refusals only.
- `request_context.py:84-98` reads the body before the deadline starts, so a client that stops
  sending is not bounded by it; `EveryRequestEnds` starts once the body is here.
- `hasRecentServerSession.ts:13-16` says a skew in either direction only costs a request. A browser
  clock that is behind extends the trust by as much: `TrustIsBounded` states the bound that holds.
- `readSessionOutcome.ts` says a gate asks the backend regardless; it joins a fetch that is already
  out, also one sent before a sign-in. The next gate corrects what such an answer decides, and
  `RevokedIsTurnedAway` is about gates that asked for themselves.
- `requireSession.ts:2` says the gate keeps a signed-out visitor off a protected page. A visitor who
  is already on one stays there while the backend cannot say, which lines 8-9 intend: what
  `RevokedIsTurnedAway` promises is that nobody gets in, that 401 sends them out, and that the session
  query claims no success meanwhile.

## Proofs

All `THEOREM`s are `Spec => []...` for every value of the constants that meets the named
assumptions; none is limited to the bounds above (`MaxTime`, `MaxFaults` are any naturals).

**Idempotency.** None of the safety properties is inductive alone. `IInv` adds: `AliveInTime` (a
live request is within its deadline), `LeaseOutlastsHandler` (so the lease of a row a live handler
holds has not lapsed, and `CanTakeOver` is false), `RowIsNewest` (the row's generation is the
newest), `PlaceTellsProgress`, `StoredIsOnRow` (a stored answer inside its window is the row) and
`NoHandlerInStored`. With it each property, and the step simulation of `StoredOnce`, follows
action by action.

**Checkout.** `CheckoutKeepsClaimProtocol` shows that every step of the checkout is a step of
`IdempotencyKeys` or leaves the claim alone, so `IInv` and its theorems carry over. `ClaimInv` adds to
`IInv` what a provider needs of generations: one generation has one birth (`BirthsAreKnown`), it has a
successor only if it was released or its window passed (`GenerationsEnd`), and a released one has
neither row nor handler (`ReleasedIsOver`). `CheckoutInv` adds that Stripe answers a call from one
of the same generation (`CallsAreOrdered`), works twice for one key only `KeyRetention` apart
(`KeysAreRemembered`), and that whoever's call answered another handler has lost its claim
(`SourceIsSuperseded`); `ReleasedCallIsNotReplayed` is inductive with the last of these, since a
release needs the claim. `SecondSessionNeedsRelease` follows: two sessions of one generation are
`KeyRetention >= Window` apart, two of different ones need a release or the window's end.
`RetentionAssumption` is Stripe's 24 hours against the 24-hour replay window.

**Cleanup.** `CleanupInv` says the snapshot is of the table the job is at (`ScansItsTable`), a row
the job holds is still expired (`HeldIsExpired`: a request cannot hold it too), and every due row
is still to come, held or skipped (`DueIsExpired`, `DueIsSeen`). The bound of the batch
is `FS_AddElement` of the library. That a batch which ends short has scanned everything is what
makes `BacklogIsCleared` follow: `CommitBatch` stops early only at the limit.
`RowsGoAtOnce` is the refinement of `RowsAtOnce`, row by row (`EachRowSteps`): locking a row is a
stutter, committing a batch is the clean-up of each row in it. It is what allows `DeleteStaleKey`,
`DeleteStaleWebhookEvent` and `DeleteExpiredSession` to be single conditional steps in the other
modules. It needs `GoneIsFree` too: nobody holds a row that is not there.

**Webhook.** `LedgerInv` ties the ledger to the deliveries: a claim is younger than the delivery
that holds it, and a delivery lives at most `Timeout <= StaleClaimAge`, so no claim of a live
delivery is ever stale, and only the holder can apply. `RowInv` ties the rows to the applied
events: an event that carries a state was either written, or refused because a newer one or
another subscription stands there, or because its customer is another user's. The theorems about
rows use both, with `SubscriptionAssumption`.

**Accounts.** `HolderKnowsRow` (what the holder of the lock saw is still the row) is what makes a
password verified under the lock the current one; `LockedIsHolder`, `OneInsertion`,
`RowComesFirst` and `QuestionsAreWhole` say who can be where; `ConsumedIsHeld` and
`LinksAreNumbered` say a consumed link is held by one reset until it ends, and a link is never
issued twice. The refinement maps the link to the one element of `unused`; every
commit is one abstract step, every other action a stutter.

**Pipeline.** The safety properties but one are invariants of single slots; what they lack is where a
request can be: `SlotsAreWhole`, `TraceFollowsDepth` (a request still outside a layer has done
nothing of what is inside it) and `PreflightsStayOutside`. Each way a slot moves (descent,
refusal, answer, claim, raise, cancel, late answer, end) has a lemma, and each action is one or
two of those. `DescendIsNextStop` turns the choice of the next layer into a function. The limiter's
bound needs `CountersCoverCredentials`: a counter has counted every credential request it let
through, and an entry that is about to be forgotten covers nothing; and `AuthBucketIsForAuth`,
since an auth request passes after its second bucket only.

**Session gate.** `AnswersAreTrue` says what an answer in flight proves of the cookie it was asked
with, `DepartedAreDead` and `AnsweredIsDone` that a session signed out of was ended before the tab
heard of it, `HopelessHasAsked` that a gate which asked in vain still waits for its own request (so its answer
is no user, and `GatesDecide` leaves it the login page or an abort, which arrives nowhere new),
and `RenderedIsAsOld` that a rendered session has been over for no longer than the entry is old;
together with `SignOutIsFinal` they are inductive, and the action properties follow from them.

**Progress.** Liveness is out of the prover's reach, the two facts it rests on are not. The first is
a measure that every step lowers. `RequestsAdvance` gives a claim's request at most twelve steps of
its own, so that insert, read, takeover and insert again is no loop, whatever other requests do to
the row in between; `LeftToDo` adds the attempts left to the places left (`AttemptsAreCounted` bounds
them). `EveryoneAdvances` does it for the account's requests and email jobs, where a failed try goes
back to the lock and pays for it with one of `MaxTries`; it needs `PlacesAreRoutes`, since a try is
only ever aborted at a place of its route. `RunsEnd` says a cleanup run of n rows makes at most
n / BatchSize + 3 batches; rows inserted meanwhile do not expire within it. The second fact is that
somebody can always take a step. `NobodyWaitsInVain` proves it of the account's locks: a waiting
registration waits for one about to commit (`InserterIsInserting`), whoever waits for the account
waits for its holder (`HolderKnowsRow`), and a holder that waits is an email job, for a reset that
waits for it: the one circle there is, and the one `BreakDeadlock` opens. `MayGoOn` spells out the
guards of `Step`, because ENABLED cannot be used in a proof.

Only model-checked: liveness (`EveryRequestEnds`, `EveryWindowEnds`, `EventuallyApplied`,
`NavigationSettles`, `ExpiredRowsGo`; from the facts above to it take fairness and ENABLED, which the
prover cannot handle), and the three violations. TLC has confirmed each inductive invariant as well.

## Not modelled, and the plan

The core logic of the server and of the browser's session is modelled and every safety property of
the runs is proved. What remains, in the order of its worth:

1. More links between modules: `RequestPipeline`'s one-variable claim (`key`) as an abstraction of
   `IdempotencyKeys`, so that what is proved of the chain is about the real claim. It takes a pipeline
   in which a holder's lease can lapse before it settles.
2. Progress measures, as for the claim and the account, for the pipeline, the webhook's deliveries
   and the session gate.
3. The client's dialog stack and toasts: no properties beyond a stack's.
4. Pure rules of one request: client address resolution, forwarded paths, the proxy. They keep no
   state and their tests enumerate them.

Outside the models for good: provider calls without state of this program (the portal URL, R2,
analytics), uploads and the admin list, settings validation, the lifespan, rendering
(with the reset page's address cleanup), generated code, migrations and deployment files. A
payment failure delivered before its row exists is dropped by design; the row then shows
what its own event says.
