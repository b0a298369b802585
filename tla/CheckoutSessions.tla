-------------------------- MODULE CheckoutSessions --------------------------
(***************************************************************************)
(* POST /v1/billing/checkout under the Idempotency-Key middleware: the     *)
(* handler of IdempotencyKeys is the checkout route, which calls Stripe    *)
(* under an idempotency key of its own, derived from the claim's           *)
(* generation (services/billing/create_checkout_url.py).                   *)
(*                                                                         *)
(* Stripe remembers what it did under a key, a saved failure included, and *)
(* answers a later call of the same key from memory; it may forget a key   *)
(* once it is KeyRetention old.  A call may reach Stripe long after the    *)
(* handler that sent it has given up or died.                              *)
(***************************************************************************)
EXTENDS IdempotencyKeys

CONSTANT KeyRetention   \* Stripe keeps a key at least this long: 24 hours

(* Stripe remembers a key for as long as the middleware can replay or take over its claim. *)
ASSUME RetentionAssumption == KeyRetention \in Nat /\ Window <= KeyRetention

VARIABLES
    call,       \* each request's call: not made, on its way or unanswered, answered
    source,     \* whose call Stripe did the work for that it answered this one with
    outcome,    \* what Stripe did for a call it had not seen the key of before
    calledAt    \* when the call reached Stripe

checkoutVars == <<call, source, outcome, calledAt>>
allVars == <<vars, checkoutVars>>

CallStates == {"none", "sent", "answered"}
Outcomes == {"none", "session", "failure"}

CheckoutTypeOK ==
    /\ TypeOK
    /\ call \in [Requests -> CallStates]
    /\ source \in [Requests -> Requests \cup {None}]
    /\ outcome \in [Requests -> Outcomes]
    /\ calledAt \in [Requests -> Nat]

CheckoutInit ==
    /\ Init
    /\ call = [r \in Requests |-> "none"]
    /\ source = [r \in Requests |-> None]
    /\ outcome = [r \in Requests |-> "none"]
    /\ calledAt = [r \in Requests |-> 0]

----------------------------------------------------------------------------
(* Stripe. *)

\* Mutant: the key is the holder's claim token, which a takeover replaces.
StripeKeyOfToken(r) == r

\* Mutant: the key is the client's own Idempotency-Key, which a release does not change.
StripeKeyOfClient(r) == 1

\* build_checkout_idempotency_key of the bound claim generation.
StripeKey(r) == gen[r]

\* The calls under r's key that Stripe did something for, rather than answer from memory.
Originals(r) == {s \in Requests : source[s] = s /\ StripeKey(s) = StripeKey(r)}

\* Stripe answers from what it remembers of the key.
AnswerFromMemory(r) ==
    /\ \E s \in Originals(r) :
        /\ \A t \in Originals(r) : calledAt[t] <= calledAt[s]
        /\ source' = [source EXCEPT ![r] = s]
    /\ UNCHANGED outcome

\* Stripe knows nothing of the key, or has forgotten it: it opens a session, or saves a failure.
AnswerAfresh(r) ==
    /\ \A s \in Originals(r) : calledAt[s] + KeyRetention <= now
    /\ source' = [source EXCEPT ![r] = r]
    /\ \E o \in {"session", "failure"} : outcome' = [outcome EXCEPT ![r] = o]

\* The call reaches Stripe.  The answer reaches a handler that still waits for it, unless it is
\* lost or later than the call's own timeout.
StripeActs(r) ==
    /\ call[r] = "sent" /\ source[r] = None
    /\ AnswerFromMemory(r) \/ AnswerAfresh(r)
    /\ calledAt' = [calledAt EXCEPT ![r] = now]
    /\ \/ pc[r] = "run" /\ call' = [call EXCEPT ![r] = "answered"]
       \/ UNCHANGED call
    /\ UNCHANGED vars

\* Stripe answered the call with a session, whose URL the route returns.
HasSession(r) == call[r] = "answered" /\ outcome[source[r]] = "session"

----------------------------------------------------------------------------
(* The checkout route as the handler of a claim. *)

\* create_checkout_session sends its one attempt, under the key of the claim's generation.
CallStripe(r) ==
    /\ pc[r] = "run" /\ call[r] = "none"
    /\ call' = [call EXCEPT ![r] = "sent"]
    /\ UNCHANGED <<vars, source, outcome, calledAt>>

\* The route answers with the session's URL, a body that is always stored.
CommitCheckout(r) == HasSession(r) /\ CommitHandler(r, "ok")

\* The route raises: billing is not configured, Stripe failed, no answer came within
\* STRIPE_TIMEOUT_SECONDS, or the transaction fails to commit after Stripe has answered.
FailCheckout(r) == FailHandler(r)

\* The body or the session cookie is refused before Stripe is called.
RefuseCheckout(r) == call[r] = "none" /\ RefuseInHandler(r)

HandleCheckout(r) ==
    CommitCheckout(r) \/ FailCheckout(r) \/ RefuseCheckout(r) \/ CancelHandler(r) \/ SendResponse(r)

\* The steps of IdempotencyKeys, with the handler's being the checkout's.
ClaimStep ==
    /\ \/ \E r \in Requests :
            \/ \E i \in Identities : Arrive(r, i)
            \/ Resolve(r) \/ HandleCheckout(r) \/ Settle(r) \/ CrashHandler(r)
       \/ DeleteStaleKey
       \/ Tick
    /\ UNCHANGED checkoutVars

CheckoutNext ==
    \/ \E r \in Requests : CallStripe(r) \/ StripeActs(r)
    \/ ClaimStep

CheckoutSpec == CheckoutInit /\ [][CheckoutNext]_allVars

\* The event loop schedules every request's own steps; Stripe owes no answer.
OwnStep(r) ==
    \/ CallStripe(r)
    \/ (Resolve(r) \/ HandleCheckout(r) \/ Settle(r)) /\ UNCHANGED checkoutVars

FairCheckoutSpec == CheckoutSpec /\ \A r \in Requests : WF_allVars(OwnStep(r))

----------------------------------------------------------------------------
(* Properties. *)

IsOpened(r) == source[r] = r /\ outcome[r] = "session"

IsReleased(g) == \E t \in Requests : gen[t] = g /\ fate[t] = "released"

\* IAN-373: within the replay window of a claim a second Checkout session is opened only if a
\* holder of that claim released it, which it does when its client was told of a failure.  A crash
\* after Stripe's answer, a takeover, and a call that arrives late open none.
SecondSessionNeedsRelease ==
    \A r, s \in Requests :
        /\ r # s /\ IsOpened(r) /\ IsOpened(s) /\ gen[r] <= gen[s]
        /\ calledAt[r] < bornAt[r] + Window /\ calledAt[s] < bornAt[r] + Window
        => IsReleased(gen[r])

\* The other half of IAN-373: no handler is answered from Stripe's memory of a call whose request
\* has released its claim, so a retry after a failure does not meet the saved failure again.
ReleasedCallIsNotReplayed ==
    \A r, s \in Requests :
        call[r] = "answered" /\ source[r] = s /\ r # s => fate[s] # "released"
============================================================================
