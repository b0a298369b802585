--------------------------- MODULE BillingWebhook ---------------------------
(***************************************************************************)
(* Stripe's deliveries through the event ledger, billing_webhook_events,   *)
(* to the subscription rows (services/billing/process_webhook_event.py,    *)
(* services/billing/apply_webhook_event.py).                               *)
(*                                                                         *)
(* A delivery is a process: it claims its event in one transaction, applies *)
(* it and marks it processed in a second one, and marks it failed in a     *)
(* third when the second raised.  The ledger row and the conflicting user  *)
(* row stay locked while a claim decides, so the claim is one step; the    *)
(* second transaction is one step for each statement another delivery can  *)
(* slip in front of.  Stripe delivers an event as often as it likes.       *)
(*                                                                         *)
(* There is no clock: an attempt's age and a delivery's age count ticks,   *)
(* the first up to one past StaleClaimAge, where more makes no difference. *)
(***************************************************************************)
EXTENDS SubscriptionRows

CONSTANTS
    Events,         \* the Stripe events
    EventOf,        \* what each one says, see SubscriptionRows
    Deliveries,     \* deliveries in flight at once
    Timeout,        \* the request timeout
    StaleClaimAge,  \* STALE_CLAIM_MINUTES
    MaxFaults       \* bound of the model: how many handlers fail, deliveries die or marks are lost

ASSUME EventsAssumption ==
    /\ \A e \in Events :
        /\ EventOf[e].kind \in Kinds /\ EventOf[e].status \in Statuses
        /\ EventOf[e].user \in Users \cup {None}
        /\ EventOf[e].subscription # None /\ EventOf[e].customer # None
        /\ EventOf[e].created \in Nat /\ EventOf[e].position \in Nat
        /\ EventOf[e].kind = "payment_failed" => EventOf[e].status = "past_due"
    /\ None \notin Users /\ None \notin Deliveries /\ None \notin Events

\* A subscription is one customer's and one user's: Checkout writes the user's id on both.
ASSUME SubscriptionAssumption ==
    \A e, f \in Events : EventOf[e].subscription = EventOf[f].subscription =>
        /\ EventOf[e].customer = EventOf[f].customer
        /\ EventOf[e].user = EventOf[f].user

\* The timeout cancels a delivery long before another may take its claim for a crashed one's.
ASSUME AgeAssumption ==
    Timeout \in Nat /\ StaleClaimAge \in Nat /\ MaxFaults \in Nat /\ Timeout <= StaleClaimAge

VARIABLES
    ledger,     \* the status of each event in billing_webhook_events, "absent" for no row
    age,        \* how long ago each event was last attempted
    rows,       \* user_subscriptions, a row for each user
    userLock,   \* the delivery whose transaction holds each user's row
    pc,         \* where each delivery is
    delivered,  \* the event each delivery carries
    elapsed,    \* how long each delivery has run
    applied,    \* how often each event's transaction has committed
    acked,      \* the events Stripe got a 200 for
    retired,    \* the events whose row the cleanup deleted
    faults

ledgerVars == <<ledger, age, retired>>
vars == <<ledgerVars, rows, userLock, pc, delivered, elapsed, applied, acked, faults>>

----------------------------------------------------------------------------

Places == {"idle", "claim", "apply", "link", "write", "commit", "answer", "mark_failed"}

Row == [subscription : {None} \cup {EventOf[e].subscription : e \in Events},
        customer : {None} \cup {EventOf[e].customer : e \in Events},
        status : Statuses, lastEvent : Nat]

TypeOK ==
    /\ ledger \in [Events -> {"absent", "claimed", "processed", "failed"}]
    /\ age \in [Events -> Nat]
    /\ rows \in [Users -> Row]
    /\ userLock \in [Users -> Deliveries \cup {None}]
    /\ pc \in [Deliveries -> Places]
    /\ delivered \in [Deliveries -> Events \cup {None}]
    /\ elapsed \in [Deliveries -> Nat]
    /\ applied \in [Events -> Nat]
    /\ acked \subseteq Events /\ retired \subseteq Events
    /\ faults \in Nat

Init ==
    /\ ledger = [e \in Events |-> "absent"]
    /\ age = [e \in Events |-> 0]
    /\ rows = [u \in Users |-> NoRow]
    /\ userLock = [u \in Users |-> None]
    /\ pc = [d \in Deliveries |-> "idle"]
    /\ delivered = [d \in Deliveries |-> None]
    /\ elapsed = [d \in Deliveries |-> 0]
    /\ applied = [e \in Events |-> 0]
    /\ acked = {} /\ retired = {}
    /\ faults = 0

Content(d) == EventOf[delivered[d]]

GoTo(d, place) == pc' = [pc EXCEPT ![d] = place]

\* The delivery is answered, or gone: its slot is free, its transaction's locks are released.
End(d) ==
    /\ GoTo(d, "idle")
    /\ delivered' = [delivered EXCEPT ![d] = None]
    /\ elapsed' = [elapsed EXCEPT ![d] = 0]

Unlock(d) == userLock' = [u \in Users |-> IF userLock[u] = d THEN None ELSE userLock[u]]

----------------------------------------------------------------------------
(* Stripe delivers an event, again and again if it likes, and the delivery claims it. *)

Deliver(d, e) ==
    /\ pc[d] = "idle" /\ e \notin retired
    /\ GoTo(d, "claim")
    /\ delivered' = [delivered EXCEPT ![d] = e]
    /\ elapsed' = [elapsed EXCEPT ![d] = 0]
    /\ UNCHANGED <<ledgerVars, rows, userLock, applied, acked, faults>>

\* Mutant: a redelivery takes any unfinished claim.
IsClaimableAtOnce(e) == ledger[e] \in {"absent", "failed", "claimed"}

\* Mutant: a claim its holder left behind is never taken over.
IsClaimableUnlessClaimed(e) == ledger[e] \in {"absent", "failed"}

\* claim_webhook_event: no row yet, a failed attempt, or a claim its holder left behind.
IsClaimable(e) ==
    \/ ledger[e] \in {"absent", "failed"}
    \/ ledger[e] = "claimed" /\ age[e] > StaleClaimAge

ClaimWebhookEvent(d) ==
    LET e == delivered[d] IN
    /\ pc[d] = "claim" /\ IsClaimable(e)
    /\ ledger' = [ledger EXCEPT ![e] = "claimed"]
    /\ age' = [age EXCEPT ![e] = 0]
    /\ GoTo(d, "apply")
    /\ UNCHANGED <<rows, userLock, delivered, elapsed, applied, acked, retired, faults>>

\* Mutant: whatever the claim could not take is acknowledged.
SkipAnyUnclaimable(d) ==
    /\ pc[d] = "claim" /\ ~IsClaimable(delivered[d])
    /\ acked' = acked \cup {delivered[d]}
    /\ End(d)
    /\ UNCHANGED <<ledgerVars, rows, userLock, applied, faults>>

\* read_unclaimable_outcome: the event is processed, and the delivery answers 200.
SkipProcessedEvent(d) ==
    /\ pc[d] = "claim" /\ ledger[delivered[d]] = "processed"
    /\ acked' = acked \cup {delivered[d]}
    /\ End(d)
    /\ UNCHANGED <<ledgerVars, rows, userLock, applied, faults>>

\* read_unclaimable_outcome: another delivery's live claim, and this one answers 409.
RefuseEventInProgress(d) ==
    /\ pc[d] = "claim" /\ ledger[delivered[d]] = "claimed" /\ ~IsClaimable(delivered[d])
    /\ End(d)
    /\ UNCHANGED <<ledgerVars, rows, userLock, applied, acked, faults>>

----------------------------------------------------------------------------
(* The second transaction: the handler's writes and the processed mark commit together. *)

\* mark_webhook_event_processed, whatever the row's status, and the commit.
CommitProcessed(d) ==
    /\ ledger' = [ledger EXCEPT ![delivered[d]] = "processed"]
    /\ applied' = [applied EXCEPT ![delivered[d]] = @ + 1]
    /\ Unlock(d)
    /\ GoTo(d, "answer")
    /\ UNCHANGED <<age, retired, delivered, elapsed, acked, faults>>

\* The first statement finds the row by the subscription, as most events do.
UpdateKnownRow(d) ==
    /\ pc[d] = "apply" /\ Content(d).kind \in {"change", "payment_failed"}
    /\ Matching(rows, Content(d)) # {}
    /\ rows' = UpdateMatching(rows, Content(d))
    /\ CommitProcessed(d)

\* Nothing to write: no row for a failed payment, no user in the metadata.
IgnoreEvent(d) ==
    /\ pc[d] = "apply"
    /\ \/ /\ Content(d).kind = "payment_failed"
          /\ Matching(rows, Content(d)) = {}
       \/ /\ Content(d).kind = "change" /\ Content(d).user = None
          /\ Matching(rows, Content(d)) = {}
       \/ Content(d).kind = "checkout" /\ Content(d).user = None
    /\ CommitProcessed(d)
    /\ UNCHANGED rows

\* Nothing matched, or the event is a checkout: the user its metadata names is linked instead.
TurnToUser(d) ==
    /\ pc[d] = "apply" /\ Content(d).user # None
    /\ \/ Content(d).kind = "change" /\ Matching(rows, Content(d)) = {}
       \/ Content(d).kind = "checkout"
    /\ GoTo(d, "link")
    /\ UNCHANGED <<ledgerVars, rows, userLock, delivered, elapsed, applied, acked, faults>>

\* is_linkable_to_user: lock the user's row, then look for the customer on another user's row.
LockUser(d) ==
    LET user == Content(d).user IN
    /\ pc[d] = "link" /\ userLock[user] = None
    /\ userLock' = [userLock EXCEPT ![user] = d]
    /\ GoTo(d, IF IsCustomerFree(rows, user, Content(d)) THEN "write" ELSE "commit")
    /\ UNCHANGED <<ledgerVars, rows, delivered, elapsed, applied, acked, faults>>

\* The customer is another user's: the event is marked processed with no change.
CommitUnlinkable(d) ==
    /\ pc[d] = "commit"
    /\ CommitProcessed(d)
    /\ UNCHANGED rows

\* The row this delivery's upsert writes.
Written(d) ==
    LET row == rows[Content(d).user] IN
    IF Content(d).kind = "checkout"
    THEN LinkSubscription(row, Content(d))
    ELSE UpsertSubscription(row, Content(d))

WriteUserRow(d) ==
    LET user == Content(d).user IN
    /\ pc[d] = "write" /\ KeepsUnique(rows, user, Written(d))
    /\ rows' = [rows EXCEPT ![user] = Written(d)]
    /\ CommitProcessed(d)

\* Since the lookup another user got the customer: the unique constraint fails the handler.
ViolateUnique(d) ==
    /\ pc[d] = "write" /\ ~KeepsUnique(rows, Content(d).user, Written(d))
    /\ Unlock(d)
    /\ GoTo(d, "mark_failed")
    /\ UNCHANGED <<ledgerVars, rows, delivered, elapsed, applied, acked, faults>>

----------------------------------------------------------------------------
(* Failures. *)

\* The handler raises (HANDLER_FAILURE_TYPES): a database error, a payload that does not parse.
FailHandler(d) ==
    /\ pc[d] \in {"apply", "link", "write", "commit"} /\ faults < MaxFaults
    /\ faults' = faults + 1
    /\ Unlock(d)
    /\ GoTo(d, "mark_failed")
    /\ UNCHANGED <<ledgerVars, rows, delivered, elapsed, applied, acked>>

\* mark_webhook_event_failed: the claim is given back, and the delivery answers 500.
MarkEventFailed(d) ==
    LET e == delivered[d] IN
    /\ pc[d] = "mark_failed"
    /\ ledger' = [ledger EXCEPT ![e] = IF @ = "claimed" THEN "failed" ELSE @]
    /\ End(d)
    /\ UNCHANGED <<age, retired, rows, userLock, applied, acked, faults>>

\* The delivery ends with no more statements: the process dies, the timeout cancels it, a connection
\* is not to be had, or the mark failed as well.  What has committed stays, so a claim stays claimed.
AbandonDelivery(d) ==
    /\ pc[d] # "idle" /\ faults < MaxFaults
    /\ faults' = faults + 1
    /\ Unlock(d)
    /\ End(d)
    /\ UNCHANGED <<ledgerVars, rows, applied, acked>>

AnswerReceived(d) ==
    /\ pc[d] = "answer"
    /\ acked' = acked \cup {delivered[d]}
    /\ End(d)
    /\ UNCHANGED <<ledgerVars, rows, userLock, applied, faults>>

----------------------------------------------------------------------------
(* The hourly cleanup, and time. *)

\* delete_stale_webhook_events_batch looks at attempted_at alone.  Thirty days are too long for these
\* ages: what stands for them is that Stripe, which gives up after three, delivers the event no more,
\* because it was acknowledged.  Nothing happens to an event given up unacknowledged.
DeleteStaleWebhookEvent(e) ==
    /\ ledger[e] # "absent" /\ age[e] > StaleClaimAge
    /\ e \in acked
    /\ \A d \in Deliveries : delivered[d] # e
    /\ ledger' = [ledger EXCEPT ![e] = "absent"]
    /\ retired' = retired \cup {e}
    /\ UNCHANGED <<age, rows, userLock, pc, delivered, elapsed, applied, acked, faults>>

\* Time passes, but never past the instant by which a live delivery has been cancelled.
Tick ==
    /\ \A d \in Deliveries : pc[d] # "idle" => elapsed[d] < Timeout
    /\ elapsed' = [d \in Deliveries |-> IF pc[d] = "idle" THEN 0 ELSE elapsed[d] + 1]
    /\ age' = [e \in Events |->
                 IF ledger[e] = "absent" \/ age[e] > StaleClaimAge THEN age[e] ELSE age[e] + 1]
    /\ UNCHANGED <<ledger, retired, rows, userLock, pc, delivered, applied, acked, faults>>

----------------------------------------------------------------------------

Claim(d) == ClaimWebhookEvent(d) \/ SkipProcessedEvent(d) \/ RefuseEventInProgress(d)

Apply(d) ==
    \/ UpdateKnownRow(d) \/ IgnoreEvent(d) \/ TurnToUser(d)
    \/ LockUser(d) \/ CommitUnlinkable(d) \/ WriteUserRow(d) \/ ViolateUnique(d)

Step(d) == Claim(d) \/ Apply(d) \/ MarkEventFailed(d) \/ AnswerReceived(d)

Next ==
    \/ \E d \in Deliveries :
        \/ \E e \in Events : Deliver(d, e)
        \/ Step(d) \/ FailHandler(d) \/ AbandonDelivery(d)
    \/ \E e \in Events : DeleteStaleWebhookEvent(e)
    \/ Tick

Spec == Init /\ [][Next]_vars

\* Deliveries run, time passes, and Stripe delivers every event until it is acknowledged.
FairSpec ==
    /\ Spec
    /\ \A d \in Deliveries : WF_vars(Step(d))
    /\ \A e \in Events : SF_vars(\E d \in Deliveries : e \notin acked /\ Deliver(d, e))
    /\ WF_vars(Tick)

----------------------------------------------------------------------------
(* Properties. *)

\* Spec B-21 and B-41: however often and however concurrently an event is delivered, and wherever
\* its deliveries die, its changes commit once, together with the processed mark.
AppliedOnce ==
    \A e \in Events :
        /\ applied[e] <= 1
        /\ applied[e] = 1 <=> (ledger[e] = "processed" \/ e \in retired)

\* Spec B-41: Stripe gets its 200, and stops retrying, only for an event that has been applied:
\* none is lost to a delivery that met another one's claim and trusted it.
AcknowledgedIsApplied == \A e \in acked : applied[e] = 1

\* The events of the row's own subscription that have been applied and carry a status.
AppliedTo(u) ==
    {e \in Events : /\ applied[e] > 0 /\ EventOf[e].kind # "checkout"
                    /\ EventOf[e].subscription = rows[u].subscription}

\* US-BILLING-003: a row shows what the newest applied event of its subscription said, in whatever
\* order and however interleaved the deliveries came.
NewestEventWins ==
    \A u \in Users : rows[u].subscription # None =>
        /\ \A e \in AppliedTo(u) :
             EventOf[e].kind = "change" /\ EventOf[e].user # None
                => EventOf[e].created <= rows[u].lastEvent
        /\ \/ rows[u].lastEvent = 0
           \/ \E e \in AppliedTo(u) :
                EventOf[e].created = rows[u].lastEvent /\ EventOf[e].status = rows[u].status

\* A customer stays one user's, though the lookup and the write are two statements.
CustomersAreNotShared ==
    \A u, v \in Users : u # v /\ rows[u].customer # None => rows[u].customer # rows[v].customer

\* A late event never points a row back at another subscription or customer, nor to an older state
\* (repositories/user_subscriptions.py:67).
RowsOnlyMoveForward ==
    [][\A u \in Users : rows[u].subscription # None =>
         /\ rows'[u].subscription = rows[u].subscription
         /\ rows'[u].customer = rows[u].customer
         /\ rows'[u].lastEvent >= rows[u].lastEvent]_vars

\* Every event is applied in the end, wherever deliveries of it died, while Stripe redelivers it.
EventuallyApplied == \A e \in Events : <>(applied[e] = 1)

\* The promise of repositories/user_subscriptions.py:6-8: a user who subscribes again after
\* cancelling has the row pointed at the new subscription by that checkout.
ResubscriptionIsLinked ==
    \A e, f \in Events :
        /\ applied[e] = 1 /\ EventOf[e].status = "canceled"
        /\ applied[f] = 1 /\ EventOf[f].kind = "checkout"
        /\ EventOf[f].user = EventOf[e].user /\ EventOf[e].position < EventOf[f].position
        => rows[EventOf[f].user].subscription # EventOf[e].subscription

=============================================================================
