-------------------------- MODULE SubscriptionRows --------------------------
(***************************************************************************)
(* The writes to user_subscriptions (repositories/user_subscriptions.py)   *)
(* as operators on the rows: one row for each user, which names a Stripe   *)
(* customer and subscription and the state its newest event left.  Each    *)
(* write is one statement, so one operator.                                *)
(*                                                                         *)
(* A Stripe event is a record: its kind, the user its metadata names, its  *)
(* customer and subscription, the second it was created in, the status it  *)
(* carries, and its place in the order in which Stripe created the events. *)
(***************************************************************************)
EXTENDS Naturals

CONSTANTS Users, None

Statuses == {"incomplete", "active", "past_due", "canceled"}
Kinds == {"checkout", "change", "payment_failed"}

\* No row for this user: every row the webhook creates names a subscription.
NoRow == [subscription |-> None, customer |-> None, status |-> "incomplete", lastEvent |-> 0]

\* The row names no subscription, or this one.
NamesNoOther(row, event) == row.subscription \in {None, event.subscription}

\* Mutant: the order of the events is forgotten.
IsAnyAge(row, event) == TRUE

\* build_not_newer_condition; 0 stands for NULL, before every event.
IsNotNewer(row, event) == row.lastEvent <= event.created

WithState(row, event) == [row EXCEPT !.status = event.status, !.lastEvent = event.created]

WithIds(row, event) ==
    [row EXCEPT !.subscription = event.subscription, !.customer = event.customer]

\* Mutant: any row of the user is pointed at the checkout's subscription.
LinkAnyRow(row, event) == WithIds(row, event)

\* link_subscription_to_user: the ids alone, on a row that names no other subscription.
LinkSubscription(row, event) == IF NamesNoOther(row, event) THEN WithIds(row, event) ELSE row

\* upsert_subscription_for_user: ids and state, and only over no other subscription's row and no
\* newer event's.
UpsertSubscription(row, event) ==
    IF NamesNoOther(row, event) /\ IsNotNewer(row, event)
    THEN WithState(WithIds(row, event), event)
    ELSE row

\* The rows update_subscription_state and set_subscription_status write: they name the event's
\* subscription and hold no newer event.
Matching(rows, event) ==
    {u \in Users : rows[u].subscription = event.subscription /\ IsNotNewer(rows[u], event)}

\* update_subscription_state and set_subscription_status.
UpdateMatching(rows, event) ==
    [u \in Users |-> IF u \in Matching(rows, event) THEN WithState(rows[u], event) ELSE rows[u]]

\* get_subscription_by_customer_id names no one else, so is_linkable_to_user lets the user have it.
IsCustomerFree(rows, user, event) ==
    \A u \in Users \ {user} : rows[u].customer # event.customer

\* Mutant: the table has no unique constraint on the customer and the subscription.
KeepsAnything(rows, user, row) == TRUE

\* The unique constraints on the customer and the subscription let this user's row be written.
KeepsUnique(rows, user, row) ==
    \A u \in Users \ {user} :
        /\ rows[u].customer = row.customer => row.customer = None
        /\ rows[u].subscription = row.subscription => row.subscription = None
=============================================================================
