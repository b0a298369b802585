-------------------------- MODULE MCBillingWebhook --------------------------
(* TLC's instances of BillingWebhook: which events Stripe sends. *)
EXTENDS BillingWebhook, TLC

Slots == Permutations(Deliveries)

E(kind, user, customer, subscription, created, status, position) ==
    [kind |-> kind, user |-> user, customer |-> customer, subscription |-> subscription,
     created |-> created, status |-> status, position |-> position]

\* Two users whose metadata names the same customer, and an event whose metadata names nobody.
TwoUsers ==
    << E("change", "ann", "cus1", "sub1", 1, "active", 1),
       E("change", None,  "cus3", "sub3", 2, "active", 2),
       E("change", "bob", "cus1", "sub2", 3, "active", 3) >>

\* A failed payment and the recovery after it, and another subscription's checkout.
OneUser ==
    << E("change",         "ann", "cus1", "sub1", 1, "active",     1),
       E("payment_failed", "ann", "cus1", "sub1", 2, "past_due",   2),
       E("change",         "ann", "cus1", "sub1", 3, "active",     3),
       E("checkout",       "ann", "cus2", "sub2", 3, "incomplete", 4) >>

\* A user cancels and subscribes again.
Resubscription ==
    << E("change",   "ann", "cus1", "sub1", 1, "active",     1),
       E("change",   "ann", "cus1", "sub1", 2, "canceled",   2),
       E("checkout", "ann", "cus2", "sub2", 3, "incomplete", 3),
       E("change",   "ann", "cus2", "sub2", 3, "active",     4) >>
=============================================================================
