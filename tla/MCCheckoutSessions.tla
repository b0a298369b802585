------------------------- MODULE MCCheckoutSessions -------------------------
(* TLC's instance of CheckoutSessions. *)
EXTENDS CheckoutSessions
============================================================================
