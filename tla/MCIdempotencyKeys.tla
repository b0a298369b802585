------------------------- MODULE MCIdempotencyKeys -------------------------
(* TLC's instance of IdempotencyKeys. *)
EXTENDS IdempotencyKeys, TLC

\* Requests are interchangeable, and so are identities: no action or invariant tells them apart.
Symmetry == Permutations(Requests) \cup Permutations(Identities)
============================================================================
