------------------------ MODULE MCExpiredRowsCleanup ------------------------
(* TLC's instance of ExpiredRowsCleanup: a session and three keys, one more than a batch takes. *)
EXTENDS ExpiredRowsCleanup, TLC

CONSTANTS s1, k1, k2, k3

TableOfRow == (s1 :> Sessions) @@ [r \in {k1, k2, k3} |-> 2]
============================================================================
