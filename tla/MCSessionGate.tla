--------------------------- MODULE MCSessionGate ---------------------------
(* TLC's instance of SessionGate: clocks that agree, or not. *)
EXTENDS SessionGate

AheadOrBehind == {-1, 0, 1}
=============================================================================
