------------------------- MODULE MCSessionLifetime -------------------------
(* Instances of SessionLifetime for TLC. *)
EXTENDS SessionLifetime, TLC

CONSTANTS t1, t2

TimerSymmetry == Permutations(TimerIds)
=============================================================================
