---------------------------- MODULE MCIdempotency ----------------------------
(* Idempotency for TLC; the constants are in the .cfg files.  The run with a  *)
(* liveness property has no symmetry.                                         *)
EXTENDS Idempotency, TLC

Threads == Permutations(Attempts)
==============================================================================
