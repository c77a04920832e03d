----------------------------- MODULE MCSessions -----------------------------
(* Sessions for TLC: actors are alike, and so are the tokens they draw.       *)
EXTENDS Sessions, TLC

AnyActorAnyToken == Permutations(Actors) \cup Permutations(Tokens)
=============================================================================
