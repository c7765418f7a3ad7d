--------------------------- MODULE MCSessionActor ---------------------------
(* Instances of SessionActor for TLC.                                      *)
EXTENDS SessionActor, TLC

Symmetry == Permutations(Intents)
=============================================================================
