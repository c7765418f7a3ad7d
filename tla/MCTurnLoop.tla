----------------------------- MODULE MCTurnLoop -----------------------------
(* Small sessions of the turn loop; the bounds are in turn.cfg. *)
EXTENDS TurnLoop
=============================================================================
