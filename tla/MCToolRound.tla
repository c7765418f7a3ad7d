----------------------------- MODULE MCToolRound -----------------------------
(* Instances of ToolRound for TLC.                                         *)
EXTENDS ToolRound
=============================================================================
