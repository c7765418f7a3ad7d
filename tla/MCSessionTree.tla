--------------------------- MODULE MCSessionTree ---------------------------
(* A root, a child and a child of that child for TLC. *)
EXTENDS SessionTree

CONSTANTS c, d

MCChildren == {c, d}
MCParent == [s \in MCChildren |-> IF s = d THEN c ELSE Root]
=============================================================================
