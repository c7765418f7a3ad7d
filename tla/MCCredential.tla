---------------------------- MODULE MCCredential ----------------------------
(* Instances of Credential for TLC.                                        *)
EXTENDS Credential, TLC

Symmetry == Permutations(Callers)
=============================================================================
