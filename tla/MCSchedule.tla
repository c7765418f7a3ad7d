----------------------------- MODULE MCSchedule -----------------------------
(* Two processes that share a store of one entry, for TLC. *)
EXTENDS Schedule
=============================================================================
