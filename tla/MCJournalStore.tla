---------------------------- MODULE MCJournalStore ----------------------------
(* Small instances of JournalStore.  The processes are interchangeable.    *)
EXTENDS JournalStore, TLC

Alike == Permutations(Procs)
===============================================================================
