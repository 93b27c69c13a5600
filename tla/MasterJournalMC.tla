---------------------------- MODULE MasterJournalMC ----------------------------
(* Small instances of MasterJournal for TLC. *)
EXTENDS MasterJournal

Symmetry == Permutations(Proc) \union Permutations(Db) \union Permutations(Name)
===============================================================================
