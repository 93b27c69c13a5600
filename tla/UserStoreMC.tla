---------------------------- MODULE UserStoreMC ----------------------------
(***************************************************************************)
(* Small instances of UserStore for TLC.                                   *)
(***************************************************************************)
EXTENDS UserStore, TLC

Symmetry == Permutations(Ids) \cup Permutations(Texts)
=============================================================================
