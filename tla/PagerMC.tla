------------------------------- MODULE PagerMC -------------------------------
(* Small instances of Pager for TLC. *)
EXTENDS Pager, TLC

Symmetry == Permutations(Proc)
===============================================================================
