----------------------------- MODULE MailSourceMC -----------------------------
(* Small instances of MailSource for TLC. *)
EXTENDS MailSource, TLC

Symmetry == Permutations(Mailbox) \union Permutations(Users)
===============================================================================
