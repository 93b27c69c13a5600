-------------------------- MODULE ExternalSourceMC --------------------------
(***************************************************************************)
(* Small instances of ExternalSource for TLC.                              *)
(***************************************************************************)
EXTENDS ExternalSource, SequencesExt

\* Every duplicate-free array of the personae, the empty one included.
AnyRequest == UNION {SetToSeqs(S) : S \in SUBSET Users}
=============================================================================
