--------------------------- MODULE PreferencesMC ---------------------------
(***************************************************************************)
(* Small instances of Preferences for TLC.                                 *)
(***************************************************************************)
EXTENDS Preferences

\* One that becomes 0.01 on disk, one with a fraction of a second.
FractionalIntervals == {12, 1500}

OddSizes == {0, 60}
=============================================================================
