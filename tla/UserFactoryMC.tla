--------------------------- MODULE UserFactoryMC ---------------------------
(***************************************************************************)
(* Small instances of UserFactory for TLC.                                 *)
(***************************************************************************)
EXTENDS UserFactory

CONSTANTS ann, noname  \* a person of the address book, and one without a name

\* Mail Source: nothing, or both persons.  External Source: nothing, or one person
\* who is in two of the selected groups.
Selected ==
  [a \in BOOLEAN |-> IF a THEN {<<>>, <<ann, ann>>} ELSE {<<>>, <<noname, ann>>}]

AtMost == [a \in BOOLEAN |-> IF a THEN 1 ELSE 2]

Unnamed == {noname}

TwoScores == {0, 1}
=============================================================================
