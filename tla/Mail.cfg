\* Two mailboxes and two personae, three edits or changes.
CONSTANTS
  Mailbox = {inbox, list}
  Users = {u, v}
  Weights = {1, 5}
  One = 5
  DefaultWeight = 1
  Fortnight = 1
  LastDay = 2
  MaxEdits = 3
SPECIFICATION Spec
INVARIANT ChoicesSurvive
PROPERTY MoreMailRanksHigher
SYMMETRY Symmetry
