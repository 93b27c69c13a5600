SPECIFICATION Spec
CONSTANTS
  ann = ann
  noname = noname
  Ids = {p1, p2}
  People = {ann, noname}
  Nameless <- Unnamed
  Selections <- Selected
  Levels <- TwoScores
  Asyncs = {FALSE}
  MaxUsers <- AtMost
  MaxCopies = 2
  Nobody = Nobody
PROPERTY RemovesPicked
