\* A commit that was BUSY is tried again.
CONSTANTS
  Db = {a, b}
  Proc = {p1, p2}
  Name = {m1, m2}
  MaxTx = 3
  Risks = {"retry"}
SPECIFICATION Spec
INVARIANT AllOrNone
SYMMETRY Symmetry
