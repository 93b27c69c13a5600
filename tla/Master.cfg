\* Two databases, two processes, three transactions or faults.
CONSTANTS
  Db = {a, b}
  Proc = {p1, p2}
  Name = {m1, m2}
  MaxTx = 3
  Risks = {}
SPECIFICATION Spec
INVARIANTS TypeOK AllOrNone CommitStays
SYMMETRY Symmetry
