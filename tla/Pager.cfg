\* Two processes that may both write, two transactions, or one and a crash or power failure anywhere.
CONSTANTS
  Proc = {p1, p2}
  Writers = {p1, p2}
  SyncModes = {TRUE, FALSE}
  InitSizes = {0, 2}
  MaxPage = 3
  CacheSize = 2
  MaxTx = 2
  Risks = {}
SPECIFICATION Spec
INVARIANTS TypeOK ReadsCommitted PowerSafe
PROPERTY ImplementsAtomicFile
SYMMETRY Symmetry
