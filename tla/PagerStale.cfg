\* A transaction that begins with the size that a recovery given up has left behind.
CONSTANTS
  Proc = {p1, p2}
  Writers = {p1, p2}
  SyncModes = {TRUE, FALSE}
  InitSizes = {0, 2}
  MaxPage = 3
  CacheSize = 2
  MaxTx = 3
  Risks = {}
SPECIFICATION Spec
PROPERTY ContentStays
SYMMETRY Symmetry
