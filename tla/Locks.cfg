\* Two processes with two handles each.
CONSTANTS
  Proc = {p1, p2}
  Slot = {s1, s2}
  MaxPending = 1
SPECIFICATION FairSpec
INVARIANTS Backed ClosesComplete
PROPERTIES WriterSeen ImplementsFileLock WriterGetsIn
