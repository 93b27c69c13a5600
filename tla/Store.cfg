SPECIFICATION Spec
CONSTANTS
  Ids = {p1, p2, p3}
  Texts = {t1, t2}
SYMMETRY Symmetry
PROPERTIES Reloaded NothingReturns
