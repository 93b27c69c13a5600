\* Scripts of insertions and deletions of up to 30 rows, and one call that strays from
\* them; and any calls of two cursors on trees of up to five rows.
CONSTANTS
  Usable = 116
  FileHeader = 24
  KeySize = 9
  TrunkMax = 2
  Writer = w
  Cursor = {w, r}
  Patterns = {"large", "little", "both"}
  Key <- MCKey
  Trees <- MCTrees
SPECIFICATION MCSpec
INVARIANTS EachPageOnce Balanced Searchable ScanComplete SiblingsFit CallsEnd
PROPERTIES ReadersStay ImplementsTable
