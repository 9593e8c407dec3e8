SPECIFICATION Spec
SYMMETRY Symmetry
CONSTANTS
  Hashes = {h1, h2}
  MaxLen = 2
  MaxFaults = 1
INVARIANTS
  CacheIsIndex
  MemoryIsDisk
  RowsHaveFiles
  CommitKeepsItsWord
PROPERTIES
  NeverReplaced
