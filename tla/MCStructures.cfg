SPECIFICATION Spec
CONSTANTS
  None = None
  Null = Null
INVARIANTS
  HashTablesHold
  RadixTreesHold
  ListsHold
  SortedSetsHold
  FilesReadBack
CHECK_DEADLOCK FALSE
