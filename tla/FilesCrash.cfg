SPECIFICATION Spec
CONSTANTS
  BitsPerWord = 128
  WordBits = 32
  DiskBlocks = 20
  MaxInodes = 7
  MaxInodeBlocks = 2
  DirectoryBlocks = 1
  MaxFiles = 6
  MaxOpenFiles = 5
  Procs = {p}
  Names = {"a", "b"}
  Paths <- RootOnly
  Modes = {1}
  Contents <- OneOrTwoBlocks
  DirtyStack = FALSE
  Reserve = 2
  Calls = {"open", "write", "rm", "crash"}
  p = p
INVARIANTS
  TreeInOrder
CHECK_DEADLOCK FALSE
