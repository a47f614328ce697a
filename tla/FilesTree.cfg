SPECIFICATION Spec
CONSTANTS
  BitsPerWord = 128
  WordBits = 32
  DiskBlocks = 20
  MaxInodes = 7
  MaxInodeBlocks = 2
  DirectoryBlocks = 1
  MaxFiles = 6
  MaxOpenFiles = 10
  Procs = {p}
  Names = {"a", "b"}
  Paths <- RootAndA
  Modes = {2}
  Contents <- OneOrTwoBlocks
  DirtyStack = FALSE
  Reserve = 2
  Calls = {"open", "write", "mkdir", "rm", "restart", "unmount"}
  p = p
INVARIANTS
  TreeInOrder
  BlocksInOrder
  DiskUpToDate
  ListedIsThere
PROPERTIES
  FilesStay
  ReadsBack
CHECK_DEADLOCK FALSE
