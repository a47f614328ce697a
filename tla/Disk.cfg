SPECIFICATION FairSpec
CONSTANTS
  BlockNum = 2
  BlockLen = 2
  Bytes = {0, 7}
  Addrs = {0, 1, 2}
  Lengths = {2}
  Fifo = 2
  NoCall = NoCall
INVARIANTS
  InStep
PROPERTIES
  IsBlockDevice
  CallsReturn
