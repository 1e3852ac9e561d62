\* The instance of Housekeeping.cfg: the end of an entry wraps in 16 bits.
SPECIFICATION Spec
CONSTANTS
  a = a
  b = b
  x = x
  y = y
  HK_COPY_TABLE_ENTRIES = 3
  InputMids = {a, b}
  OutputMids = {x, y}
  NoMid = NoMid
  Tables <- CopyTables
  NoTable = NoTable
  BlockSizes = {2, 4}
  BlockHeader = 1
  PoolSize = 11
  Lengths = {2, 9}
  LengthMod = 16
  PipeDepth = 2
  MaxGround = 2
  MaxFaults = 1
INVARIANTS
  LargestEndHeld
CHECK_DEADLOCK FALSE
