\* Three entries, two inputs, two packets, a pool of a few small blocks.
SPECIFICATION FairSpec
CONSTANTS
  a = a
  b = b
  x = x
  y = y
  HK_COPY_TABLE_ENTRIES = 3
  InputMids = {a, b}
  OutputMids = {x, y}
  NoMid = NoMid
  Tables <- CopyTables
  NoTable = NoTable
  BlockSizes = {2, 4}
  BlockHeader = 1
  PoolSize = 11
  Lengths = {2, 9}
  LengthMod = 16
  PipeDepth = 2
  MaxGround = 2
  MaxFaults = 1
INVARIANTS
  TypeOK
  PoolAccounted
  PacketsFit
  RoutesAsMarked
PROPERTIES
  LoadTakesEffect
CHECK_DEADLOCK FALSE
