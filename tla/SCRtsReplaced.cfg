\* The table of a running RTS is replaced.
SPECIFICATION Spec
CONSTANTS
  NumRts = 2
  RtsTables <- Tables
  Directories <- Dirs
  NoTable = NoTable
  Absent = Absent
  Broken = Broken
  TicksPerSec = 2
  TimeMod = 8
  DelaySize = 1
  MinLength = 2
  MaxLength = 5
  MaxGround = 3
PROPERTIES
  LastCommandWasSent
