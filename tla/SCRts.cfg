\* Two RTSs: every order of ground commands, loads, ticks and clock steps.
SPECIFICATION FairSpec
CONSTANTS
  NumRts = 2
  RtsTables <- Tables
  Directories <- Dirs
  NoTable = NoTable
  Absent = Absent
  Broken = Broken
  TicksPerSec = 2
  TimeMod = 8
  DelaySize = 1
  MinLength = 2
  MaxLength = 5
  MaxGround = 3
INVARIANTS
  TypeOK
  DisableHolds
  CommandsInOrder
PROPERTIES
  DelaysKept
  FinishedMeansAll
  HkReportsEarliest
  RtsEnds
