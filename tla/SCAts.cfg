\* Every order of ground commands, table loads, ticks and clock steps.
SPECIFICATION FairSpec
CONSTANTS
  AtsTables <- SmallTables
  NoTable = NoTable
  MaxCmds = 3
  MaxTime = 4
  MaxGround = 5
INVARIANTS
  TypeOK
  IndexMatchesTable
  TelemetryOfNext
  EachCommandOnce
PROPERTIES
  AtsEnds
  NothingSkipped
  SentOnTime
  CompletedMeansAll
