\* Three watchpoints on two messages, two actionpoints.
SPECIFICATION FairSpec
CONSTANTS
  w1 = w1
  w2 = w2
  w3 = w3
  m1 = m1
  m2 = m2
  Watchpoints = {w1, w2, w3}
  Mids = {m1, m2}
  NoMid = NoMid
  LC_MAX_ACTIONPOINTS = 2
  LC_MAX_RPN_EQU_SIZE = 5
  WDTables <- WDTs
  DefaultWDT <- Both
  ADTables <- ADTs
  DefaultADT <- OneOfEach
  Data = {0, 2}
  Word = 8
  CountMod = 3
  PipeDepth = 1
  MaxGround = 3
  MaxFaults = 1
INVARIANTS
  TypeOK
  WatchpointsRight
  OneShot
  ArmedUntilOrdered
PROPERTIES
  AlarmConfirmed
  AlarmAnswered
CHECK_DEADLOCK FALSE
