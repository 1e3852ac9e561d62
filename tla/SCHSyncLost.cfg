\* An unexpected tone that comes while the task is busy is overwritten.
SPECIFICATION Spec
CONSTANTS
  TotalSlots = 5
  EntriesPerSlot = 1
  MaxSlotsPerWakeup = 2
  MaxLagCount = 3
  MaxNoisyMF = 2
  StartupPeriod = 21
  Groups <- NoGroups
  NoGroup = NoGroup
  ScheduleTables <- IdleTables
  MaxStray = 2
  MaxMissed = 2
  MaxOverrun = 0
  MaxGround = 1
INVARIANTS
  SyncAnyways
