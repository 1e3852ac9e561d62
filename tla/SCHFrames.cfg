\* Stray, missing and late tones, a task that lags; every slot comes again.
SPECIFICATION FairSpec
CONSTANTS
  TotalSlots = 4
  EntriesPerSlot = 1
  MaxSlotsPerWakeup = 2
  MaxLagCount = 3
  MaxNoisyMF = 2
  StartupPeriod = 4
  Groups <- NoGroups
  NoGroup = NoGroup
  ScheduleTables <- IdleTables
  MaxStray = 3
  MaxMissed = 2
  MaxOverrun = 2
  MaxGround = 1
INVARIANTS
  TypeOK
PROPERTIES
  PhaseKept
  CyclicOrder
  EverySlotAgain
