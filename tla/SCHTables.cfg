\* Ground changes and loads the schedule while frames go on.
SPECIFICATION Spec
CONSTANTS
  TotalSlots = 3
  EntriesPerSlot = 2
  MaxSlotsPerWakeup = 2
  MaxLagCount = 3
  MaxNoisyMF = 2
  StartupPeriod = 4
  Groups <- SomeGroups
  NoGroup = NoGroup
  ScheduleTables <- WorkTables
  MaxStray = 1
  MaxMissed = 1
  MaxOverrun = 0
  MaxGround = 2
PROPERTIES
  PeriodKept
