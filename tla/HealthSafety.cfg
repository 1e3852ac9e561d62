\* An application watched twice, a table that watches it elsewhere, events that feed themselves.
SPECIFICATION FairSpec
CONSTANTS
  a = a
  HS_MAX_CRITICAL_APPS = 2
  HS_MAX_CRITICAL_EVENTS = 3
  HS_EVENT_PIPE_DEPTH = 1
  Apps = {a}
  NoApp = NoApp
  EventIds = {"ACTION_INF", "ERR"}
  m = m
  Messages = {m}
  AMTs <- AppTables
  EMTs <- EventTables
  MATs <- MessageTables
  NoTable = NoTable
  CountMod = 3
  MaxGround = 1
  MaxFaults = 1
INVARIANTS
  TypeOK
  ActedOnInTime
  ActedOnWithCause
PROPERTIES
  HungIsAnswered
CHECK_DEADLOCK FALSE
