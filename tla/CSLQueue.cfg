\* One command input with a ring of two slots, one other input.
SPECIFICATION FairSpec
CONSTANTS
  Inputs = {i1}
  TlmInputs = {t1}
  CSL_MAX_RCVMSG = 2
  SeqMod = 3
  ErrMod = 1
  PipeDepth = 2
  CSL_SL_BUS_PIPE_LIM = 1
  Blank = Blank
  Garbled = Garbled
  MaxCmds = 3
  MaxControl = 2
  MaxIssued = 1
INVARIANTS
  TypeOK
  ResetCostsOne
  PublishedOnce
PROPERTIES
  FirstInFirstOut
  QueuesDrain
CHECK_DEADLOCK FALSE
