\* The instance of CSLQueue.cfg: an accepted command spoils one that waits.
SPECIFICATION Spec
CONSTANTS
  Inputs = {i1}
  TlmInputs = {t1}
  CSL_MAX_RCVMSG = 2
  SeqMod = 3
  ErrMod = 1
  PipeDepth = 2
  CSL_SL_BUS_PIPE_LIM = 1
  Blank = Blank
  Garbled = Garbled
  MaxCmds = 3
  MaxControl = 2
  MaxIssued = 1
INVARIANTS
  CommandsFit
CHECK_DEADLOCK FALSE
