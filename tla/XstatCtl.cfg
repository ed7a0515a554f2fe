SPECIFICATION FairSpec
CONSTANTS
  w1 = w1
  w2 = w2
  t1 = t1
  t2 = t2
  Loader = Loader
  Nobody = Nobody
  NULL = NULL
  Writer <- MCWriter
  Task <- MCTask
  NumNodes = 2
INVARIANTS
  OneSampler
  OwnContexts
  OffMeansQuiet
  FaultHasCause
PROPERTIES
  OffReturns
  UnloadReturns
CHECK_DEADLOCK FALSE
