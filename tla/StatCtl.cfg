SPECIFICATION FairSpec
CONSTANTS
  w1 = w1
  w2 = w2
  t1 = t1
  t2 = t2
  Loader = Loader
  Nobody = Nobody
  NULL = NULL
  ERR_PTR = ERR_PTR
  Writer <- MCWriter
  Task <- MCTask
  NumCnt = 2
INVARIANTS
  OneSampler
  OffMeansQuiet
  FaultHasCause
  NothingLeaked
PROPERTIES
  OffReturns
CHECK_DEADLOCK FALSE
