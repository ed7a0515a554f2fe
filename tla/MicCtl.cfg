SPECIFICATION Spec
CONSTANTS
  w1 = w1
  w2 = w2
  t1 = t1
  t2 = t2
  Loader = Loader
  NULL = NULL
  ERR_PTR = ERR_PTR
  Writer <- MCWriter
  Task <- MCTask
INVARIANTS
  OneSampler
  FaultHasCause
CHECK_DEADLOCK FALSE
