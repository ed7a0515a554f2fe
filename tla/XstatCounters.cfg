SPECIFICATION Spec
CONSTANTS
  n1 = n1
  n2 = n2
  c1 = c1
  c2 = c2
  r1 = r1
  r2 = r2
  Reason <- MCReason
  Node <- MCNode
  Cpu <- MCCpu
  Mask <- MCMask
  NSEC = 2
  TIME = 32
  ERANGE = 2
  Threshold = 3
  Limits <- MCLimits
INVARIANTS
  StampIsCurrent
  IntervalsAddUp
  EnergyAddsUp
  CountsAddUp
  LimitsReported
CHECK_DEADLOCK FALSE
