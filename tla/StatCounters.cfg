SPECIFICATION Spec
CONSTANTS
  w1 = w1
  w2 = w2
  t1 = t1
  t2 = t2
  c1 = c1
  c2 = c2
  Nobody = Nobody
  Writer <- MCWriter
  Thread <- MCThread
  Cpu <- MCCpu
  TIME = 32
  Threshold = 3
  Reading <- MCReading
  Limits <- MCLimits
SYMMETRY MCSymmetry
INVARIANTS
  OverheadIsReal
  IntervalsAddUp
  CountsAddUp
  SensorsAreShown
  FrequencyIsReal
CHECK_DEADLOCK FALSE
