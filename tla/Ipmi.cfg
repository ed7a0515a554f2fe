SPECIFICATION Spec
CONSTANTS
  n1 = n1
  n2 = n2
  Node <- MCNode
  NGroup = 2
  Sensors <- MCSensors
  Number <- MCNumber
  Bmc <- MCBmc
  Base <- MCBase
  Mul = 3
  BYTE = 5
  BYTES = 2
  MaxEra = 2
  MaxPending = 1
  MaxBmc = 2
SYMMETRY MCSymmetry
INVARIANTS
  SampleShowsAnswers
  UnloadReleasesUsers
CHECK_DEADLOCK FALSE
