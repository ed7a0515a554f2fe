SPECIFICATION PacingSpec
CONSTANTS
  MS = 4
  UINT = 65536
  Period <- MCPeriod
  Cost <- MCCostOver
  Rest <- MCRest
INVARIANTS
  OverheadBelow20
