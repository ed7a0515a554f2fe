SPECIFICATION PacingSpec
CONSTANTS
  MS = 4
  UINT = 65536
  Period <- MCPeriod
  Cost <- MCCost
  Rest <- MCRest
INVARIANTS
  OverheadAtMost20
  PeriodKept
