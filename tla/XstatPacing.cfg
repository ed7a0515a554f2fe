SPECIFICATION PacingSpec
CONSTANTS
  MS = 3
  U64 = 2048
  INT = 32
  Period <- MCPeriod
  Cost <- MCCost
  Skew <- MCSkew
  Delay <- MCDelay
INVARIANTS
  PeriodKept
  NeverTooLong
