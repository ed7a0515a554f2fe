SPECIFICATION FairSpec
CONSTANTS
  r1 = r1
  r2 = r2
  Nobody = Nobody
  Reader <- MCReader
  RecordLen <- MCRecordLen
  XSTAT_NBUF = 3
  PAGE_SIZE = 9
  MaxSample = 5
INVARIANTS
  WindowIsNewest
  NoDoubleDelivery
  PageIsRun
  NoCutRecord
PROPERTIES
  ImplementsLog
  ThreadNotStarved
