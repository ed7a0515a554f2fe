SPECIFICATION FairSpec
CONSTANTS
  r1 = r1
  r2 = r2
  k1 = k1
  k2 = k2
  Nobody = Nobody
  Driver = "haswellstat"
  Reader <- MCReader
  Sampler <- MCSampler
  RecordLen <- MCRecordLen
  MICSTAT_NBUF = 2
  PAGE_SIZE = 9
  MaxSample = 4
INVARIANTS
  WholeSamples
PROPERTIES
  ImplementsLog
  SamplerNotStarved
