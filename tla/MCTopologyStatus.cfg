SPECIFICATION Spec
CONSTANTS
  ASN = {1, 2, 3, 4}
  Prefix <- Blocks
  Update <- Updates
  RelOf <- StoreRel
  Limits <- Queries
  MaxSamples = 3
  RingCap = 2
  SparkBuckets = 3
  BucketWidth = 2
  TopOriginsLimit = 2
  DefaultEventsLimit = 1
  MaxEventsLimit = 2
  DefaultEdgeEvents = 1
  NoEvent = NoEvent
  MaxEvents = 3
INVARIANT StatusIsWorstRecent
