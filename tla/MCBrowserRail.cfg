SPECIFICATION BrowserSpec
CONSTANTS
  ASN = {1, 2, 3}
  Prefix <- Blocks
  Update <- Updates
  RelOf <- StoreRel
  MaxSamples = 1
  RingCap = 2
  SparkBuckets = 3
  BucketWidth = 2
  TopOriginsLimit = 1
  NoEvent = NoEvent
  MaxEvents = 3
  BroadcastBuf = 2
  BacklogBuf = 1
  SendBuf = 1
  SnapshotEvents = 2
  RailSize = 2
  MaxConnects = 2
INVARIANT RailNewestFirst
