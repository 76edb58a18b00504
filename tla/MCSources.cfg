SPECIFICATION SourcesSpec
CONSTANTS
  ASN = {1, 2, 3, 4, 5, 6, 7}
  FileASN = {1, 2, 3}
  MaxRows = 5
  Tier1 <- Tier1ASes
  Transit <- TransitASes
  Stubs <- StubASes
  SiblingEvery = 1
  RoaSkipEvery = 3
  LeakEvery = 2
  HijackEvery = 3
  MaxClimb = 4
  MaxDescend = 2
  RecentCap = 1
  MinRecentForWd = 1
  MaxSeq = 5
  Dumps <- AllDumps
  BadNlri = BadNlri
  MaxSent = 12
  Messages <- RtrMessages
  MaxPdus = 2
INVARIANTS
  StoreIsWhatRowsSaid
  AdjacencyIsTheStore
  StreamIsWhatItSays
  ReplayIsTheDump
  ReadsWhatWasSent
