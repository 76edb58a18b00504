SPECIFICATION Spec
CONSTANTS
  NEvents = 3
  ClassifiedBufSize = 1
  BroadcastBufSize = 1
  Readers = {r1}
  Forwarder = fwd
  Nobody = nobody
  Nil = nil
  MaxCalls = 1
INVARIANTS
  NothingLostOnTheWay
  AnswersAreFresh
  FramesInOrder
PROPERTIES
  CallsReturn
  DrainsOrStops
