SPECIFICATION Spec
CONSTANTS
  NEvents = 3
  ClassifiedBufSize = 1
  BroadcastBufSize = 1
  Readers = {r1}
  Forwarder = fwd
  Nobody = nobody
  Nil = nil
  MaxCalls = 2
INVARIANT RunningCounters
