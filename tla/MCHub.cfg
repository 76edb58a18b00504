SPECIFICATION Spec
CONSTANTS
  Clients = {c1, c2}
  NoClient = nobody
  SendBuf = 1
  BroadcastBuf = 1
  DropThreshold = 1
  MaxFrames = 3
INVARIANTS
  NoPanic
  FramesIncrease
  OldestLostAndCounted
PROPERTIES
  HubKeepsUp
  ClosedClientsLeave
