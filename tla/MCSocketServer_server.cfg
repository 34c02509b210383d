CONSTANTS
  Clients = {c1, c2}
  NoClient = NoClient
  Worlds <- MCWorlds
  MaxSegments = 2
  MaxRuns = 2
  RingSize = 1
  InheritsNonblock = FALSE
SPECIFICATION FairSpec
CHECK_DEADLOCK FALSE
INVARIANTS ServedInTurn ThreadQuiesced
PROPERTIES EveryPacketServed CloseReturns
