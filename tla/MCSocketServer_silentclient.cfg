CONSTANTS
  Clients = {c1}
  NoClient = NoClient
  Worlds <- Silent
  MaxSegments = 1
  MaxRuns = 1
  RingSize = 1
  InheritsNonblock = FALSE
SPECIFICATION FairSpec
CHECK_DEADLOCK FALSE
PROPERTIES CloseAlwaysReturns
