CONSTANTS
  Clients = {c1, c2}
  c1 = c1
  c2 = c2
  NoClient = NoClient
  Worlds <- MCWorlds
  MaxSegments = 3
  MaxRuns = 1
  RingSize = 1
  InheritsNonblock = FALSE
  Outcome <- MCOutcome
SPECIFICATION RpcFairSpec
CHECK_DEADLOCK FALSE
INVARIANTS RepliesMatchRequests
PROPERTIES EveryRequestAnswered
