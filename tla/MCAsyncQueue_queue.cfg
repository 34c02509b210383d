CONSTANTS
  NoThread = NoThread
  w1 = w1
  w2 = w2
  t1 = t1
  k1 = k1
  Producers = {p1, p2}
  Waiters = {w1, w2}
  Pollers = {t1}
  Peekers = {c1}
  Cleaners = {k1}
  Closers = {x1}
  Absences <- Crews
  MaxPushes = 2
SPECIFICATION FairSpec
CHECK_DEADLOCK FALSE
INVARIANTS
  TypeOK
  NoLostWakeup
  ShutdownWakesAll
  PopNeverEmpty
  OneLatePushEach
  QueueIsUntakenLog
PROPERTIES
  ValuesAreConsumed
  ChannelSpec
