SPECIFICATION FairSpec
CONSTANTS
  Threads = {t1, t2}
  NoThread = NoThread
  Bytes = {0, 1}
  RING_BUFFER_SIZE = 2
  Bufs <- MCBufs
  ReadLens <- MCReadLens
  MaxFds = 2
INVARIANTS NoOverrun CallAccounting
PROPERTIES ImplementsChannel BlockedCallReturns
CHECK_DEADLOCK FALSE
