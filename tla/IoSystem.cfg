\* The io thread of the engine, a worker, two requests in flight, three in all.
\* The system stops when it is shut down.
CONSTANTS
  Main = main
  io1 = io1
  io2 = io2
  w1 = w1
  IoThreads <- OneIoThread
  Workers <- OneWorker
  PoolSize = 2
  Kinds <- MCKinds
  NoSlot = NoSlot
  Path = Path
  MaxRequests = 3
SPECIFICATION FairSpec
CHECK_DEADLOCK FALSE
INVARIANTS OneOwner OwnAnswer EntriesKept
PROPERTIES RequestsAnswered ShutdownReturns
