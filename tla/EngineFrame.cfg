\* The main thread and a job; up to two windows, and up to four sinks of the
\* application on one id.
CONSTANTS
  job = job
  Threads <- MCThreads
  Ids <- MCIds
  BatchSize = 2
  PoolSize = 2
  LinksPerEvent = 1
  MaxHops = 0
  None = None
  WindowCount = 2
  AppSinks <- MCAppSinks
  AppIds <- MCAppIds
  PassedTo <- MCPassedTo
  AppTargets <- MCTargets
  AppPlaces = {"initialize", "dispatch"}
  Bounds <- MCBounds
SPECIFICATION FairSpec
CHECK_DEADLOCK FALSE
INVARIANTS NoEventForgotten EventsInOrder BatchesConserved SinksPlaced
PROPERTY LastWindowQuits
