\* One worker; four jobs that yield to an urgent one, while the main thread waits
\* for another urgent one and meets them.  Under fairness.
CONSTANTS
  w1 = w1
  w2 = w2
  mid = mid
  urgent1 = urgent1
  urgent2 = urgent2
  Main = main
  Io = io
  Workers <- OneWorker
  None = None
  Lowest = 1
  MainLowest = 1
  LocalSize = 2
  FrameBatches <- OnlyUrgent
  IoBatches <- MidAndUrgent
  Priority <- MCPriority
  Size <- MCFour
  Sections <- MCThreeSections
SPECIFICATION FairSpec
INVARIANTS NoJobLost OwnUrgentFirst
PROPERTY ShutdownCompletes BatchesRun
