\* The main thread and another log four messages through a queue of two.
SPECIFICATION FairSpec
CONSTANTS
  QueueSize = 2
  NoElement = 0
  Threads = {main, w1}
  Main = main
  MaxMessages = 4
  MaxAsserts = 1
INVARIANT LogFaithful
PROPERTY LogFlows
CHECK_DEADLOCK FALSE
