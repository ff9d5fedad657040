\* Two threads, three entities of two components, chunks of two rows; one, three
\* and one command before the three applications.
SPECIFICATION Spec
CONSTANTS
  Components <- MCComponents
  LinearLimit = 1
  MaxClasses = 4
  ChunkCapacity = 2
  MaxChunks = 3
  Stride = 16
  Systems = {s1}
  Required <- MCRequired
  Excluded <- MCExcluded
  Threads = {main, w1}
  MaxEntities = 3
  MaxCommands <- MCMaxCommands
INVARIANTS BuffersSound IdsCounted PoolsConsistent SceneFaithful
SYMMETRY Symmetry
CHECK_DEADLOCK FALSE
