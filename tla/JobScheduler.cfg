\* Two workers, a frame batch whose jobs yield, and an urgent batch of the io thread.
CONSTANTS
  w1 = w1
  w2 = w2
  mid = mid
  urgent1 = urgent1
  urgent2 = urgent2
  Main = main
  Io = io
  Workers <- TwoWorkers
  None = None
  Lowest = 1
  MainLowest = 1
  LocalSize = 2
  FrameBatches <- OnlyMid
  IoBatches <- OnlyUrgent
  Priority <- MCPriority
  Size <- MCTriple
  Sections <- MCTwoSections
SPECIFICATION Spec
SYMMETRY Symmetry
INVARIANTS OnePlaceAtMost LogicErrorsUnreachable NoLostWakeup ResumesWhereYielded
