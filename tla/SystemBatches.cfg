\* Every order of three systems of seven kinds, with any of them empty, in two
\* frames.
SPECIFICATION FairSystemsSpec
CONSTANTS
  MaxResources = 4
  Components <- MCComponents
  FrameData <- MCFrameData
  Size <- MCSize
  Alignment <- MCAlignment
  Criteria <- MCCriteria
  SystemCount = 3
  MaxDependents = 1
  MaxFrames = 2
  MaxFailures = 1
INVARIANT AccessesOrdered
INVARIANT FrameDataPlaced
PROPERTY FramesEnd
CHECK_DEADLOCK FALSE
