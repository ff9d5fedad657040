\* A worker, the main thread and the io thread; three batches share two slots,
\* and submissions fail when neither is free.  Under fairness.
CONSTANTS
  w1 = w1
  Main = main
  Io = io
  Workers <- OneWorker
  SlotCount = 2
  MaxDependents = 2
  QueueSize = 3
  Sizes <- SingleOrPair
  MaxBatches = 3
  MaxDependencies = 2
  MayExhaust = TRUE
SPECIFICATION FairSpec
INVARIANTS PinProtects SlotsConserved DependenciesFirst FenceCounts
PROPERTY EventuallyIdle
