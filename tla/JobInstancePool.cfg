\* Three threads, four slots: enough for the head to come back (ABA) while a
\* slower thread still holds the old one.
CONSTANTS
  t1 = t1
  t2 = t2
  t3 = t3
  batch1 = batch1
  batch2 = batch2
  Callers <- MCThreads
  PoolSize = 4
  Batches <- MCBatches
  NoBatch = NoBatch
  NoJob = NoJob
  MaxTag = 4
SPECIFICATION PoolSpec
SYMMETRY Symmetry
INVARIANTS OneOwner InstancesIntact
