\* Four threads, each a reader or a writer at any time.
CONSTANTS
  t1 = t1
  t2 = t2
  t3 = t3
  t4 = t4
  LockThreads <- FourThreads
SPECIFICATION FairLockSpec
INVARIANTS Exclusion
PROPERTY WriterGetsIn
