\* Three threads on a ring of two slots; the counters wrap from 15 to 0 after
\* two tickets.
CONSTANTS
  t1 = t1
  t2 = t2
  t3 = t3
  j1 = j1
  j2 = j2
  Threads <- MCThreads3
  Jobs <- MCJobs
  NoJob = NoJob
  Size = 2
  Word = 16
  Start = 14
  MaxOps = 5
SPECIFICATION Spec
SYMMETRY Symmetry
INVARIANTS SlotExclusive
PROPERTY ImplementsQueue
