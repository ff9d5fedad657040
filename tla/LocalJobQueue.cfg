\* An owner and two thieves on a ring of four cells; the counters wrap after
\* two jobs.
CONSTANTS
  t1 = t1
  t2 = t2
  Owner = owner
  Thieves <- MCThieves
  NoJob = NoJob
  Size = 4
  Word = 32
  Start = 30
  MaxJobs = 5
SPECIFICATION Spec
SYMMETRY Symmetry
INVARIANTS JobsConserved
PROPERTY ImplementsDeque
