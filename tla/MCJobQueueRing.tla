--------------------------- MODULE MCJobQueueRing ---------------------------
(* Small instances of JobQueueRing for TLC. *)
EXTENDS JobQueueRing, TLC

CONSTANTS t1, t2, t3, j1, j2

MCThreads3 == {t1, t2, t3}
MCJobs == {j1, j2}
Symmetry == Permutations({t1, t2, t3}) \cup Permutations({j1, j2})
============================================================================
