-------------------------- MODULE MCJobInstancePool --------------------------
(* A small instance of JobInstancePool for TLC. *)
EXTENDS JobInstancePool, TLC

CONSTANTS t1, t2, t3, batch1, batch2

MCThreads == {t1, t2, t3}
MCBatches == {batch1, batch2}
Symmetry == Permutations(MCThreads) \cup Permutations(MCBatches)
=============================================================================
