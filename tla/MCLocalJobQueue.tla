--------------------------- MODULE MCLocalJobQueue ---------------------------
(* Small instances of LocalJobQueue for TLC. *)
EXTENDS LocalJobQueue, TLC

CONSTANTS t1, t2

MCThieves == {t1, t2}
Symmetry == Permutations(MCThieves)
==============================================================================
