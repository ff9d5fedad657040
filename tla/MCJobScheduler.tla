--------------------------- MODULE MCJobScheduler ---------------------------
(* Small instances of JobScheduler for TLC. *)
EXTENDS JobScheduler, TLC

CONSTANTS w1, w2, mid, urgent1, urgent2

OneWorker == {w1}
TwoWorkers == {w1, w2}

OnlyMid == {mid}
OnlyUrgent == {urgent1}
MidAndUrgent == {mid, urgent2}

\* Nothing interrupts the urgent jobs; the main thread helps down to mid.
MCPriority == [x \in Batches |-> IF x = mid THEN 1 ELSE 0]
MCTriple == [x \in Batches |-> IF x = mid THEN 3 ELSE 1]
MCFour == [x \in Batches |-> IF x = mid THEN 4 ELSE 1]
MCTwoSections == [x \in Batches |-> 2]
MCThreeSections == [x \in Batches |-> 3]

Symmetry == Permutations(TwoWorkers)
=============================================================================
