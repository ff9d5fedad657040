--------------------------- MODULE MCJobBatchPool ---------------------------
(* Small instances of JobBatchPool for TLC. *)
EXTENDS JobBatchPool

CONSTANT w1

OneWorker == {w1}
SingleOrPair == {1, 2}
=============================================================================
