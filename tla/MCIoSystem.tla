------------------------------ MODULE MCIoSystem ------------------------------
(* A small instance of IoSystem for TLC. *)
EXTENDS IoSystem

CONSTANTS io1, io2, w1

OneIoThread == {io1}
TwoIoThreads == {io1, io2}
OneWorker == {w1}

\* A read that is processed, and writes, which find its function when they use
\* its slot again and may have no onComplete then.
MCKinds ==
  {[mode |-> "read", process |-> TRUE, complete |-> TRUE],
   [mode |-> "write", process |-> FALSE, complete |-> TRUE],
   [mode |-> "write", process |-> FALSE, complete |-> FALSE]}
=============================================================================
