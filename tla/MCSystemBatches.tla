-------------------------- MODULE MCSystemBatches --------------------------
(* Small instances of SystemBatches for TLC. *)
EXTENDS SystemBatches

\* Frame data 1 needs one byte, 2 four aligned bytes, 3 three.
MCFrameData == {1, 2, 3}
MCSize == <<1, 4, 3>>
MCAlignment == <<0, 4, 2>>

MCComponents == {0}
MCCriteria ==
  {[read |-> {0}, write |-> {}], [read |-> {}, write |-> {0}], [read |-> {0}, write |-> {0}],
   [read |-> {0}, write |-> {1, 3}], [read |-> {1}, write |-> {0, 2}],
   [read |-> {3}, write |-> {1, 2}], [read |-> {2, 3}, write |-> {}]}
=============================================================================
