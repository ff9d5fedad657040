------------------------------ MODULE MCScene ------------------------------
(* A small instance of Scene for TLC. *)
EXTENDS Scene, TLC

MCComponents == {0, 1}
MCRequired == [s \in Systems |-> {0}]
MCExcluded == [s \in Systems |-> {1}]
MCMaxCommands == <<1, 3, 1>>
Symmetry == Permutations(Threads)
=============================================================================
