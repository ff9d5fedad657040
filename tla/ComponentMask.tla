--------------------------- MODULE ComponentMask ---------------------------
(***************************************************************************)
(* Component types and masks (componentMask.h, the registry of ecs.c).     *)
(* A mask is the set of the component types whose bits it has; registered  *)
(* types are numbered from 0 in the order of their registration.           *)
(***************************************************************************)
EXTENDS Integers, FiniteSets

CONSTANT Components  \* the registered component types

ASSUME ComponentsAssumption ==
  /\ IsFiniteSet(Components) /\ Components \subseteq Nat
  /\ \A c \in Components : 0 .. c \subseteq Components

componentMaskInvert(mask) == Components \ mask

\* The place of a component in the order of a mask.
position(c, mask) == Cardinality({d \in mask : d < c})
=============================================================================
