----------------------------- MODULE EventStages -----------------------------
(***************************************************************************)
(* The stages of one event pipeline (eventSystem/event.c).  The functions  *)
(* lie in the array stages in the order they were registered, and the      *)
(* array stageIndex (order, here) says in which order they are called.  A  *)
(* sink is known by its place in stages.  A removal shortens both arrays    *)
(* but clears nothing, so that stages is what their memory holds.  Indices *)
(* are the program's, from 0; sequences count from 1.                      *)
(***************************************************************************)
EXTENDS Integers, Sequences, SequencesExt

\* The codes of event.h.
NO_TARGET == -4
STAGE_START == -8
STAGE_END == -9

NoStages == [stages |-> <<>>, order |-> <<>>]

stageCount(p) == Len(p.order)

\* What a dispatch calls, in this order.
callOrder(p) == [i \in 1 .. stageCount(p) |-> p.stages[p.order[i] + 1]]

findStageIndex(p, target) ==
  IF target = STAGE_START THEN 0
  ELSE IF target = STAGE_END THEN stageCount(p) - 1
  ELSE LET found == {i \in 1 .. stageCount(p) : p.order[i] = target}
       IN IF found = {} THEN NO_TARGET ELSE Min(found) - 1

\* stages[index] = stage; index is the length of the array
setStage(p, index, stage) ==
  SubSeq(p.stages, 1, index) \o <<stage>> \o SubSeq(p.stages, index + 2, Len(p.stages))

\* Faulty variant: no space is made in the order.
insertStageOver(p, targetIndex, stage) ==
  LET index == stageCount(p)
  IN [stages |-> setStage(p, index, stage),
      order  |-> [Append(p.order, index) EXCEPT
                    ![(IF targetIndex < index THEN targetIndex ELSE index) + 1] = index]]

\* The new function goes to the place in stages that is the number of sinks;
\* space is made in the order.
insertStage(p, targetIndex, stage) ==
  LET index == stageCount(p)
  IN [stages |-> setStage(p, index, stage),
      order  |-> IF targetIndex < index
                 THEN InsertAt(p.order, targetIndex + 1, index)
                 ELSE Append(p.order, index)]

\* index is a place in the order.  Only the order closes up: the last function
\* of stages is no longer counted, be it the removed one or another.
removeStage(p, index) ==
  [p EXCEPT !.order = IF stageCount(p) = 0 THEN @ ELSE RemoveAt(@, index + 1)]

\* Is the place that the next function goes to still in use?
nextPlaceInUse(p) == Contains(p.order, stageCount(p))

\* Where a sink comes after, or before, a target; negative: it is not registered.
afterIndex(p, target) == findStageIndex(p, target) + 1
beforeIndex(p, target) == findStageIndex(p, target)
=============================================================================
