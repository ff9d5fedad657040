---------------------------- MODULE MCEngineFrame ----------------------------
(* A small instance of EngineFrame for TLC. *)
EXTENDS EngineFrame

CONSTANT job

MCThreads == {job}
MCIds == {REQUEST_CLOSE, CLOSED, ALL_CLOSED, QUIT, RESIZED, "KEY"}
MCAppIds == {"KEY", QUIT}
MCPassedTo == {QUIT}
MCAppSinks == <<"app1", "app2", "app3", "app4">>
MCTargets == {STAGE_START, STAGE_END, 0}

\* Two windows; a window and a sink, which may pass on an event as one to quit; a
\* window, and a sink for the events that quit, with which it may remove the
\* engine's; sinks and events, and one sink is removed; many sinks, two removed.
MCBounds ==
  {[fires |-> 2, windows |-> 2, sinks |-> 0, removals |-> 0, ids |-> {"KEY"}],
   [fires |-> 1, windows |-> 1, sinks |-> 1, removals |-> 0, ids |-> {"KEY"}],
   [fires |-> 1, windows |-> 1, sinks |-> 1, removals |-> 1, ids |-> {QUIT}],
   [fires |-> 2, windows |-> 0, sinks |-> 2, removals |-> 1, ids |-> {"KEY"}],
   [fires |-> 0, windows |-> 0, sinks |-> 4, removals |-> 2, ids |-> {"KEY"}]}
=============================================================================
