----------------------------- MODULE EngineFrame -----------------------------
(***************************************************************************)
(* The frame loop of the engine (engine.c) on top of the event system, with *)
(* the window system (windowSystem/window.c) and an application.  Closing  *)
(* the last window is a chain of events: the request destroys the window,  *)
(* the last one fires ALL_WINDOWS_CLOSED, whose stage fires APPLICATION_   *)
(* QUIT, whose stage stops the loop; each is seen a dispatch later.        *)
(*                                                                         *)
(* Jobs, the io system and the scenes have modules of their own, or none:  *)
(* here a frame is a step in which the application may act.                *)
(***************************************************************************)
EXTENDS EventSystem

CONSTANTS
  WindowCount,  \* maxWindows
  AppSinks,     \* the stages an application registers, one after the other
  AppIds,       \* the event ids it uses
  PassedTo,     \* the ids its sinks give to events they pass on
  AppTargets,   \* the targets it names, EventStageIDs
  AppPlaces,    \* where the main thread is when it, or a job, registers them
  Bounds        \* what may happen in one behaviour: how many events are fired by the
                \* platform, the jobs and the application, how many windows created,
                \* how many sinks registered and removed, and for which ids

REQUEST_CLOSE == "WINDOW_REQUEST_CLOSE"
CLOSED == "WINDOW_CLOSED"
ALL_CLOSED == "ALL_WINDOWS_CLOSED"
QUIT == "APPLICATION_QUIT"
RESIZED == "RESIZED"

EngineIds == <<REQUEST_CLOSE, ALL_CLOSED, QUIT, RESIZED>>
Stage(f) == insertStage(NoStages, 0, f)
EngineStages ==
  [id \in Ids |->
     CASE id = REQUEST_CLOSE -> Stage("windowRequestCloseEvent")
       [] id = ALL_CLOSED -> Stage("allWindowsClosedEvent")
       [] id = QUIT -> Stage("engineOnEvent")
       [] id = RESIZED -> Stage("engineOnResized")
       [] OTHER -> NoStages]

\* The sinks of the engine; the application has others.
EngineSinks ==
  {"windowRequestCloseEvent", "allWindowsClosedEvent", "engineOnEvent", "engineOnResized"}

ASSUME AppSinksAssumption == Range(AppSinks) \cap EngineSinks = {}
ASSUME WindowCountAssumption == WindowCount \in Nat
ASSUME IdsAssumption ==
  {REQUEST_CLOSE, CLOSED, ALL_CLOSED, QUIT, RESIZED} \cup AppIds \cup PassedTo \subseteq Ids

VARIABLES
  bounds,    \* the bounds of this behaviour
  at,        \* where the main thread is in engineRun
  running,   \* engineState->is_running
  mapping,   \* the ids of the windows: reference, and count
  broken,    \* those whose window could not be created
  created,   \* windows created (bounds the model)
  fires,     \* events fired other than by the engine itself (bounds the model)
  removals,  \* sinks removed (bounds the model)
  placed,    \* history: <<id, f, g>>, it was asked that f is called before g for id
  behind,    \* history: those of them a registration between two did not heed
  confused,  \* history: <<id, f>>, a sink that shares its id with another one
  hidden     \* history: did an event of the chain not come to the engine's sink

history == <<removals, placed, behind, confused>>
engine == <<bounds, at, running, mapping, broken, created, history>>
vars == <<eventVars, engine, fires, hidden>>

\* engineRun up to the application's initialize; the systems have started
Init ==
  /\ EventInit(EngineIds, EngineStages)
  /\ bounds \in Bounds
  /\ at = "initialize" /\ running = TRUE
  /\ mapping = [reference |-> [i \in 1 .. WindowCount |-> i - 1], count |-> 0]
  /\ broken = {} /\ created = 0 /\ fires = 0
  /\ removals = 0 /\ placed = {} /\ behind = {} /\ confused = {} /\ hidden = FALSE

-----------------------------------------------------------------------------
(* The window system                                                       *)

WindowIds == 0 .. WindowCount - 1
mapped(m) == {m.reference[i] : i \in 1 .. m.count}
windows == mapped(mapping)

\* idMappingAdd: the first id that is not in use, in the order of reference.
newWindow == mapping.reference[mapping.count + 1]

\* idMappingRemove: the id changes places with the last one in use.
idMappingRemove(m, w) ==
  LET index == CHOOSE i \in 1 .. m.count : m.reference[i] = w
  IN [reference |-> [m.reference EXCEPT ![index] = m.reference[m.count], ![m.count] = w],
      count |-> m.count - 1]

\* windowCreate.  If there is no window the id stays taken: the removal is
\* made on the window and not on the mapping (window.c:123).
WindowCreate(opened) ==
  /\ mapping.count < WindowCount /\ created < bounds.windows
  /\ mapping' = [mapping EXCEPT !.count = @ + 1]
  /\ broken' = IF opened THEN broken ELSE broken \cup {newWindow}
  /\ created' = created + 1

\* Faulty variant: the windows are counted before the window is taken out.
destroyedCountsFirst(acc, w) ==
  IF w \notin mapped(acc.mapping) THEN acc
  ELSE [mapping |-> idMappingRemove(acc.mapping, w),
        fired |-> acc.fired \o <<<<Event(CLOSED, w), "append">>>> \o
          (IF acc.mapping.count = 0 THEN <<<<Event(ALL_CLOSED, None), "append">>>> ELSE <<>>)]

\* windowDestroy: an id that is not mapped is passed over.
destroyed(acc, w) ==
  IF w \notin mapped(acc.mapping) THEN acc
  ELSE [mapping |-> idMappingRemove(acc.mapping, w),
        fired |-> acc.fired \o <<<<Event(CLOSED, w), "append">>>> \o
          (IF acc.mapping.count = 1 THEN <<<<Event(ALL_CLOSED, None), "append">>>> ELSE <<>>)]

\* The windows of a sequence of ids are destroyed, one after the other: what is
\* left, and what is fired.
Destroy(ids) ==
  LET after[n \in 0 .. Len(ids)] ==
        IF n = 0 THEN [mapping |-> mapping, fired |-> <<>>]
        ELSE destroyed(after[n - 1], ids[n])
  IN after[Len(ids)]

windowRequestCloseEvent ==
  LET done == Destroy([i \in DOMAIN current.events |-> current.events[i].arg])
  IN /\ Head(current.stages) = "windowRequestCloseEvent"
     /\ CallStage(current.events, done.fired)
     /\ mapping' = done.mapping /\ broken' = broken \cap mapped(done.mapping)
     /\ UNCHANGED <<at, running, created, fires, bounds, history, hidden>>

\* Also called with no events at all, and then quits as well.
allWindowsClosedEvent ==
  /\ Head(current.stages) = "allWindowsClosedEvent"
  /\ CallStage(current.events, <<<<Event(QUIT, None), "append">>>>)
  /\ UNCHANGED <<engine, fires, hidden>>

MayFire == fires < bounds.fires /\ fires' = fires + 1

-----------------------------------------------------------------------------
(* The engine's stages, and those of the application                       *)

engineOnEvent ==
  /\ Head(current.stages) = "engineOnEvent"
  /\ CallStage([i \in DOMAIN current.events |->
                 [current.events[i] EXCEPT !.consumed = @ \/ current.events[i].id = QUIT]], <<>>)
  /\ running' = (running /\ \A i \in DOMAIN current.events : current.events[i].id # QUIT)
  /\ UNCHANGED <<at, mapping, broken, created, fires, bounds, history, hidden>>

engineOnResized ==
  /\ Head(current.stages) = "engineOnResized"
  /\ CallStage(current.events, <<>>)
  /\ UNCHANGED <<engine, fires, hidden>>

\* A sink of the application consumes what it likes, and may pass one event it
\* consumes on to another pipeline.  What it does not consume is not seen by the
\* sinks behind it (event.c:399), which may be that of the engine.
AppStage ==
  /\ Head(current.stages) \in Range(AppSinks)
  /\ \E consumed \in SUBSET DOMAIN current.events :
       LET events == [i \in DOMAIN current.events |->
                       [current.events[i] EXCEPT !.consumed = @ \/ i \in consumed]]
       IN \/ CallStage(events, <<>>) /\ UNCHANGED fires
          \/ /\ MayFire
             /\ \E i \in consumed, id \in PassedTo \ {current.id} :
                  CallStage([events EXCEPT ![i].id = id], <<>>)
  /\ LET missed == /\ current.id = QUIT /\ Contains(Tail(current.stages), "engineOnEvent")
                   /\ Head(buffer').events = <<>>
     IN hidden' = (hidden \/ missed)
  /\ UNCHANGED engine

StageStep ==
  /\ Dispatching /\ current.stages # <<>>
  /\ \/ windowRequestCloseEvent \/ allWindowsClosedEvent
     \/ engineOnEvent \/ engineOnResized \/ AppStage

-----------------------------------------------------------------------------
(* The application and the jobs                                            *)

\* A job fires an event, or asks that a window is closed, be it open or not.
JobFires(t) ==
  /\ ~overlaid /\ at # "down" /\ MayFire
  /\ \/ \E w \in WindowIds : FireBegin(t, Event(REQUEST_CLOSE, w), "append")
     \/ \E id \in AppIds \cap bounds.ids, mode \in {"append", "overwrite"} :
          FireBegin(t, Event(id, None), mode)
  /\ UNCHANGED <<todo, engine, hidden>>

\* Between dispatches the application runs on the main thread: initialize, and
\* the answers of the io system.
AppActs ==
  /\ at \in {"initialize", "frame"} /\ MainFree
  /\ \/ /\ \E opened \in BOOLEAN : WindowCreate(opened)
        /\ UNCHANGED todo
     \/ /\ \E w \in windows :
             /\ mapping' = Destroy(<<w>>).mapping /\ broken' = broken \ {w}
             /\ todo' = Destroy(<<w>>).fired
        /\ UNCHANGED created
  /\ UNCHANGED <<registry, pool, eventsPending, readers, pc, firing, dispatch, written, handed,
                 at, running, bounds, history, fires, hidden>>

\* The application registers its next sink, from whatever thread: after a
\* target, before it, or between two.  At the end is after the last.
appRegistered(f) == \E id \in Ids : <<id, f, f>> \in placed

\* History of a sink f that has a place now, and was to have one in relation to
\* others, which was not heeded for some.  If the place in stages was in use, two
\* sinks go by one id.
Placed(id, f, pairs, unheeded) ==
  LET p == sinks[id]
      ofId(Q) == {<<id, q[1], q[2]>> : q \in Q}
  IN /\ placed' = placed \cup {<<id, f, f>>} \cup ofId(pairs)
     /\ behind' = behind \cup ofId(unheeded)
     /\ confused' = IF nextPlaceInUse(p)
                    THEN confused \cup {<<id, f>>, <<id, p.stages[stageCount(p) + 1]>>}
                    ELSE confused
NotPlaced == UNCHANGED <<placed, behind, confused>>

\* The sink a target names, if there is one.
named(p, t) == {callOrder(p)[i] : i \in {findStageIndex(p, t) + 1} \cap DOMAIN callOrder(p)}

AppRegisters(f, id) ==
  LET p == sinks[id]
      afterIt(t) == {<<g, f>> : g \in named(p, t)}
      beforeIt(t) == {<<f, g>> : g \in named(p, t)}
      place(index, pairs) ==
        /\ RegisterSink(id, f, index)
        /\ IF index < 0 THEN NotPlaced ELSE Placed(id, f, pairs, {})
      between(before, after) ==
        /\ RegisterSinkBetween(id, f, before, after)
        /\ IF noTarget(p, before, after) \/ wrongOrder(p, before, after) THEN NotPlaced
           ELSE Placed(id, f, afterIt(after) \cup beforeIt(before),
                       IF afterIndex(p, after) = beforeIndex(p, before) THEN {}
                       ELSE beforeIt(before))
  IN /\ at \in AppPlaces /\ id \in bounds.ids /\ ~appRegistered(f)
     /\ \E i \in 1 .. bounds.sinks :
          AppSinks[i] = f /\ \A j \in 1 .. i - 1 : appRegistered(AppSinks[j])
     /\ \/ \E t \in AppTargets :
             place(afterIndex(p, t), afterIt(t)) \/ place(beforeIndex(p, t), beforeIt(t))
        \/ \E before, after \in AppTargets : between(before, after)
     /\ UNCHANGED <<bounds, at, running, mapping, broken, created, fires, removals, hidden>>

\* It removes a sink that a target names.
AppRemoves(id) ==
  /\ at \in AppPlaces /\ id \in bounds.ids
  /\ \E t \in AppTargets :
       LET gone == named(sinks[id], t)
           apart(Q) == {q \in Q : q[1] # id \/ {q[2], q[3]} \cap gone = {}}
       IN /\ gone # {} => removals < bounds.removals
          /\ UnregisterSink(id, t)
          /\ placed' = apart(placed) /\ behind' = apart(behind)
          /\ removals' = IF gone = {} THEN removals ELSE removals + 1
  /\ UNCHANGED <<bounds, at, running, mapping, broken, created, fires, confused, hidden>>

-----------------------------------------------------------------------------
(* The loop: engineRun                                                     *)

\* platformPumpMessages: the platform asks to close some of its windows
\* (window.c of the Wayland plugin), or the whole application, reports a new size
\* (platformWin32.c:239, :278), or an input, which is two events (a key that is
\* pressed and released).
PumpEvent ==
  /\ at = "pump" /\ MainFree /\ MayFire
  /\ \/ \E W \in SUBSET (windows \ broken) \ {{}} :
          todo' = [i \in 1 .. Cardinality(W) |->
                     <<Event(REQUEST_CLOSE, SetToSortSeq(W, <)[i]), "append">>]
     \/ todo' = <<<<Event(QUIT, None), "append">>>>
     \/ todo' = <<<<Event(RESIZED, None), "overwrite">>>>
     \/ \E id \in AppIds \cap bounds.ids :
          todo' = [i \in {1, 2} |-> <<Event(id, None), "append">>]
  /\ UNCHANGED <<registry, pool, eventsPending, readers, pc, firing, dispatch, written, handed,
                 engine, hidden>>

\* Messages are pumped, or the connection to the display is lost; then the
\* events are dispatched in any case.
PumpDone ==
  /\ at = "pump" /\ MainFree
  /\ running' \in {running, FALSE}
  /\ at' = "dispatch" /\ dispatching' = "no"
  /\ UNCHANGED <<registry, pool, eventsPending, readers, pc, firing, buffer, todo, written, handed,
                 mapping, broken, created, bounds, history, fires, hidden>>

\* What is left of the frame: scenes, io, input, and the test of the loop.
FrameDone ==
  /\ MainFree
  /\ \/ at = "initialize" /\ at' = "pump"
     \/ at = "dispatch" /\ dispatching = "returned" /\ at' = "frame"
     \/ at = "frame" /\ at' = IF running THEN "pump" ELSE "shutdown"
  /\ UNCHANGED <<eventVars, running, mapping, broken, created, bounds, history, fires, hidden>>

\* The main thread waits for the jobs of the scene (engine.c:190), and at the end
\* for the io threads and for all jobs (jobs.c:71); these waits need not end, see
\* modules IoSystem, JobScheduler, JobBatchPool and SystemBatches.  Nor does it
\* come back from an onComplete that is not there.
MainStuck ==
  /\ at \in {"frame", "joining"} /\ MainFree
  /\ at' = "stuck"
  /\ UNCHANGED <<eventVars, running, mapping, broken, created, bounds, history, fires, hidden>>

\* systemsUninitialize, last system first: the windows go, the threads are
\* joined, and the event system is the last but none.
Shutdown ==
  /\ at = "shutdown" /\ at' = "joining"
  /\ mapping' = [mapping EXCEPT !.count = 0] /\ broken' = {}
  /\ UNCHANGED <<eventVars, running, created, bounds, history, fires, hidden>>

Joined ==
  /\ at = "joining" /\ \A t \in Threads : pc[t] = "idle"
  /\ at' = "down"
  /\ UNCHANGED <<eventVars, running, mapping, broken, created, bounds, history, fires, hidden>>

MainDispatches ==
  /\ at = "dispatch"
  /\ \/ DispatchStep /\ UNCHANGED <<engine, fires, hidden>>
     \/ StageStep

\* There may be no batch for an event of the chain.
MainFiresNext ==
  /\ MainFires
  /\ LET id == Head(todo)[1].id
         noBatch == id \in {ALL_CLOSED, QUIT} /\ batch[id] = None /\ free = <<>>
     IN hidden' = (hidden \/ noBatch)
  /\ UNCHANGED <<engine, fires>>

MainStep ==
  /\ ~overlaid
  /\ \/ MainFiresNext \/ MainDispatches
     \/ AppActs \/ PumpEvent \/ PumpDone \/ FrameDone \/ MainStuck \/ Shutdown \/ Joined
FireGoesOn(t) == ~overlaid /\ FireStep(t) /\ UNCHANGED <<engine, fires, hidden>>
AppSinkStep ==
  /\ ~overlaid
  /\ \/ \E f \in Range(AppSinks), id \in AppIds : AppRegisters(f, id)
     \/ \E id \in AppIds : AppRemoves(id)

Next ==
  \/ MainStep
  \/ \E t \in Threads : JobFires(t) \/ FireGoesOn(t)
  \/ AppSinkStep

Spec == Init /\ [][Next]_vars

\* Every thread is scheduled; nobody has to fire or to register anything.
FairSpec ==
  /\ Spec /\ WF_vars(MainStep)
  /\ \A t \in Threads : WF_vars(FireGoesOn(t))

-----------------------------------------------------------------------------
(* Properties                                                              *)

Numbers(events) == [i \in DOMAIN events |-> events[i].number]
Interval(a, b) == [i \in 1 .. b - a |-> a + i]
Collected(id) == {i \in DOMAIN buffer : buffer[i].id = id /\ buffer[i].fresh}

\* Types; and the lock is held by those who are firing.
TypeOK ==
  /\ batch \in [Ids -> Batches \cup {None}] /\ size \in [Ids -> 0 .. BatchSize]
  /\ \A b \in Batches : Len(store[b]) <= BatchSize
  /\ eventsPending \in BOOLEAN /\ readers \subseteq Threads
  /\ pc \in [Threads -> {"idle", "write", "mark"}]
  /\ dispatching \in {"no", "collect", "stages", "returned"}
  /\ at \in {"initialize", "pump", "dispatch", "frame", "shutdown", "joining", "down", "stuck"}
  /\ windows \subseteq WindowIds /\ Cardinality(windows) = mapping.count /\ broken \subseteq windows
  /\ \A t \in Threads : pc[t] # "idle" <=> t \in readers

\* No event lies in a pipeline unnoticed: the flag is up, or the thread that
\* wrote is about to raise it (event.c:374, :448).
NoEventForgotten ==
  (\E id \in Ids : size[id] > 0) => eventsPending \/ \E t \in Threads : pc[t] = "mark"

\* The events that were taken and were not yet handed to a stage are, without a
\* gap and in order, those being dispatched and then those in the batch
\* (event.c:337, :431-443).
EventsInOrder ==
  ~overlaid => \A id \in Ids :
    LET waiting == IF batch[id] = None THEN <<>> ELSE Numbers(SubSeq(store[batch[id]], 1, size[id]))
    IN /\ Collected(id) = {} => waiting = Interval(handed[id], written[id])
       /\ \A i \in Collected(id) :
            Numbers(buffer[i].events) \o waiting = Interval(handed[id], written[id])

\* A batch is free or belongs to one pipeline, which has events.  Batch 0, under
\* whose events the links of the free list lie, is handed out last, so that links
\* and events do not get into each other's way before there was once no free
\* batch; from then on they may (event.c:23-32, :310).
BatchesConserved ==
  /\ TypeOK
  /\ \A b \in Batches :
       Cardinality({i \in DOMAIN free : free[i] = b})
         + Cardinality({id \in Ids : batch[id] = b}) = 1
  /\ \A id \in Ids : batch[id] = None <=> size[id] = 0
  /\ ~exhausted => ~overlaid /\ \A id \in Ids : batch[id] # 0

\* A sink that was registered is called once for an event, and stands where it
\* was asked to in relation to its targets, whoever registered or was removed
\* since; a sink of the application that was removed is not called.  There are two
\* exceptions.  A sink that was registered between two targets is called after
\* both, instead of in between (event.h:83), unless the one it is to come before
\* is the next one behind the other (event.c:278-289).  And nothing is said of two
\* sinks that came to share an id, which takes a removal (event.c:157, :178, :235).
SinksPlaced ==
  /\ \A p \in placed :
       LET order == callOrder(sinks[p[1]])
           places(f) == {i \in DOMAIN order : order[i] = f}
       IN {<<p[1], p[2]>>, <<p[1], p[3]>>} \cap confused = {} =>
            /\ Cardinality(places(p[2])) = 1
            /\ p[2] # p[3] => \A i \in places(p[2]), j \in places(p[3]) :
                                IF p \in behind THEN j < i ELSE i < j
  /\ \A id \in Ids, f \in Range(AppSinks) :
       Contains(callOrder(sinks[id]), f) => <<id, f, f>> \in placed \/ <<id, f>> \in confused
  /\ confused # {} => removals > 0

\* The engine's sinks of the chain are still called: nobody has removed them, or
\* put another function in their place.
ChainUnbroken ==
  /\ Contains(callOrder(sinks[ALL_CLOSED]), "allWindowsClosedEvent")
  /\ Contains(callOrder(sinks[QUIT]), "engineOnEvent")

\* When the last window has been closed the engine shuts down, unless a
\* registration between two sinks has kept the lock (event.c:279, :281), the pool
\* had no batch for an event of the chain, or was used up and overwritten, an
\* application's sink before the engine's has hidden the event from it, the
\* engine's sinks are gone, or the main thread waits for ever for other systems.
LastWindowQuits ==
  (windows = {} /\ created > 0) ~>
    (at \in {"down", "stuck"} \/ lockKept \/ overlaid \/ hidden \/ ~ChainUnbroken)
=============================================================================
