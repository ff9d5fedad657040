----------------------------- MODULE EventSystem -----------------------------
(***************************************************************************)
(* The event system (eventSystem/event.c).  Any thread fires an event: it  *)
(* is written into the current batch of the pipeline of its id.  The main  *)
(* thread dispatches: it takes the batches of all pipelines under the      *)
(* write lock and then calls the stages of each, sifting and rerouting.    *)
(*                                                                         *)
(* Firing is one action per step between two accesses another thread sees; *)
(* what is done under the write lock is one action, as is the section      *)
(* under a pipeline's mutex.  What a stage does is left to the module that *)
(* extends this one: CallStage takes the events as the stage leaves them   *)
(* and the events it fires, which the main thread then fires one by one.   *)
(*                                                                         *)
(* Every event carries, as history, its number in its pipeline.            *)
(***************************************************************************)
EXTENDS EventStages, FiniteSets

CONSTANTS
  Threads,         \* the threads that fire events beside the main thread
  Ids,             \* the event ids below maxID
  BatchSize,       \* EVENT_BATCH_SIZE
  PoolSize,        \* EVENT_POOL_SIZE
  LinksPerEvent,   \* how many links of the free list lie over one event
  MaxHops,         \* 8 in the program
  None             \* INVALID_BATCH, and the context of an event that has none

ASSUME BatchSizeAssumption == BatchSize \in Nat \ {0}
ASSUME IdsFinite == IsFiniteSet(Ids)
ASSUME NoneAssumption == None \notin Nat
ASSUME PoolSizeAssumption == PoolSize \in Nat \ {0} /\ LinksPerEvent \in Nat \ {0}

VARIABLES
  pipelines,   \* the registered ids, in order of registration
  sinks,       \* the stages of every pipeline
  lockKept,    \* has a registration returned with the write lock
  batch, size, \* currentBatch, and currentSize alias eventsPending
  store, free, \* the batches of the pool, and the list of free ones
  exhausted,   \* history: has there been no free batch
  overlaid,    \* has an event been written over a link of the list, or a link over
               \* an event: what memory then holds is not modelled
  eventsPending,
  readers,     \* who holds eventLock; a writer holds it within one action
  pc, firing,  \* where each thread is in addEvent, and what it fires, how
  dispatching, \* is the main thread in eventsDispatch, and how far
  buffer,      \* dispatchBuffer and eventStageBuffer: what is left to dispatch
  todo,        \* what the main thread is to fire before it goes on
  written, handed   \* history: events written, and handed to their first stage

registry == <<pipelines, sinks, lockKept>>
pool == <<batch, size, store, free, exhausted, overlaid>>
dispatch == <<dispatching, buffer>>
eventVars == <<registry, pool, eventsPending, readers, pc, firing, dispatch, todo,
               written, handed>>

Batches == 0 .. PoolSize - 1

\* The list lies over the pool, and is so short that batch 0 has all of it
\* (event.c:23-32): the event of batch 0 that the link of b lies over.
eventUnder(b) == b \div LinksPerEvent + 1

\* An event as it is fired; arg is its context.
Event(id, arg) == [id |-> id, arg |-> arg, consumed |-> FALSE, hops |-> 0, number |-> 0]
Numbered(event, number) ==
  [id |-> event.id, arg |-> event.arg, consumed |-> event.consumed, hops |-> event.hops,
   number |-> number]

\* eventSystemInitialize, with the pipelines that are registered at start-up
EventInit(ids, stagesOf) ==
  /\ pipelines = ids /\ sinks = stagesOf /\ lockKept = FALSE
  /\ batch = [i \in Ids |-> None] /\ size = [i \in Ids |-> 0]
  /\ store = [b \in Batches |-> <<>>]
  /\ free = [i \in 1 .. PoolSize |-> PoolSize - i]
  /\ exhausted = FALSE /\ overlaid = FALSE
  /\ eventsPending = FALSE
  /\ readers = {}
  /\ pc = [t \in Threads |-> "idle"]
  /\ firing = [t \in Threads |-> <<>>]
  /\ dispatching = "no" /\ buffer = <<>> /\ todo = <<>>
  /\ written = [i \in Ids |-> 0] /\ handed = [i \in Ids |-> 0]

registered(id) == Contains(pipelines, id)

-----------------------------------------------------------------------------
(* Firing: addEvent, writeEvent, overwriteEvent.                           *)

\* Up to avRWLockReadLock; mode is the function that writes the event.
FireBegin(t, event, mode) ==
  /\ pc[t] = "idle" /\ ~lockKept
  /\ readers' = readers \cup {t}
  /\ firing' = [firing EXCEPT ![t] = <<event, mode>>]
  /\ pc' = [pc EXCEPT ![t] = "write"]
  /\ UNCHANGED <<registry, pool, eventsPending, dispatch, written, handed>>

\* How many events of the batch stay when one more is written: an overwriting
\* writer takes the last place of a full batch.
kept(id, mode) ==
  IF mode = "overwrite" /\ size[id] >= BatchSize THEN size[id] - 1 ELSE size[id]

\* The batch that is taken from the list of free ones, if there is one.
allocateEventBatch == Head(free)

\* There is no pipeline, no batch, or no place in it: the event is not taken.
Refused(id, mode) ==
  \/ ~registered(id)
  \/ batch[id] = None /\ free = <<>>
  \/ batch[id] # None /\ kept(id, mode) >= BatchSize

\* The section under the mutex of the pipeline, for an event that is taken.  In
\* batch 0 it may come to lie over the link of a batch that is free.
writeEvent(event, mode) ==
  LET id == event.id
      b == IF batch[id] = None THEN allocateEventBatch ELSE batch[id]
      n == IF batch[id] = None THEN 0 ELSE kept(id, mode)
      number == written[id] - size[id] + n + 1
  IN /\ batch' = [batch EXCEPT ![id] = b]
     /\ free' = IF batch[id] = None THEN Tail(free) ELSE free
     /\ store' = [store EXCEPT ![b] = Append(SubSeq(@, 1, n), Numbered(event, number))]
     /\ size' = [size EXCEPT ![id] = n + 1]
     /\ exhausted' = (exhausted \/ free' = <<>>)
     /\ overlaid' = (b = 0 /\ \E i \in DOMAIN free' : eventUnder(free'[i]) = n + 1)
     /\ written' = [written EXCEPT ![id] = number]

\* The lock is given back: nobody can tell it from the step before.
ReadUnlock(t) ==
  /\ readers' = readers \ {t}
  /\ firing' = [firing EXCEPT ![t] = <<>>]
  /\ pc' = [pc EXCEPT ![t] = "idle"]

Write(t) ==
  LET event == firing[t][1]
      mode == firing[t][2]
  IN /\ pc[t] = "write"
     /\ \/ /\ Refused(event.id, mode)
           /\ ReadUnlock(t)
           /\ UNCHANGED <<pool, written>>
        \/ /\ ~Refused(event.id, mode)
           /\ writeEvent(event, mode)
           /\ pc' = [pc EXCEPT ![t] = "mark"]
           /\ UNCHANGED <<readers, firing>>
     /\ UNCHANGED <<registry, eventsPending, dispatch, handed, todo>>

Mark(t) ==
  /\ pc[t] = "mark"
  /\ eventsPending' = TRUE
  /\ ReadUnlock(t)
  /\ UNCHANGED <<registry, pool, dispatch, written, handed, todo>>

\* The main thread fires the next of the events its callback, or it itself,
\* fires: in one step, for it is the one that reads and clears the flag.
MainFires ==
  /\ todo # <<>> /\ ~lockKept
  /\ todo' = Tail(todo)
  /\ LET event == Head(todo)[1]
         mode == Head(todo)[2]
     IN \/ Refused(event.id, mode) /\ UNCHANGED <<pool, written, eventsPending>>
        \/ ~Refused(event.id, mode) /\ writeEvent(event, mode) /\ eventsPending' = TRUE
  /\ UNCHANGED <<registry, readers, pc, firing, dispatch, handed>>

\* The main thread is not in the middle of a callback.
MainFree == todo = <<>>

-----------------------------------------------------------------------------
(* Registration.  Each registers the id first, in a write-locked section of *)
(* its own; nothing can come between that shows, so it is one action.       *)

WriteLockFree == readers = {} /\ ~lockKept

\* registerEventID, as part of a registration
Registered(id) ==
  IF registered(id) THEN pipelines ELSE Append(pipelines, id)

\* The write-locked section: pipeline is what becomes of the one of id.
Relocate(id, pipeline, keepsLock) ==
  /\ WriteLockFree
  /\ pipelines' = Registered(id)
  /\ sinks' = [sinks EXCEPT ![id] = pipeline]
  /\ lockKept' = keepsLock
  /\ UNCHANGED <<pool, eventsPending, readers, pc, firing, dispatch, written, handed, todo>>

\* registerEventSink, ...After, ...Before: index is afterIndex or beforeIndex.
RegisterSink(id, stage, index) ==
  Relocate(id, IF index < 0 THEN sinks[id] ELSE insertStage(sinks[id], index, stage), FALSE)

\* registerEventSinkBetween: the sink comes right after the target after, unless
\* that is two places or more before the target before.  If one of the targets is
\* not there, the function returns without an unlock (event.c:279, :281).
noTarget(p, before, after) == beforeIndex(p, before) < 0 \/ afterIndex(p, after) < 0
wrongOrder(p, before, after) == afterIndex(p, after) < beforeIndex(p, before)

RegisterSinkBetween(id, stage, before, after) ==
  LET p == sinks[id]
      failed == noTarget(p, before, after) \/ wrongOrder(p, before, after)
  IN /\ before # after
     /\ Relocate(id, IF failed THEN p ELSE insertStage(p, afterIndex(p, after), stage),
                 noTarget(p, before, after))

\* unregisterEventSink
UnregisterSink(id, target) ==
  LET p == sinks[id]
      index == findStageIndex(p, target)
  IN Relocate(id, IF index < 0 THEN p ELSE removeStage(p, index), FALSE)

-----------------------------------------------------------------------------
(* Dispatching: eventsDispatch, dispatchEvents.                            *)

\* The test is made without the lock; a late answer waits for the next frame.
DispatchTest ==
  /\ dispatching = "no" /\ MainFree
  /\ dispatching' = IF eventsPending THEN "collect" ELSE "returned"
  /\ UNCHANGED <<registry, pool, eventsPending, readers, pc, firing, buffer, written, handed, todo>>

\* The loop over the pipelines that finds those with events, in this order.
pendingPipelines == {i \in DOMAIN pipelines : size[pipelines[i]] > 0}
InOrder(S) ==
  {q \in [1 .. Cardinality(S) -> S] : \A i, j \in DOMAIN q : i < j => q[i] < q[j]}
pendingIds == {[i \in DOMAIN q |-> pipelines[q[i]]] : q \in InOrder(pendingPipelines)}

\* The list once the batches of ids were freed, one after the other.
freeEventBatches(ids) == Reverse([i \in 1 .. Len(ids) |-> batch[ids[i]]]) \o free

\* What is taken out of a pipeline.
taken(id) ==
  [id |-> id, events |-> SubSeq(store[batch[id]], 1, size[id]),
   stages |-> callOrder(sinks[id]), fresh |-> TRUE, reroute |-> <<>>]

\* A batch is freed, and its link lies over an event of batch 0, which is that of
\* a pipeline that comes later and was not copied yet.
linksOverEvents(ids) ==
  \E i, k \in DOMAIN ids :
    i < k /\ batch[ids[k]] = 0 /\ eventUnder(batch[ids[i]]) <= size[ids[k]]

\* Faulty variant: the batches are copied, but stay with their pipelines.
CollectCopies ==
  /\ dispatching = "collect" /\ WriteLockFree
  /\ \E ids \in pendingIds : buffer' = [i \in DOMAIN ids |-> taken(ids[i])]
  /\ eventsPending' = FALSE
  /\ dispatching' = "stages"
  /\ UNCHANGED <<registry, pool, readers, pc, firing, written, handed, todo>>

\* Faulty variant: a batch is freed, and its pipeline goes on using it.
CollectKeepsBatch ==
  /\ dispatching = "collect" /\ WriteLockFree
  /\ \E ids \in pendingIds :
       /\ buffer' = [i \in DOMAIN ids |-> taken(ids[i])]
       /\ free' = freeEventBatches(ids) /\ overlaid' = linksOverEvents(ids)
  /\ size' = [id \in Ids |-> 0]
  /\ eventsPending' = FALSE
  /\ dispatching' = "stages"
  /\ UNCHANGED <<registry, batch, store, exhausted, readers, pc, firing, written, handed,
                 todo>>

\* The section under the write lock: every batch is copied and freed, together
\* with the stages there are now.  What a free batch holds is not kept.
Collect ==
  /\ dispatching = "collect" /\ WriteLockFree
  /\ \E ids \in pendingIds :
       /\ buffer' = [i \in DOMAIN ids |-> taken(ids[i])]
       /\ free' = freeEventBatches(ids) /\ overlaid' = linksOverEvents(ids)
       /\ batch' = [id \in Ids |-> IF Contains(ids, id) THEN None ELSE batch[id]]
  /\ size' = [id \in Ids |-> 0]
  /\ store' = [b \in Batches |-> IF b \in Range(batch') THEN store[b] ELSE <<>>]
  /\ eventsPending' = FALSE
  /\ dispatching' = "stages"
  /\ UNCHANGED <<registry, exhausted, readers, pc, firing, written, handed, todo>>

\* What a stage leaves for the next: the events it consumed, unless they were
\* given another id, which are to be rerouted.  Whether the events have come
\* around too often is asked of the first one only, at every step of the loop.
siftOne(id, acc, j) ==
  IF acc.events[1].hops > MaxHops \/ ~acc.events[j].consumed THEN acc
  ELSE IF acc.events[j].id # id
  THEN [acc EXCEPT !.reroute = Append(@, acc.events[j])]
  ELSE [acc EXCEPT !.events[acc.count + 1] = acc.events[j], !.count = @ + 1]

sifted(d, events) ==
  LET after[n \in 0 .. Len(events)] ==
        IF n = 0 THEN [events |-> events, count |-> 0, reroute |-> d.reroute]
        ELSE siftOne(d.id, after[n - 1], n)
  IN after[Len(events)]

Sift(d, events) ==
  LET end == sifted(d, events)
  IN [id |-> d.id, events |-> SubSeq(end.events, 1, end.count), stages |-> Tail(d.stages),
      fresh |-> FALSE, reroute |-> end.reroute]

Dispatching == dispatching = "stages" /\ buffer # <<>> /\ MainFree
current == Head(buffer)

\* History: the events of the current dispatch are handed over when its first
\* stage is called, or when it has none.
HandOver ==
  handed' = IF current.fresh
            THEN [handed EXCEPT ![current.id] = current.events[Len(current.events)].number]
            ELSE handed

\* A stage is called with the current events, leaves them as events, and fires
\* fired meanwhile.
CallStage(events, fired) ==
  /\ Dispatching /\ current.stages # <<>>
  /\ buffer' = [buffer EXCEPT ![1] = Sift(@, events)]
  /\ HandOver
  /\ todo' = fired
  /\ UNCHANGED <<registry, pool, eventsPending, readers, pc, firing, dispatching, written>>

\* The stages are through: the events to reroute are fired, hops is a field of
\* four bits.
Reroute ==
  /\ Dispatching /\ current.stages = <<>>
  /\ todo' = [i \in DOMAIN current.reroute |->
       <<[current.reroute[i] EXCEPT !.hops = (@ + 1) % 16], "append">>]
  /\ buffer' = Tail(buffer)
  /\ HandOver
  /\ UNCHANGED <<registry, pool, eventsPending, readers, pc, firing, dispatching, written>>

\* Faulty variant: the flag comes down after the events were dispatched.
DispatchReturnClears ==
  /\ dispatching = "stages" /\ buffer = <<>> /\ MainFree
  /\ dispatching' = "returned" /\ eventsPending' = FALSE
  /\ UNCHANGED <<registry, pool, readers, pc, firing, buffer, written, handed, todo>>

DispatchReturn ==
  /\ dispatching = "stages" /\ buffer = <<>> /\ MainFree
  /\ dispatching' = "returned"
  /\ UNCHANGED <<registry, pool, eventsPending, readers, pc, firing, buffer, written, handed, todo>>

FireStep(t) == Write(t) \/ Mark(t)
DispatchStep == DispatchTest \/ Collect \/ Reroute \/ DispatchReturn

=============================================================================
