--------------------------- MODULE SystemBatches ---------------------------
(***************************************************************************)
(* One frame of the systems of a scene (ecsQuerries.c: sceneRunSystems):   *)
(* the main thread goes through the systems in their order, finds out from *)
(* the components and the frame data each of them reads and writes which   *)
(* batches it has to wait for, gives a place in memory to the frame data   *)
(* it writes, and submits its batch; the batches run meanwhile.  Then the  *)
(* main thread waits for the fence and applies what was staged.            *)
(*                                                                         *)
(* A batch is known by the place of its system in the order.  What becomes *)
(* of a submitted batch is what JobBatchPool and JobScheduler show: that   *)
(* it runs after the batches whose dependents it was stored with and takes *)
(* itself off the fence when it is done, but also that a full queue        *)
(* refuses it and that a job is lost, left in the exchange or started over *)
(* and over.  Here each of these is one step.                              *)
(***************************************************************************)
EXTENDS Integers, Sequences, FiniteSets

CONSTANTS
  MaxResources, \* component types and frame data are numbered below it
  Components,   \* the component types
  FrameData,    \* the registered frame data
  Size,         \* of every frame data
  Alignment,    \* of every frame data
  Criteria,     \* what systems read and write: [read, write]
  SystemCount,  \* systems in the order
  MaxDependents, \* of a batch: JOB_MAX_DEPENDENTS
  MaxFrames,    \* bound: frames in a behaviour
  MaxFailures   \* bound: batches that are not submitted, refused or never end

ASSUME ResourcesAssumption ==
  /\ MaxResources \in Nat /\ Components \cup FrameData \subseteq 0 .. MaxResources - 1
  /\ FrameData \cap Components = {}
  /\ Size \in [FrameData -> Nat \ {0}] /\ Alignment \in [FrameData -> Nat]
ASSUME CriteriaAssumption ==
  Criteria \subseteq [read : SUBSET (Components \cup FrameData),
                     write : SUBSET (Components \cup FrameData)]
ASSUME CountsAssumption ==
  SystemCount \in Nat \ {0} /\ {MaxDependents, MaxFrames, MaxFailures} \subseteq Nat

VARIABLES
  systemOrder,  \* the systems: their criteria, and whether the system still exists
  phase,        \* "between" frames, in sceneRunSystems ("run"), in jobFenceWait ("wait")
  index,        \* of the system sceneRunSystems has got to
  chunks,       \* the systems that have chunks in this frame
  lastReader, lastWriter,  \* of every component and frame data
  batches,      \* what has become of the batch of each system
  dependencies, \* the array handed over with each batch
  fence,        \* work left, as the fence counts it
  offset,       \* of every frame data, NoOffset when it has no place
  end,          \* of the frame data placed so far
  capacity,     \* of the memory for frame data
  frames, failures  \* counters for the bounds

scan == <<index, lastReader, lastWriter>>
memory == <<offset, end, capacity>>
systemsVars ==
  <<systemOrder, phase, scan, chunks, batches, dependencies, fence, memory, frames, failures>>

Resources == Components \cup FrameData
Places == DOMAIN systemOrder

NoSystem == 0
NoBatch == 0   \* JOB_BATCH_NONE as a dependency
NoOffset == -1

SystemsInit ==
  /\ systemOrder \in [1 .. SystemCount ->
                        {[exists |-> TRUE, read |-> c.read, write |-> c.write] : c \in Criteria}]
  /\ phase = "between"
  /\ index = 1
  /\ chunks = {}
  /\ lastReader = [r \in Resources |-> NoSystem]
  /\ lastWriter = [r \in Resources |-> NoSystem]
  /\ batches = [i \in Places |-> "none"]
  /\ dependencies = [i \in Places |-> <<>>]
  /\ fence = 0
  /\ offset = [f \in FrameData |-> NoOffset]
  /\ end = 0 /\ capacity = 0
  /\ frames = 0 /\ failures = 0

-----------------------------------------------------------------------------
(* The application, between frames. *)

\* The id of the system stays in the order.
DestroySystem(i) ==
  /\ phase = "between" /\ frames < MaxFrames
  /\ systemOrder[i].exists
  /\ systemOrder' = [systemOrder EXCEPT ![i].exists = FALSE]
  /\ UNCHANGED <<phase, scan, chunks, batches, dependencies, fence, memory, frames, failures>>

\* The application gives an order of the systems it has not destroyed.
sceneSetSystemsOrder ==
  /\ phase = "between" /\ frames < MaxFrames
  /\ \E i \in Places : ~systemOrder[i].exists
  /\ LET kept == {i \in Places : systemOrder[i].exists}
     IN \E n \in 0 .. Len(systemOrder) : \E order \in [1 .. n -> kept] :
          /\ \A i \in kept : \E k \in 1 .. n : order[k] = i
          /\ \A i, k \in 1 .. n : order[i] = order[k] => i = k
          /\ systemOrder' = [i \in 1 .. n |-> systemOrder[order[i]]]
  /\ batches' = [i \in DOMAIN systemOrder' |-> "none"]
  /\ dependencies' = [i \in DOMAIN systemOrder' |-> <<>>]
  /\ chunks' = {}
  /\ UNCHANGED <<phase, scan, fence, memory, frames, failures>>

-----------------------------------------------------------------------------
(* sceneRunSystems *)

\* Frame data loses its place in every frame that has a system.  When one of
\* the systems is gone none is run.
BeginFrame ==
  /\ phase = "between" /\ frames < MaxFrames
  /\ frames' = frames + 1
  /\ \E some \in SUBSET Places : chunks' = some
  /\ batches' = [i \in Places |-> "none"]
  /\ dependencies' = [i \in Places |-> <<>>]
  /\ lastReader' = [r \in Resources |-> NoSystem]
  /\ lastWriter' = [r \in Resources |-> NoSystem]
  /\ index' = 1
  /\ phase' = IF \A i \in Places : systemOrder[i].exists THEN "run" ELSE "wait"
  /\ offset' = IF systemOrder = <<>> THEN offset ELSE [f \in FrameData |-> NoOffset]
  /\ end' = 0
  /\ UNCHANGED <<systemOrder, fence, capacity, failures>>

\* Faulty variant: the id is known before the batch is submitted.
batchIdEarly(i) ==
  i

\* batches[i]: the system being scanned is not submitted yet.
batchId(i) ==
  IF batches[i] \in {"none", "failed"} THEN NoBatch ELSE i

\* A batch that is in the array already is not added again.
missing(found, last) == last # NoSystem /\ ~ \E i \in DOMAIN found : found[i] = batchId(last)

\* Faulty variant: who writes does not wait for who reads.
writeDependsBlind(s, r) ==
  LET w == s.lastWriter[r]
  IN [s EXCEPT !.found = IF missing(@, w) THEN Append(@, batchId(w)) ELSE @,
               !.lastWriter[r] = index]

\* Who writes waits for the last writer and for the last reader.
writeDepends(s, r) ==
  LET w == s.lastWriter[r]
      d == s.lastReader[r]
      withWriter == IF missing(s.found, w) THEN Append(s.found, batchId(w)) ELSE s.found
  IN [s EXCEPT !.found = IF missing(s.found, d) /\ d # w THEN Append(withWriter, batchId(d))
                         ELSE withWriter,
               !.lastWriter[r] = index]

\* Who reads waits for the last writer, which is itself when it also writes.
readDepends(s, r) ==
  LET w == s.lastWriter[r]
  IN [s EXCEPT !.found = IF missing(s.found, w) THEN Append(s.found, batchId(w)) ELSE s.found,
               !.lastReader[r] = index]

\* What is left of s when every resource of the mask was looked at, in the order
\* of their numbers (ITERATE_MASK).
iterated(s, mask, access) ==
  LET after[n \in 0 .. MaxResources] ==
        IF n = 0 THEN s
        ELSE IF n - 1 \notin mask THEN after[n - 1]
        ELSE IF access = "write" THEN writeDepends(after[n - 1], n - 1)
        ELSE readDepends(after[n - 1], n - 1)
  IN after[MaxResources]

\* Once for the components and once for the frame data, over one array.
collectDependencies(s, kind) ==
  iterated(iterated(s, systemOrder[index].write \cap kind, "write"),
           systemOrder[index].read \cap kind, "read")

collected ==
  LET none == [found |-> <<>>, lastReader |-> lastReader, lastWriter |-> lastWriter]
  IN collectDependencies(collectDependencies(none, Components), FrameData)

aligned(n, alignment) ==
  IF alignment = 0 THEN n ELSE n + ((alignment - (n % alignment)) % alignment)

\* The memory is doubled until the block fits.
grownTo(size, old) ==
  LET doubled[n \in 0 .. size] ==
        IF n = 0 THEN old
        ELSE IF doubled[n - 1] >= size THEN doubled[n - 1]
        ELSE IF doubled[n - 1] = 0 THEN 1 ELSE 2 * doubled[n - 1]
  IN doubled[size]

\* Faulty variant: the next block begins where this one does.
activateBlockNoAdvance(m, f) ==
  LET place == aligned(m.end, Alignment[f])
  IN IF m.offset[f] # NoOffset THEN m
     ELSE [offset |-> [m.offset EXCEPT ![f] = place], end |-> place,
           capacity |-> grownTo(place + Size[f], m.capacity)]

\* Frame data an earlier system has given a place keeps it.
activateBlock(m, f) ==
  LET place == aligned(m.end, Alignment[f])
  IN IF m.offset[f] # NoOffset THEN m
     ELSE [offset |-> [m.offset EXCEPT ![f] = place], end |-> place + Size[f],
           capacity |-> grownTo(place + Size[f], m.capacity)]

activated ==
  LET after[n \in 0 .. MaxResources] ==
        IF n = 0 THEN [offset |-> offset, end |-> end, capacity |-> capacity]
        ELSE IF n - 1 \in systemOrder[index].write \cap FrameData
             THEN activateBlock(after[n - 1], n - 1) ELSE after[n - 1]
  IN after[MaxResources]

\* A system without chunks is passed over.
SkipSystem ==
  /\ phase = "run" /\ index \in Places \ chunks
  /\ index' = index + 1
  /\ UNCHANGED <<systemOrder, phase, lastReader, lastWriter, chunks, batches, dependencies,
                 fence, memory, frames, failures>>

\* The fence counts the batch before there is one.  It fails for want of a batch,
\* or, without dependencies, because the queue is full.
Dispatch(outcome) ==
  /\ phase = "run" /\ index \in chunks
  /\ failures' = IF outcome = "failed" THEN failures + 1 ELSE failures
  /\ failures' <= MaxFailures
  /\ dependencies' = [dependencies EXCEPT ![index] = collected.found]
  /\ lastReader' = collected.lastReader /\ lastWriter' = collected.lastWriter
  /\ offset' = activated.offset /\ end' = activated.end /\ capacity' = activated.capacity
  /\ batches' = [batches EXCEPT ![index] = outcome]
  /\ fence' = fence + 1
  /\ index' = index + 1
  /\ UNCHANGED <<systemOrder, phase, chunks, frames>>

EndOfSystems ==
  /\ phase = "run" /\ index > Len(systemOrder)
  /\ phase' = "wait"
  /\ UNCHANGED <<systemOrder, scan, chunks, batches, dependencies, fence, memory, frames, failures>>

\* jobFenceWait returns; sceneApply and the rest of the frame follow.
FenceDown ==
  /\ phase = "wait" /\ fence = 0
  /\ phase' = "between"
  /\ UNCHANGED <<systemOrder, scan, chunks, batches, dependencies, fence, memory, frames, failures>>

-----------------------------------------------------------------------------
(* The batches. *)

\* A batch is not stored with one that has all the dependents there is room for.
awaited(j) ==
  {k \in {dependencies[j][n] : n \in DOMAIN dependencies[j]} \ {NoBatch} :
     Cardinality({i \in Places :
                    i < j /\ batches[i] # "failed" /\ \E n \in DOMAIN dependencies[i] :
                                                       dependencies[i][n] = k}) < MaxDependents}

startable(i) == batches[i] = "waiting" /\ \A k \in awaited(i) : batches[k] = "done"

Becomes(i, fate) ==
  /\ batches' = [batches EXCEPT ![i] = fate]
  /\ UNCHANGED <<systemOrder, phase, scan, chunks, dependencies, memory, frames>>

StartBatch(i) ==
  /\ startable(i)
  /\ Becomes(i, "running")
  /\ UNCHANGED <<fence, failures>>

\* The queue is full when the last dependency of a batch ends, or was done.
RefuseBatch(i) ==
  /\ startable(i) /\ dependencies[i] # <<>> /\ failures < MaxFailures
  /\ Becomes(i, "refused")
  /\ failures' = failures + 1
  /\ UNCHANGED fence

FinishBatch(i) ==
  /\ batches[i] = "running"
  /\ Becomes(i, "done")
  /\ fence' = fence - 1
  /\ UNCHANGED failures

\* One of its jobs is lost, stays in the exchange or is started over and over.
HangBatch(i) ==
  /\ batches[i] = "running" /\ failures < MaxFailures
  /\ Becomes(i, "hung")
  /\ failures' = failures + 1
  /\ UNCHANGED fence

RunBatches == \E i \in Places : StartBatch(i) \/ RefuseBatch(i) \/ FinishBatch(i) \/ HangBatch(i)

RunSystems ==
  SkipSystem \/ Dispatch("waiting") \/ Dispatch("failed") \/ EndOfSystems \/ FenceDown

SystemsNext ==
  \/ \E i \in Places : DestroySystem(i)
  \/ sceneSetSystemsOrder
  \/ BeginFrame \/ RunSystems
  \/ RunBatches

SystemsSpec == SystemsInit /\ [][SystemsNext]_systemsVars

\* sceneRunSystems goes on to the next system, whatever becomes of this one.
Scan == phase = "run" /\ index \in Places /\ index' = index + 1

\* The main thread goes on, and while batches may run or run something becomes of
\* one of them, if only that it is refused or hangs; nothing is asked of their order.
FairSystemsSpec ==
  /\ SystemsSpec
  /\ WF_index(Scan) /\ WF_systemsVars(EndOfSystems \/ FenceDown) /\ WF_systemsVars(RunBatches)

-----------------------------------------------------------------------------
(* Properties. *)

writes(i) == systemOrder[i].write
uses(i) == systemOrder[i].read \cup systemOrder[i].write

started(i) == batches[i] \in {"running", "hung", "done"}
unfinished(i) == batches[i] \in {"waiting", "refused", "running", "hung"}

\* What the systems may not use at the same time.
conflicts(i, j) == (writes(i) \cap uses(j)) \cup (uses(i) \cap writes(j))

\* The batch that should hold up the later one could not be submitted.
brokenBetween(i, j, r) == \E k \in i + 1 .. j - 1 : batches[k] = "failed" /\ r \in uses(k)

\* Only the last reader before a writer is remembered: another one comes before the
\* next writer.
overlooked(i, j, r) ==
  /\ r \notin writes(i)
  /\ \E k \in i + 1 .. j - 1 :
       k \in chunks /\ r \in uses(k) /\ \A w \in i + 1 .. k : w \in chunks => r \notin writes(w)

\* A batch is not held up by one it depends on, which has its dependents already,
\* and no other one is between the two to hold it up.
crowdedBetween(i, j, r) ==
  \E l \in i + 1 .. j : \E n \in DOMAIN dependencies[l] :
    LET k == dependencies[l][n]
    IN /\ k \in i .. l - 1 /\ k \notin awaited(l) /\ r \in conflicts(k, l)
       /\ \A m \in k + 1 .. l - 1 : m \in chunks => r \notin conflicts(m, l)

\* Systems that conflict over a component or frame data run in the order of the
\* systems, however many others use it in between.  The exceptions are a reader
\* that another reader has hidden from the next writer, and a chain of systems
\* one of which could not be submitted, or has a dependent too many for the next
\* one to be held up (jobBatchPool.c:323).  No batch is left when the main thread
\* changes the scene between frames, and the array of dependencies, which has
\* one element for each system, is never overrun (ecsQuerries.c:114-155,
\* 187-256).
AccessesOrdered ==
  /\ \A j \in Places : started(j) =>
       \A i \in 1 .. j - 1 : unfinished(i) =>
         \A r \in conflicts(i, j) :
           overlooked(i, j, r) \/ brokenBetween(i, j, r) \/ crowdedBetween(i, j, r)
  /\ phase = "between" => \A i \in Places : ~unfinished(i)
  /\ \A i \in Places : Len(dependencies[i]) <= Len(systemOrder)

\* Whatever systems take part in a frame, the blocks of frame data are aligned,
\* disjoint and inside the memory, and a batch that runs finds a block for all
\* it writes and for all an earlier system of the frame has written
\* (ecsQuerries.c:157-185, frameData.c:25-34).
FrameDataPlaced ==
  LET placed == {f \in FrameData : offset[f] # NoOffset}
      block(f) == offset[f] .. offset[f] + Size[f] - 1
  IN /\ \A f \in placed :
          aligned(offset[f], Alignment[f]) = offset[f] /\ block(f) \subseteq 0 .. capacity - 1
     /\ \A f, g \in placed : f # g => block(f) \cap block(g) = {}
     /\ \A j \in Places : started(j) /\ phase # "between" =>
          \A i \in (1 .. j) \cap chunks : writes(i) \cap uses(j) \cap FrameData \subseteq placed

\* The frame is held up by batches that will not end, and all that could be done
\* without them is done.
heldUp ==
  /\ phase = "wait" /\ \E i \in Places : batches[i] \in {"failed", "refused", "hung"}
  /\ \A i \in Places : batches[i] # "running"
  /\ \A i \in Places : batches[i] = "waiting" => \E k \in awaited(i) : k < i /\ unfinished(k)

\* Every frame comes to its end, or it is held up by a batch that was not
\* submitted (jobs.c:587, :599, :621) or lost its job (jobs.c:460, :478, :490), and only
\* what depends on that one is left: no batch waits for itself, though a system
\* that reads what it writes is its own last writer, and none waits in a circle or
\* for a later one (ecsQuerries.c:143-154).
FramesEnd == phase # "between" ~> (phase = "between" \/ heldUp)
=============================================================================
