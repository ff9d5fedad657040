------------------------------- MODULE Scene -------------------------------
(***************************************************************************)
(* A scene in use: the main thread creates entities and systems, jobs and  *)
(* the main thread stage what shall become of the entities, each thread in *)
(* its own command buffer, and the main thread applies the buffers between *)
(* frames (ecs.c, ecsStaging.c: applyCommandBuffers).                      *)
(*                                                                         *)
(* asked and wanted are not part of the program: what the callers have     *)
(* staged since the last application, and what they are entitled to find   *)
(* of each handle after it.                                                *)
(***************************************************************************)
EXTENDS CommandBuffer, EntityStore

LOCAL INSTANCE FiniteSetsExt
LOCAL INSTANCE SequencesExt
LOCAL INSTANCE Functions
LOCAL INSTANCE TLC

CONSTANTS
  Threads,      \* the main thread and those that run jobs
  MaxEntities,  \* bound: entities created in a behaviour
  MaxCommands   \* bound: the commands staged before each application, a sequence

ASSUME BoundsAssumption == MaxCommands \in Seq(Nat) /\ MaxEntities \in Nat

VARIABLES
  scene,      \* as in EntityStore
  destroyed,  \* whether sceneDestroy was called
  buffers,    \* the command buffers, by thread; a thread without one gets it on demand
  asked,      \* the commands staged since the last application, as <<kind, component, entity>>
  wanted,     \* handle -> its components, Staged or Gone
  created, commands, applied  \* counters for the bounds

counters == <<created, commands, applied>>
vars == <<scene, destroyed, buffers, asked, wanted, counters>>

\* Two sets that are no masks.
Staged == {-1}
Gone == {-2}

Init ==
  /\ scene = SceneCreate
  /\ destroyed = FALSE
  /\ buffers = [t \in {} |-> CreateBuffer]
  /\ asked = {}
  /\ wanted = [e \in {} |-> Staged]
  /\ created = 0 /\ commands = 0 /\ applied = 0

\* The model ends where the program has lost track of an entity.
Running == scene.fault = "none" /\ ~destroyed

\* Bound: entities and systems are made before the first command of a frame.
\* Making them and staging touch nothing in common, so that every other order
\* leads to the same state.
NothingStaged == Running /\ commands = 0

-----------------------------------------------------------------------------
(* Staging. *)

entityCreate ==
  /\ NothingStaged /\ created < MaxEntities
  /\ created' = created + 1
  /\ LET new == allocateEntityID(scene, <<0, 0>>, TRUE)
     IN scene' = new.scene /\ wanted' = new.entity :> Staged @@ wanted
  /\ UNCHANGED <<destroyed, buffers, asked, commands, applied>>

getStagingBuffer(t) == IF t \in DOMAIN buffers THEN buffers[t] ELSE CreateBuffer

\* entityAddComponent, entityRemoveComponent and entityDestroy, on any thread
\* and with any handle that was given out.
Stage(t, s, e) ==
  /\ Running /\ applied < Len(MaxCommands) /\ commands < MaxCommands[applied + 1]
  /\ commands' = commands + 1
  /\ asked' = asked \cup {<<s, e>>}
  /\ IF insertIndex(getStagingBuffer(t), s, e) = OutOfList
     THEN scene' = Fault(scene, "search beyond the list", TRUE) /\ UNCHANGED buffers
     ELSE buffers' = t :> pushCommand(getStagingBuffer(t), s, e) @@ buffers /\ UNCHANGED scene
  /\ UNCHANGED <<destroyed, wanted, created, applied>>

-----------------------------------------------------------------------------
(* Application. *)

\* What is left of the commands of every list that has some.
collectStreamHeads ==
  [h \in {<<t, s>> \in (DOMAIN buffers) \X Streams : buffers[t].lists[s].commands # <<>>} |->
     buffers[h[1]].lists[h[2]].commands]

\* What the heads say of an entity: components of one kind, from any thread.
ofKind(heads, e, kind) ==
  {h[2][2] : h \in {g \in DOMAIN heads : g[2][1] = kind /\ Head(heads[g]) = e}}

\* Every list goes on to its first command about another entity.
advanceStreams(heads, e) ==
  LET rest(s) == SubSeq(s, Min({i \in 1 .. Len(s) + 1 : i = Len(s) + 1 \/ s[i] # e}), Len(s))
      left == [h \in DOMAIN heads |-> rest(heads[h])]
  IN Restrict(left, {h \in DOMAIN left : left[h] # <<>>})

\* An entity has its row: its new components are constructed, and it is removed
\* if that is what was asked.
finish(new, e, adds, destroy) ==
  LET made == performConstructorMasked(new.scene, new.local, new.type, adds)
  IN IF ~destroy THEN made ELSE removeEntity(made, e, new.chunk, new.type)

\* A staged entity gets its place, if there is anything to place.
applyStaged(s, e, adds, destroy) ==
  IF destroy /\ adds = {} THEN freeEntityID(s, e)
  ELSE finish(createEmptyEntity(s, e, adds), e, adds, destroy)

\* A component that is both removed and added stays.
newMask(mask, adds, removes) ==
  (mask \cap componentMaskInvert(removes \ adds)) \cup adds

moveInto(new, e) == [new EXCEPT !.scene = moveEntity(@, e, new.local)]

\* The row is not found where it was if the move has moved its chunk.
finishMove(new, e, adds, destroy) ==
  LET lost == destroy /\ chunkMoved(new.scene, new.local)
  IN Fault(finish(new, e, adds, destroy /\ ~lost /\ new.scene.fault = "none"),
           "chunk moved", lost)

\* A placed entity moves to a row of the type it now has, whatever that is,
\* and is removed from there.
applyPlaced(s, e, local, adds, removes, destroy) ==
  LET old == getEntityType(s, s.chunks[getLocalEntityChunk(s, local)].type)
      mask == newMask(s.types[old].mask, adds, removes)
      row == createRow(findOrCreateEntityType(s, mask), mask)
  IN IF chunkMoved(s, local) THEN Fault(s, "chunk moved", TRUE)
     ELSE finishMove(moveInto(row, e), e, adds, destroy)

\* What is staged about an entity.  An unknown one ends the application: what
\* the other heads say is dropped.
applyTo(a, e) ==
  LET adds == ofKind(a.heads, e, "add")
      removes == ofKind(a.heads, e, "remove")
      destroy == ofKind(a.heads, e, "destroy") # {}
      heads == advanceStreams(a.heads, e)
      details == getEntityDetails(a.scene, e)
      after == CASE ~details.found -> Fault(Fault(a.scene, "entity not found", wanted[e] # Gone),
                                            "commands dropped", heads # <<>>)
                 [] details.found /\ ~details.staged /\ details.local = NoLocal ->
                      Fault(a.scene, "entity has no chunk", TRUE)
                 [] details.found /\ details.staged -> applyStaged(a.scene, e, adds, destroy)
                 [] OTHER -> applyPlaced(a.scene, e, details.local, adds, removes, destroy)
  IN [scene |-> after, heads |-> IF details.found THEN heads ELSE <<>>]

\* The entity with the smallest handle is next.
applyEntity(a) == applyTo(a, Min({Head(a.heads[h]) : h \in DOMAIN a.heads}))

applyHeads(heads) ==
  LET entities == UNION {Range(s) : s \in Range(heads)}
      step(n, a) == IF a.heads = <<>> \/ a.scene.fault # "none" THEN a ELSE applyEntity(a)
  IN FoldSet(step, [scene |-> scene, heads |-> heads], 1 .. Cardinality(entities)).scene

applyCommandBuffers == applyHeads(collectStreamHeads)

\* What the staged commands make of an entity.
become(e) ==
  LET said(kind) == {s[2] : s \in {u \in Streams : u[1] = kind /\ <<u, e>> \in asked}}
      before == IF wanted[e] = Staged THEN {} ELSE wanted[e]
  IN IF wanted[e] = Gone \/ ~ \E s \in Streams : <<s, e>> \in asked THEN wanted[e]
     ELSE IF <<<<"destroy", 0>>, e>> \in asked THEN Gone
     ELSE (before \ said("remove")) \cup said("add")

sceneApply ==
  /\ Running
  /\ \E t \in DOMAIN buffers : \E s \in Streams : buffers[t].lists[s].commands # <<>>
  /\ scene' = applyCommandBuffers
  /\ buffers' = [t \in DOMAIN buffers |-> Reset(buffers[t])]
  /\ wanted' = [e \in DOMAIN wanted |-> become(e)]
  /\ asked' = {}
  /\ applied' = applied + 1 /\ commands' = 0
  /\ UNCHANGED <<destroyed, created>>

-----------------------------------------------------------------------------
(* Systems and the end of the scene. *)

createSystem(s) ==
  /\ NothingStaged
  /\ s \notin scene.systems
  /\ scene' = registerNewSystem(scene, s)
  /\ UNCHANGED <<destroyed, buffers, asked, wanted, counters>>

DestroySystem(s) ==
  /\ NothingStaged
  /\ s \in scene.systems
  /\ scene' = destroySystem(scene, s)
  /\ UNCHANGED <<destroyed, buffers, asked, wanted, counters>>

\* What was staged is lost with the scene.
DestroyScene ==
  /\ Running
  /\ destroyed' = TRUE
  /\ scene' = sceneDestroy(scene)
  /\ buffers' = [t \in {} |-> CreateBuffer]
  /\ asked' = {}
  /\ UNCHANGED <<wanted, counters>>

Next ==
  \/ entityCreate
  \/ \E t \in Threads, s \in Streams, e \in DOMAIN wanted : Stage(t, s, e)
  \/ sceneApply
  \/ \E s \in Systems : createSystem(s) \/ DestroySystem(s)
  \/ DestroyScene

Spec == Init /\ [][Next]_vars

-----------------------------------------------------------------------------
(* Properties. *)

\* Staging loses no command and no memory: the blocks of every buffer tile its
\* memory however lists have grown, lists are sorted as the application needs
\* them, and together they hold what was asked for (ecsStaging.c:5-210).
BuffersSound ==
  /\ \A t \in DOMAIN buffers : BlocksTile(buffers[t]) /\ ListsSorted(buffers[t])
  /\ asked = {<<s, e>> \in Streams \X DOMAIN wanted :
                \E t \in DOMAIN buffers : e \in Range(buffers[t].lists[s].commands)} \/ ~Running

\* The number of entities, against which every lookup tests an index, is that
\* of the slots in use, and no slot is used by two live handles
\* (ecs.c:18-89, 219).
IdsCounted ==
  LET live == {e \in DOMAIN wanted : wanted[e] # Gone}
  IN /\ scene.count = Cardinality({i \in DOMAIN scene.table : scene.table[i] # NoLocal})
     /\ Running => /\ Cardinality({index(e) : e \in live}) = Cardinality(live)
                    /\ scene.count = Cardinality(live)

\* An id of a chunk or a type leads to the place its pool moved it to, and back.
PoolsLinked ==
  /\ \A k \in ChunkIds : scene.chunkReference[scene.chunkIndex[k]] = k
  /\ \A t \in DOMAIN scene.types : scene.typeReference[scene.typeIndex[t]] = t

\* Every chunk in use is in the list of one type, the one it names.
ChunksListed ==
  /\ \A t \in 0 .. scene.typeCount - 1 :
       LET type == scene.types[t]
           named == {k \in 0 .. scene.chunkCount - 1 : scene.chunks[k].type = type.typeID}
       IN /\ type.typeID = scene.typeReference[t]
          /\ IsInjective(type.chunks)
          /\ Range(type.chunks) = {getChunkID(scene, k) : k \in named}
  /\ \A k \in 0 .. scene.chunkCount - 1 : getEntityType(scene, scene.chunks[k].type) # NoPointer

\* A type and a system are linked in both lists or in neither, and linked if
\* and only if the system selects the type.
LinksSymmetric ==
  LET selected(t) == {s \in scene.systems : isQuerrySelected(s, scene.types[t].mask)}
      links == {<<s, t>> \in scene.systems \X (0 .. scene.typeCount - 1) : s \in selected(t)}
  IN /\ scene.selects = {<<l[1], scene.types[l[2]].typeID>> : l \in links}
     /\ scene.selectedBy = {<<scene.types[l[2]].typeID, l[1]>> : l \in links}

\* However chunks and types are created, moved to fill a gap and destroyed, ids,
\* chunks, types and systems refer to each other as their operations assume
\* (ecs.c:163-350, 361-512).
PoolsConsistent ==
  PoolsLinked /\ (~destroyed => LinksSymmetric /\ (scene.fault = "none" => ChunksListed))

\* A placed entity has a row of its own in a chunk of its components, and its
\* own data there; it is found by its handle unless its index is not below the
\* number of entities, and through its place unless its chunk has moved.
placedWell(e) ==
  LET local == scene.table[index(e)]
      chunk == scene.chunks[getChunk(scene, local[1])]
      row == chunk.localIndex[local[2]]
      details == getEntityDetails(scene, e)
  IN /\ chunk.entities[row] = e /\ row < chunk.count
     /\ scene.types[getEntityType(scene, chunk.type)].mask = wanted[e]
     /\ \A c \in wanted[e] : chunk.rows[c][row] = e
     /\ index(e) < scene.count => details.found /\ ~details.staged /\ details.local = local
     /\ details.found /\ ~chunkMoved(scene, local) =>
          \A c \in Components : entityHasComponent(scene, e, c) <=> c \in wanted[e]

\* After any sequence of applications every handle stands for what was asked of
\* it: a placed entity for its components and data, through every move of rows,
\* chunks and types, a staged one for its reservation, a removed one for
\* nothing.  No row is taken for anyone else, and destroying the scene returns
\* every chunk.  It takes one of the faults scene.fault names to break this
\* (ecs.c:606-843, ecsStaging.c:526-635).
SceneFaithful ==
  /\ Running =>
       /\ \A e \in DOMAIN wanted :
            LET details == getEntityDetails(scene, e)
            IN CASE wanted[e] = Gone -> details.found => details.local = NoLocal
                 [] wanted[e] = Staged -> index(e) < scene.count => details.found /\ details.staged
                 [] OTHER -> placedWell(e)
       /\ MapThenSumSet(LAMBDA k : scene.chunks[k].count, 0 .. scene.chunkCount - 1)
            = Cardinality({e \in DOMAIN wanted : wanted[e] \notin {Gone, Staged}})
  /\ destroyed => scene.chunkCount = 0
=============================================================================
