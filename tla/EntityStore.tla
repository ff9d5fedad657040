---------------------------- MODULE EntityStore ----------------------------
(***************************************************************************)
(* The entities of a scene (ecs.c): the table of entity ids, the pool of   *)
(* chunks that hold the rows of the entities, and the entity types, one    *)
(* for each combination of components, with the systems that select them. *)
(*                                                                         *)
(* All of it is changed by the main thread alone, between frames; so a     *)
(* scene is one record and every function of ecs.c an operator from scene  *)
(* to scene.  A pointer to a chunk or to an entity type is its index in    *)
(* the array; what lies beyond the count of an array stays in it, as in    *)
(* memory.  The row of a component holds the entity it was constructed     *)
(* for.                                                                    *)
(*                                                                         *)
(* scene.fault records the first step after which lookups no longer find   *)
(* what they should: the code goes on, the model stops there.              *)
(***************************************************************************)
EXTENDS Sequences, ComponentMask

LOCAL INSTANCE FiniteSetsExt
LOCAL INSTANCE SequencesExt
LOCAL INSTANCE Functions

CONSTANTS
  ChunkCapacity, \* entities in a chunk, CHUNK_CAPACITY
  MaxChunks,     \* chunks of the pool, MAX_CHUNKS
  Stride,        \* 2^24: a handle is generation * Stride + index
  Systems,       \* systems that may be created
  Required,      \* what the entities of a system contain, read or written
  Excluded       \* what they do not contain

ASSUME SizesAssumption ==
  /\ ChunkCapacity \in Nat \ {0} /\ MaxChunks \in Nat \ {0} /\ Stride \in Nat \ {0}
ASSUME SelectionAssumption ==
  Required \in [Systems -> SUBSET Components] /\ Excluded \in [Systems -> SUBSET Components]

NoEntity == -1            \* INVALID_ENTITY as an entity
NoLocal == <<-1, -1>>     \* INVALID_ENTITY as a place: chunk id and local id
NoPointer == -1

Rows == 0 .. ChunkCapacity - 1
ChunkIds == 0 .. MaxChunks - 1

index(e) == e % Stride
\* The macro keeps 6 of the 7 bits of a generation.
generation(e) == (e \div Stride) % 64

EmptyChunk ==
  [type |-> -1, count |-> 0, entities |-> [i \in Rows |-> NoEntity],
   localIndex |-> [i \in Rows |-> i], localID |-> [i \in Rows |-> i],
   rows |-> [c \in Components |-> [i \in Rows |-> NoEntity]]]

EmptyType == [mask |-> {}, chunks |-> <<>>, typeID |-> 0]

SceneCreate ==
  [table |-> [i \in {0} |-> NoLocal], generation |-> [i \in {0} |-> 127],
   staged |-> [i \in {0} |-> FALSE], count |-> 0,
   chunkCount |-> 0, chunks |-> [k \in ChunkIds |-> EmptyChunk],
   chunkIndex |-> [k \in ChunkIds |-> k], chunkReference |-> [k \in ChunkIds |-> k],
   typeCount |-> 0, types |-> [t \in {0} |-> EmptyType],
   typeIndex |-> [t \in {0} |-> t], typeReference |-> [t \in {0} |-> t],
   systems |-> {}, selectedBy |-> {}, selects |-> {},
   fault |-> "none"]

\* The first fault stays.
Fault(scene, kind, happens) ==
  [scene EXCEPT !.fault = IF @ = "none" /\ happens THEN kind ELSE @]

\* An array of twice its size; what is new is filled with value(i).
doubled(array, value(_)) ==
  LET n == Cardinality(DOMAIN array)
  IN [i \in 0 .. 2 * n - 1 |-> IF i < n THEN array[i] ELSE value(i)]

-----------------------------------------------------------------------------
(* Entity ids. *)

capacity(scene) == Cardinality(DOMAIN scene.table)

growIds(scene) ==
  IF scene.count < capacity(scene) THEN scene
  ELSE [scene EXCEPT !.table = doubled(@, LAMBDA i : NoLocal),
                     !.generation = doubled(@, LAMBDA i : 127),
                     !.staged = doubled(@, LAMBDA i : FALSE)]

\* Faulty variant: the slot is taken without a look at what it holds.
freeSlotBlind(scene) == scene.count % capacity(scene)

\* The search for a free slot starts at the number of entities and wraps.
freeSlot(scene) ==
  LET slot(k) == (k + scene.count) % capacity(scene)
  IN slot(Min({k \in DOMAIN scene.table : scene.table[slot(k)] = NoLocal}))

takeSlot(scene, i, value, isStaged) ==
  LET g == (scene.generation[i] + 1) % 128
  IN [entity |-> g * Stride + i,
      scene |-> [scene EXCEPT !.table[i] = value, !.generation[i] = g,
                              !.staged[i] = isStaged, !.count = @ + 1]]

takeFreeSlot(scene, value, isStaged) == takeSlot(scene, freeSlot(scene), value, isStaged)

allocateEntityID(scene, value, isStaged) == takeFreeSlot(growIds(scene), value, isStaged)

\* The generation stays until the slot is given out again.
freeEntityID(scene, e) ==
  LET i == index(e)
  IN IF i >= capacity(scene) THEN scene
     ELSE [scene EXCEPT !.staged[i] = FALSE, !.table[i] = NoLocal,
                        !.count = IF scene.table[i] = NoLocal THEN @ ELSE @ - 1]

modifyEntityID(scene, e, local, isStaged) ==
  IF index(e) >= capacity(scene) THEN scene
  ELSE [scene EXCEPT !.table[index(e)] = local, !.staged[index(e)] = isStaged]

\* An index is compared with the number of entities: after one with a smaller
\* index was freed, the entity with the last index is not found any more.
getEntityDetails(scene, e) ==
  LET i == index(e)
  IN IF e = NoEntity \/ i >= scene.count \/ scene.generation[i] # generation(e)
     THEN [found |-> FALSE, local |-> NoLocal, staged |-> FALSE]
     ELSE [found |-> TRUE, local |-> scene.table[i], staged |-> scene.staged[i]]

-----------------------------------------------------------------------------
(* Chunks. *)

getChunk(scene, id) ==
  IF id \in ChunkIds /\ scene.chunkIndex[id] < scene.chunkCount THEN scene.chunkIndex[id]
  ELSE NoPointer

\* The chunk id of a place is used as an index: once the chunk has moved this
\* is the memory it was in.
getLocalEntityChunk(scene, local) == local[1]

chunkMoved(scene, local) == getLocalEntityChunk(scene, local) # getChunk(scene, local[1])

getEntityChunk(scene, e) ==
  LET details == getEntityDetails(scene, e)
  IN IF details.found /\ ~details.staged THEN getLocalEntityChunk(scene, details.local)
     ELSE NoPointer

getEntityLocalIndex(scene, e) == getEntityDetails(scene, e).local[2]

getChunkID(scene, chunk) ==
  IF chunk \in 0 .. scene.chunkCount - 1 THEN scene.chunkReference[chunk] ELSE MaxChunks

\* The place of an entity in the arrays of its chunk.
rowOf(scene, e) == scene.chunks[getEntityChunk(scene, e)].localIndex[getEntityLocalIndex(scene, e)]

\* From a full pool comes NULL, which is the id of a chunk in use.
createChunk(scene, type) ==
  LET chunk == scene.chunkCount
      fresh == [EmptyChunk EXCEPT !.type = scene.types[type].typeID]
  IN IF chunk >= MaxChunks
     THEN [id |-> 0,
           scene |-> Fault([scene EXCEPT !.chunks[scene.chunkIndex[0]] = fresh], "pool full", TRUE)]
     ELSE [id |-> scene.chunkReference[chunk],
           scene |-> [scene EXCEPT !.chunkCount = @ + 1, !.chunks[chunk] = fresh]]

\* The last chunk of the pool is copied into the gap and the two ids change
\* places.
freeChunk(scene, id) ==
  LET chunk == getChunk(scene, id)
      last == scene.chunkCount - 1
      lastID == scene.chunkReference[last]
  IN IF chunk = NoPointer THEN scene
     ELSE [scene EXCEPT !.chunks[chunk] = scene.chunks[last],
                        !.chunkReference = [@ EXCEPT ![chunk] = lastID, ![last] = id],
                        !.chunkIndex = [@ EXCEPT ![id] = last, ![lastID] = chunk],
                        !.chunkCount = last]

getEntityType(scene, id) ==
  IF id \in DOMAIN scene.types /\ scene.typeIndex[id] < scene.typeCount THEN scene.typeIndex[id]
  ELSE NoPointer

\* The number of the type's chunks goes down: it is the last of the list that
\* drops out, whichever was destroyed.
destroyChunk(scene, type, id) ==
  IF getChunk(scene, id) = NoPointer THEN scene
  ELSE Fault([freeChunk(scene, id) EXCEPT !.types[type].chunks = Front(@)],
             "chunk unlisted", Last(scene.types[type].chunks) # id)

-----------------------------------------------------------------------------
(* Entity types and systems. *)

isQuerrySelected(s, mask) ==
  /\ Required[s] # {} /\ Required[s] \subseteq mask
  /\ Excluded[s] \cap mask = {}

findEntityType(scene, mask) ==
  LET same == {t \in 0 .. scene.typeCount - 1 : scene.types[t].mask = mask}
  IN IF same = {} THEN NoPointer ELSE Min(same)

growTypes(scene) ==
  IF scene.typeCount < Cardinality(DOMAIN scene.types) THEN scene
  ELSE [scene EXCEPT !.types = doubled(@, LAMBDA i : EmptyType),
                     !.typeIndex = doubled(@, LAMBDA i : i),
                     !.typeReference = doubled(@, LAMBDA i : i)]

\* A new type and the systems that select it are linked both ways.
registerSystems(scene, id, mask) ==
  LET selecting == {s \in scene.systems : isQuerrySelected(s, mask)}
  IN [scene EXCEPT !.selectedBy = @ \cup {<<id, s>> : s \in selecting},
                   !.selects = @ \cup {<<s, id>> : s \in selecting}]

nextType(scene, mask) ==
  LET type == scene.typeCount
      id == scene.typeReference[type]
  IN [registerSystems(scene, id, mask) EXCEPT
        !.typeCount = @ + 1, !.types[type] = [EmptyType EXCEPT !.mask = mask, !.typeID = id]]

createEntityType(scene, mask) == nextType(growTypes(scene), mask)

findOrCreateEntityType(scene, mask) ==
  IF findEntityType(scene, mask) = NoPointer THEN createEntityType(scene, mask) ELSE scene

unregisterEntityTypeFromSystems(scene, type) ==
  LET id == scene.types[type].typeID
  IN [scene EXCEPT !.selects = {l \in @ : ~(l[2] = id /\ <<id, l[1]>> \in scene.selectedBy)}]

\* Faulty variant: the type that moves keeps its old index.
removeEntityTypeKeepsIndex(scene, type) ==
  LET id == scene.types[type].typeID
      last == scene.typeCount - 1
      lastID == scene.typeReference[last]
  IN [scene EXCEPT !.types[type] = scene.types[last],
                   !.typeReference = [@ EXCEPT ![type] = lastID, ![last] = id],
                   !.typeIndex[id] = last,
                   !.typeCount = last]

\* The last type is copied into the gap and the two ids change places.
removeEntityType(scene, type) ==
  LET id == scene.types[type].typeID
      last == scene.typeCount - 1
      lastID == scene.typeReference[last]
  IN [scene EXCEPT !.types[type] = scene.types[last],
                   !.typeReference = [@ EXCEPT ![type] = lastID, ![last] = id],
                   !.typeIndex = [@ EXCEPT ![lastID] = type, ![id] = last],
                   !.typeCount = last]

\* The type's list of systems is freed with its list of chunks.
destroyEntityTypeChunks(scene, type) ==
  LET freed == [scene EXCEPT !.selectedBy = {l \in @ : l[1] # scene.types[type].typeID}]
  IN FoldLeft(LAMBDA s, id : destroyChunk(s, type, id), freed, scene.types[type].chunks)

\* A pointer that is not that of the type any more is refused, after its
\* systems have been told.
destroyEntityType(scene, type) ==
  LET untold == unregisterEntityTypeFromSystems(scene, type)
  IN IF getEntityType(scene, scene.types[type].typeID) # type THEN untold
     ELSE removeEntityType(destroyEntityTypeChunks(untold, type), type)

registerNewSystem(scene, s) ==
  LET selected == {scene.types[t].typeID :
                     t \in {u \in 0 .. scene.typeCount - 1 :
                             isQuerrySelected(s, scene.types[u].mask)}}
  IN [scene EXCEPT !.systems = @ \cup {s},
                   !.selectedBy = @ \cup {<<id, s>> : id \in selected},
                   !.selects = @ \cup {<<s, id>> : id \in selected}]

destroySystem(scene, s) ==
  [scene EXCEPT !.systems = @ \ {s},
                !.selectedBy = {l \in @ : ~(l[2] = s /\ <<s, l[1]>> \in scene.selects)},
                !.selects = {l \in @ : l[1] # s}]

-----------------------------------------------------------------------------
(* Entities in chunks. *)

\* A new chunk goes to the end of its type's list.
listChunk(new, type) == [new EXCEPT !.scene.types[type].chunks = Append(@, new.id)]

\* The first chunk of the type with room, or a new one.
chunkWithRoom(scene, type) ==
  LET chunks == scene.types[type].chunks
      roomy == {i \in DOMAIN chunks :
                  scene.chunks[getChunk(scene, chunks[i])].count < ChunkCapacity}
  IN IF roomy # {} THEN [id |-> chunks[Min(roomy)], scene |-> scene]
     ELSE listChunk(createChunk(scene, type), type)

\* The next row of a chunk, with the pointers its callers get.
takeRow(r, chunk, type) ==
  LET row == r.scene.chunks[chunk].count
  IN [local |-> <<r.id, r.scene.chunks[chunk].localID[row]>>,
      chunk |-> chunk, row |-> row, type |-> type,
      scene |-> [r.scene EXCEPT !.chunks[chunk].count = @ + 1]]

takeRowIn(r, type) == takeRow(r, getChunk(r.scene, r.id), type)

createLocalEntity(scene, type) == takeRowIn(chunkWithRoom(scene, type), type)

\* A row for an entity of these components, whose type the scene has.
createRow(scene, mask) == createLocalEntity(scene, findEntityType(scene, mask))

placeEntity(new, e) ==
  [new EXCEPT !.scene = modifyEntityID([@ EXCEPT !.chunks[new.chunk].entities[new.row] = e],
                                       e, new.local, FALSE)]

createEmptyEntity(scene, e, mask) ==
  placeEntity(createRow(findOrCreateEntityType(scene, mask), mask), e)

swapped(f, x, y) == [f EXCEPT ![x] = f[y], ![y] = f[x]]

\* The arrays that are swapped are the first ones of the chunk, as many as its
\* mask has components.
swapRows(scene, k, i, j, mask) ==
  LET localID == scene.chunks[k].localID
      arrays == {position(c, mask) : c \in mask}
  IN Fault([scene EXCEPT
              !.chunks[k].rows =
                 [c \in Components |-> IF c \in arrays THEN swapped(@[c], i, j) ELSE @[c]],
              !.chunks[k].localIndex = swapped(@, localID[i], localID[j]),
              !.chunks[k].localID = swapped(@, i, j),
              !.chunks[k].entities = swapped(@, i, j)],
           "rows of other components swapped", arrays # mask)

\* Two entities of a chunk change rows.
swapEntities(scene, a, b) ==
  LET k == getEntityChunk(scene, a)
      mask == scene.types[getEntityType(scene, scene.chunks[k].type)].mask
  IN IF a = b THEN scene
     ELSE IF getEntityChunk(scene, b) # k THEN Fault(scene, "entity not found", TRUE)
     ELSE swapRows(scene, k, rowOf(scene, a), rowOf(scene, b), mask)

\* Faulty variant: the last row is given up, whoever is in it.
dropLastRowUnswapped(scene, e, chunk) ==
  [scene EXCEPT !.chunks[chunk].entities[scene.chunks[chunk].count - 1] = NoEntity,
                !.chunks[chunk].count = @ - 1]

\* The entity goes to the last row of its chunk, and that row is given up.
dropLastRow(scene, e, chunk) ==
  LET last == scene.chunks[chunk].count - 1
  IN [swapEntities(scene, e, scene.chunks[chunk].entities[last]) EXCEPT
        !.chunks[chunk].entities[last] = NoEntity, !.chunks[chunk].count = last]

dropEmptyType(scene, type) ==
  IF scene.types[type].chunks = <<>> THEN destroyEntityType(scene, type) ELSE scene

\* A chunk without entities goes, and with the last one its type.
dropEmpty(scene, chunk, type) ==
  IF scene.chunks[chunk].count # 0 THEN scene
  ELSE dropEmptyType(destroyChunk(scene, type, getChunkID(scene, chunk)), type)

\* The row given up last is copied as far as both types have the component, the
\* rest is zero.
copyRow(scene, e, dst, from, to) ==
  LET mask(k) == scene.types[getEntityType(scene, scene.chunks[k].type)].mask
      oldRow == scene.chunks[from].count
      newRow == scene.chunks[to].localIndex[dst[2]]
      copied(c) == IF c \in mask(from) THEN scene.chunks[from].rows[c][oldRow] ELSE NoEntity
  IN [scene EXCEPT
        !.chunks[to].rows = [c \in Components |->
           IF c \in mask(to) THEN [@[c] EXCEPT ![newRow] = copied(c)] ELSE @[c]],
        !.chunks[to].entities[newRow] = e,
        !.table[index(e)] = dst]

\* Within a chunk nothing moves: the new row has been taken for nothing.
moveEntity(scene, e, dst) ==
  LET from == getEntityChunk(scene, e)
      to == getLocalEntityChunk(scene, dst)
      moved == copyRow(dropLastRow(scene, e, from), e, dst, from, to)
  IN IF chunkMoved(scene, dst) THEN Fault(scene, "chunk moved", TRUE)
     ELSE IF from = to THEN Fault(scene, "moved within the chunk", TRUE)
     ELSE dropEmpty(moved, from, getEntityType(scene, scene.chunks[from].type))

\* The component data of a new entity is constructed in its row.  The arrays
\* are reached through pointers, which the copy of a moved chunk shares.
performConstructorMasked(scene, local, type, mask) ==
  LET chunk == getChunk(scene, local[1])
      row == scene.chunks[chunk].localIndex[local[2]]
      constructed == scene.types[type].mask \cap mask
      construct(f) == [f EXCEPT ![row] = scene.chunks[chunk].entities[row]]
  IN IF local[2] >= scene.chunks[chunk].count
     THEN Fault(scene, "constructor skipped", constructed # {})
     ELSE [scene EXCEPT !.chunks[chunk].rows =
             [c \in Components |-> IF c \in constructed THEN construct(@[c]) ELSE @[c]]]

removeEntity(scene, e, chunk, type) ==
  dropEmpty(freeEntityID(dropLastRow(scene, e, chunk), e), chunk, type)

\* Every type gives up its chunks, by their ids.
sceneDestroy(scene) ==
  LET emptied == FoldLeftDomain(LAMBDA s, i : destroyEntityTypeChunks(s, i - 1), scene,
                                [i \in 1 .. scene.typeCount |-> i])
  IN [emptied EXCEPT !.fault = scene.fault]

entityHasComponent(scene, e, c) ==
  LET chunk == getEntityChunk(scene, e)
      type == getEntityType(scene, scene.chunks[chunk].type)
  IN chunk # NoPointer /\ type # NoPointer /\ c \in scene.types[type].mask
=============================================================================
