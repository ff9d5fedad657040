--------------------------- MODULE CommandBuffer ---------------------------
(***************************************************************************)
(* The command buffer of one thread (ecsStaging.c): the commands a job or  *)
(* the main thread stages until the scene is applied.  A buffer keeps one  *)
(* list of commands for each component that is added or removed and one   *)
(* for destructions, each sorted by entity, in blocks of a memory that is  *)
(* split in halves; blocks are never merged, the reset makes one of them. *)
(*                                                                         *)
(* A buffer is the record [capacity, free, lists].  Memory is counted in   *)
(* commands: a block of class k holds 2^k of them.  The free list of a     *)
(* class is the sequence of the blocks that its links run through, the     *)
(* first at the head; a list's block holds its commands, that is the       *)
(* entities they name, in order.                                           *)
(***************************************************************************)
EXTENDS Sequences, ComponentMask

LOCAL INSTANCE FiniteSetsExt
LOCAL INSTANCE SequencesExt

CONSTANTS
  LinearLimit,  \* lists up to this length are searched from the front
  MaxClasses    \* size classes of the memory, MAX_SIZE_CLASSES

ASSUME LinearLimitAssumption == LinearLimit \in Nat \ {0}
ASSUME MaxClassesAssumption == MaxClasses \in Nat \ {0}

Classes == 0 .. MaxClasses - 1

Streams == ({"add", "remove"} \X Components) \cup {<<"destroy", 0>>}

\* The list that owns no block: UINT32_MAX in commands and in capacity.
NoBlock == -1
EmptyList == [offset |-> NoBlock, class |-> -1, commands |-> <<>>]

\* All of the memory is one free block and every list is empty.
Cleared(capacity) ==
  [capacity |-> capacity,
   free |-> [k \in Classes |-> IF k = capacity THEN <<0>> ELSE <<>>],
   lists |-> [s \in Streams |-> EmptyList]]

CreateBuffer == Cleared(0)

Reset(buf) == Cleared(buf.capacity)

-----------------------------------------------------------------------------
(* Blocks. *)

\* Faulty variant: the upper part of the block is forgotten.
splitBlockDownForgetful(free, offset, to, from) ==
  free

\* The upper halves go to the lists of their classes, the lowest part is used.
splitBlockDown(free, offset, to, from) ==
  [k \in Classes |-> IF k \in to .. from - 1 THEN <<offset + 2^k>> \o free[k] ELSE free[k]]

\* Every doubling of the memory is a free block of the class it doubles.
addNewMemory(free, old, new) ==
  [k \in Classes |-> IF k \in old .. new - 1 THEN <<2^k>> \o free[k] ELSE free[k]]

\* The smallest free block that is large enough.
takeFree(buf, class) ==
  LET from == Min({k \in class .. MaxClasses - 1 : buf.free[k] # <<>>})
      offset == Head(buf.free[from])
  IN [offset |-> offset,
      buf |-> [buf EXCEPT !.free =
                 splitBlockDown([@ EXCEPT ![from] = Tail(@)], offset, class, from)]]

grown(buf, class) ==
  LET capacity == Max({buf.capacity + 1, class + 1})
  IN [buf EXCEPT !.capacity = capacity, !.free = addNewMemory(@, buf.capacity, capacity)]

allocateCommandBlock(buf, class) ==
  IF \E k \in class .. MaxClasses - 1 : buf.free[k] # <<>>
  THEN takeFree(buf, class)
  ELSE takeFree(grown(buf, class), class)

freeCommandBlock(buf, offset, class) == [buf EXCEPT !.free[class] = <<offset>> \o @]

-----------------------------------------------------------------------------
(* Sorted lists. *)

\* Where the search ends when it reads beyond the list.
OutOfList == -1

\* last is unsigned: below the first command it wraps, and the middle between
\* the two ends lies far outside of the list.
binarySearch(base, e) ==
  LET search[range \in (0 .. Len(base)) \X (-1 .. Len(base) - 1)] ==
        LET first == range[1]
            last == range[2]
            mid == (first + last) \div 2
        IN CASE last = -1 -> OutOfList
             [] last >= 0 /\ first > last -> first
             [] OTHER -> IF base[mid + 1] <= e THEN search[<<mid + 1, last>>]
                         ELSE search[<<first, mid - 1>>]
  IN search[<<0, Len(base) - 1>>]

\* Short lists are searched for the first command that is not below e, long
\* ones for the end of those that are not above it.
findInsertIndex(base, e) ==
  IF Len(base) <= LinearLimit
  THEN Cardinality({i \in DOMAIN base : base[i] < e})
  ELSE binarySearch(base, e)

isFull(list) == list.class = -1 \/ Len(list.commands) >= 2^list.class

\* The list moves to a block of the next class; its first block is of class 0.
growList(buf, s) ==
  LET list == buf.lists[s]
      block == allocateCommandBlock(buf, list.class + 1)
      moved == [block.buf EXCEPT !.lists[s].offset = block.offset,
                                 !.lists[s].class = list.class + 1]
  IN IF list.offset = NoBlock THEN moved
     ELSE freeCommandBlock(moved, list.offset, list.class)

insertIndex(buf, s, e) == findInsertIndex(buf.lists[s].commands, e)

pushCommand(buf, s, e) ==
  LET room == IF isFull(buf.lists[s]) THEN growList(buf, s) ELSE buf
  IN [room EXCEPT !.lists[s].commands = InsertAt(@, insertIndex(buf, s, e) + 1, e)]

-----------------------------------------------------------------------------
(* What a buffer promises. *)

extent(offset, class) == offset .. offset + 2^class - 1

\* The blocks in use and the free blocks, each as <<offset, class>>.
usedBlocks(buf) ==
  {<<buf.lists[s].offset, buf.lists[s].class>> :
     s \in {t \in Streams : buf.lists[t].offset # NoBlock}}
freeBlocks(buf) ==
  UNION {{<<buf.free[k][i], k>> : i \in DOMAIN buf.free[k]} : k \in Classes}

\* No two blocks overlap, no two lists share one, none is free and in use or
\* free twice, and together they are the whole memory.
BlocksTile(buf) ==
  LET used == {s \in Streams : buf.lists[s].offset # NoBlock}
      blocks == usedBlocks(buf) \cup freeBlocks(buf)
  IN /\ Cardinality(usedBlocks(buf)) = Cardinality(used)
     /\ Cardinality(blocks) =
          Cardinality(used) + MapThenSumSet(LAMBDA k : Len(buf.free[k]), Classes)
     /\ \A b, c \in blocks : b # c => extent(b[1], b[2]) \cap extent(c[1], c[2]) = {}
     /\ UNION {extent(b[1], b[2]) : b \in blocks} = 0 .. 2^buf.capacity - 1

\* A list fits its block and is sorted, so that the streams can be merged.
ListsSorted(buf) ==
  \A s \in Streams :
    LET list == buf.lists[s]
    IN /\ list.offset # NoBlock => Len(list.commands) \in 1 .. 2^list.class
       /\ \A i, j \in DOMAIN list.commands : i < j => list.commands[i] <= list.commands[j]
=============================================================================
