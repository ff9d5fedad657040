--------------------------- MODULE JobInstancePool ---------------------------
(***************************************************************************)
(* The pool of job instances (jobs.c): a lock-free stack of free slots.    *)
(* A slot is a union: while it is free it holds the link to the next free  *)
(* slot, while it is in use the job's instance.  The head carries a tag    *)
(* that every successful compare-and-swap increments, so that a thread     *)
(* whose compare-and-swap succeeds knows that the link it read was that of *)
(* the head.  One action is one shared-memory access.                      *)
(*                                                                         *)
(* Job ids travel through the queues of the scheduler between allocateJob  *)
(* and freeJob.  Here they are in the function `holds`, from which any     *)
(* thread may take one to free it.                                         *)
(***************************************************************************)
EXTENDS Integers, FiniteSets

CONSTANTS
  Callers,   \* the threads that split batches and end jobs
  PoolSize,  \* JOB_INSTANCE_POOL_SIZE
  Batches,   \* the batches that jobs belong to
  NoBatch,   \* no batch: the job is not in the scheduler's hands
  NoJob,     \* JOB_NONE
  MaxTag     \* bound: successful compare-and-swaps on the head in a behaviour,
             \* fewer than the 2^32 after which the program's tag is back

PoolSlots == 0 .. PoolSize - 1
Links == PoolSlots \cup {NoJob}

ASSUME PoolSizeAssumption == PoolSize \in Nat /\ PoolSize > 0
ASSUME NoJobAssumption == NoJob \notin PoolSlots
ASSUME BatchesAssumption == NoBatch \notin Batches /\ Batches \cap Links = {}
ASSUME MaxTagAssumption == MaxTag \in Nat

VARIABLES
  head,     \* index and tag of the list's head
  content,  \* what each slot holds: a link, or an instance (its batch)
  point, oldHead, next, jobId, batch,   \* where the threads are, and their locals
  holds,    \* the batch of every job that is in the scheduler's hands
  height    \* history: place of a slot in the list, from its end; 0 outside

poolVars == <<head, content, point, oldHead, next, jobId, batch, holds, height>>

Height(i) == IF i = NoJob THEN 0 ELSE height[i]

\* jobInstancePoolInit
PoolInit ==
  /\ head = [index |-> 0, tag |-> 0]
  /\ content = [s \in PoolSlots |-> IF s = PoolSize - 1 THEN NoJob ELSE s + 1]
  /\ point = [t \in Callers |-> "idle"]
  /\ oldHead = [t \in Callers |-> [index |-> NoJob, tag |-> 0]]
  /\ next = [t \in Callers |-> NoJob]
  /\ jobId = [t \in Callers |-> NoJob]
  /\ batch = [t \in Callers |-> NoBatch]
  /\ holds = [s \in PoolSlots |-> NoBatch]
  /\ height = [s \in PoolSlots |-> PoolSize - s]

Reach(t, p) == point' = [point EXCEPT ![t] = p]

\* A call returns: its local variables are gone.
Return(t) ==
  /\ oldHead' = [oldHead EXCEPT ![t] = [index |-> NoJob, tag |-> 0]]
  /\ next' = [next EXCEPT ![t] = NoJob]
  /\ jobId' = [jobId EXCEPT ![t] = NoJob]
  /\ batch' = [batch EXCEPT ![t] = NoBatch]
  /\ Reach(t, "idle")

\* The compare-and-swap of a thread succeeds: the head becomes i.
SwapHead(t, i) ==
  /\ head = oldHead[t]
  /\ head.tag < MaxTag
  /\ head' = [index |-> i, tag |-> head.tag + 1]

----------------------------------------------------------------------------
(* allocateJob *)

\* The pool is larger than what the local queues and the workers can hold, so
\* there is a slot for every call.
InUse == {s \in PoolSlots : holds[s] # NoBatch}
Busy == {t \in Callers : point[t] # "idle"}
RoomForOneMore == Cardinality(InUse) + Cardinality(Busy) < PoolSize

\* splitJobBatch asks for a job of batch b.
BeginAllocate(t, b) ==
  /\ point[t] = "idle"
  /\ RoomForOneMore
  /\ batch' = [batch EXCEPT ![t] = b]
  /\ Reach(t, "allocLoad")
  /\ UNCHANGED <<head, content, oldHead, next, jobId, holds, height>>

\* The end of the list is recognised by comparing the whole head, tag included,
\* with JOB_NONE.  After the first swap it never is: the code goes on with that
\* index, beyond the pool.
AllocateLoadHead(t) ==
  /\ point[t] = "allocLoad"
  /\ oldHead' = [oldHead EXCEPT ![t] = head]
  /\ Reach(t, IF head.index # NoJob THEN "allocLink" ELSE "beyondPool")
  /\ UNCHANGED <<head, content, next, jobId, batch, holds, height>>

\* The slot may be in use again by now; then what is read as a link is part of
\* an instance, and can be anything.
AllocateReadLink(t) ==
  /\ point[t] = "allocLink"
  /\ LET c == content[oldHead[t].index] IN
     \E n \in IF c \in Links THEN {c} ELSE Links :
       next' = [next EXCEPT ![t] = n]
  /\ Reach(t, "allocSwap")
  /\ UNCHANGED <<head, content, oldHead, jobId, batch, holds, height>>

\* Faulty variant: the indices alone are compared, as ioRequests.c does.
AllocateSwapUntagged(t) ==
  /\ point[t] = "allocSwap"
  /\ head.index = oldHead[t].index
  /\ head.tag < MaxTag
  /\ head' = [index |-> next[t], tag |-> head.tag + 1]
  /\ jobId' = [jobId EXCEPT ![t] = oldHead[t].index]
  /\ height' = [height EXCEPT ![oldHead[t].index] = 0]
  /\ Reach(t, "allocFill")
  /\ UNCHANGED <<content, oldHead, next, batch, holds>>

AllocateSwap(t) ==
  /\ point[t] = "allocSwap"
  /\ SwapHead(t, next[t])
  /\ jobId' = [jobId EXCEPT ![t] = oldHead[t].index]
  /\ height' = [height EXCEPT ![oldHead[t].index] = 0]
  /\ Reach(t, "allocFill")
  /\ UNCHANGED <<content, oldHead, next, batch, holds>>

\* The head has changed, or the weak compare-and-swap fails for no reason.
AllocateSwapFails(t) ==
  /\ point[t] = "allocSwap"
  /\ next' = [next EXCEPT ![t] = NoJob]
  /\ Reach(t, "allocLoad")
  /\ UNCHANGED <<head, content, oldHead, jobId, batch, holds, height>>

\* The instance is written into the slot and the job handed to the caller.
AllocateFill(t) ==
  /\ point[t] = "allocFill"
  /\ content' = [content EXCEPT ![jobId[t]] = batch[t]]
  /\ holds' = [holds EXCEPT ![jobId[t]] = batch[t]]
  /\ Return(t)
  /\ UNCHANGED <<head, height>>

----------------------------------------------------------------------------
(* freeJob *)

\* Faulty variant: a job that only yields, and will be queued again, is freed.
BeginFreeYielded(t, s) ==
  /\ point[t] = "idle"
  /\ holds[s] # NoBatch
  /\ batch' = [batch EXCEPT ![t] = content[s]]
  /\ jobId' = [jobId EXCEPT ![t] = s]
  /\ Reach(t, "freeLoad")
  /\ UNCHANGED <<head, content, oldHead, next, holds, height>>

\* A job has ended: its batch is read before the slot is overwritten.
BeginFree(t, s) ==
  /\ point[t] = "idle"
  /\ holds[s] # NoBatch
  /\ holds' = [holds EXCEPT ![s] = NoBatch]
  /\ batch' = [batch EXCEPT ![t] = content[s]]
  /\ jobId' = [jobId EXCEPT ![t] = s]
  /\ Reach(t, "freeLoad")
  /\ UNCHANGED <<head, content, oldHead, next, height>>

FreeLoadHead(t) ==
  /\ point[t] = "freeLoad"
  /\ oldHead' = [oldHead EXCEPT ![t] = head]
  /\ Reach(t, "freeLink")
  /\ UNCHANGED <<head, content, next, jobId, batch, holds, height>>

FreeWriteLink(t) ==
  /\ point[t] = "freeLink"
  /\ content' = [content EXCEPT ![jobId[t]] = oldHead[t].index]
  /\ Reach(t, "freeSwap")
  /\ UNCHANGED <<head, oldHead, next, jobId, batch, holds, height>>

\* The slot is free again, and the batch is told (signalJobComplete).
FreeSwap(t) ==
  /\ point[t] = "freeSwap"
  /\ SwapHead(t, jobId[t])
  /\ height' = [height EXCEPT ![jobId[t]] = Height(head.index) + 1]
  /\ Return(t)
  /\ UNCHANGED <<content, holds>>

FreeSwapFails(t) ==
  /\ point[t] = "freeSwap"
  /\ Reach(t, "freeLoad")
  /\ UNCHANGED <<head, content, oldHead, next, jobId, batch, holds, height>>

----------------------------------------------------------------------------

Allocate(t) ==
  \/ AllocateLoadHead(t) \/ AllocateReadLink(t) \/ AllocateSwap(t)
  \/ AllocateSwapFails(t) \/ AllocateFill(t)

Free(t) ==
  \/ FreeLoadHead(t) \/ FreeWriteLink(t) \/ FreeSwap(t) \/ FreeSwapFails(t)

PoolNext == \E t \in Callers :
  \/ \E b \in Batches : BeginAllocate(t, b)
  \/ \E s \in PoolSlots : BeginFree(t, s)
  \/ Allocate(t) \/ Free(t)

PoolSpec == PoolInit /\ [][PoolNext]_poolVars

----------------------------------------------------------------------------
(* Properties *)

AllocatePoints == {"allocLoad", "allocLink", "allocSwap", "allocFill"}
FreePoints == {"freeLoad", "freeLink", "freeSwap"}
Heads == [index : Links, tag : 0 .. MaxTag]

TypeOK ==
  /\ head \in Heads
  /\ content \in [PoolSlots -> Links \cup Batches]
  /\ point \in [Callers -> {"idle", "beyondPool"} \cup AllocatePoints \cup FreePoints]
  /\ oldHead \in [Callers -> Heads]
  /\ next \in [Callers -> Links]
  /\ jobId \in [Callers -> Links]
  /\ batch \in [Callers -> Batches \cup {NoBatch}]
  /\ holds \in [PoolSlots -> Batches \cup {NoBatch}]
  /\ height \in [PoolSlots -> Nat]

\* What a thread has taken out of the list or is about to put back.
Owns(t) == point[t] \in {"allocFill"} \cup FreePoints

\* A slot is in one place: in the list, with one thread, or in the scheduler's
\* hands.  No job id is handed out twice and none is lost.
OneOwner ==
  /\ \A s \in PoolSlots : height[s] > 0 => holds[s] = NoBatch
  /\ \A t \in Callers : Owns(t) =>
       jobId[t] \in PoolSlots /\ height[jobId[t]] = 0 /\ holds[jobId[t]] = NoBatch
  /\ \A t, u \in Callers : (t # u /\ Owns(t) /\ Owns(u)) => jobId[t] # jobId[u]
  /\ \A s \in PoolSlots : (height[s] = 0 /\ holds[s] = NoBatch) =>
       \E t \in Callers : Owns(t) /\ jobId[t] = s

\* Nobody writes into the instance of a job that is in the scheduler's hands:
\* it keeps the batch it was allocated for, and that batch is told of its end.
InstancesIntact ==
  \A s \in PoolSlots : holds[s] # NoBatch => content[s] = holds[s]

\* The links make one list, from the head, of the slots with a height.
ListShape ==
  /\ head.index # NoJob => height[head.index] > 0
  /\ \A s \in PoolSlots : height[s] > 0 =>
       /\ height[s] <= Height(head.index)
       /\ content[s] \in Links
       /\ content[s] # NoJob => height[content[s]] > 0
       /\ Height(content[s]) = height[s] - 1
  /\ \A r, s \in PoolSlots : (height[r] > 0 /\ height[r] = height[s]) => r = s

\* What a thread has read still holds when its compare-and-swap succeeds.
AnswersHold ==
  \A t \in Callers :
    /\ oldHead[t].tag <= head.tag
    /\ (point[t] \in {"allocLink", "allocSwap"}) => oldHead[t].index \in PoolSlots
    /\ (point[t] = "allocSwap" /\ oldHead[t] = head) => next[t] = content[head.index]
    /\ point[t] = "freeSwap" => content[jobId[t]] = oldHead[t].index
    /\ point[t] \in AllocatePoints => batch[t] \in Batches

PoolInv == TypeOK /\ OneOwner /\ InstancesIntact /\ ListShape /\ AnswersHold
============================================================================
