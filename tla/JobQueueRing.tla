---------------------------- MODULE JobQueueRing ----------------------------
(***************************************************************************)
(* The global job queue ring of the job system (jobSystem/jobQueue.c): a   *)
(* bounded lock-free multi-producer multi-consumer ring.  Every slot has a *)
(* sequence number; a producer may use slot (t % Size) for ticket t when   *)
(* the sequence is t, a consumer when it is t + 1, and a consumer that is  *)
(* done stores t + Size.  One action is one shared-memory access.          *)
(*                                                                         *)
(* The program's counters are uint32.  The variables head, tail, pos and   *)
(* seq hold the values they would have without wrapping, and every test    *)
(* the code makes on them is made modulo Word, with Diff for the signed    *)
(* difference: this is the wrapped machine with its lap numbers kept as    *)
(* history.  Memory is sequentially consistent.                            *)
(***************************************************************************)
EXTENDS Integers

CONSTANTS
  Threads,   \* the threads that submit or pull batches
  Jobs,      \* the batch ids
  NoJob,     \* JOB_BATCH_NONE
  Size,      \* ring size, GLOBAL_QUEUE_RING_SIZE in the program
  Word,      \* the modulus of the counters, 2^32 in the program
  Start,     \* head and tail of the quiescent ring a behaviour starts from
  MaxOps     \* bound: pushes begun in a behaviour

ASSUME SizeAssumption == Size \in Nat /\ Size >= 2
ASSUME SizeDividesWord == Word % Size = 0   \* both are powers of two
ASSUME WordAssumption == Word \in Nat /\ Word > 0 /\ Word % 2 = 0
ASSUME StartAssumption == Start \in Nat /\ Start % Size = 0
ASSUME MaxOpsAssumption == MaxOps \in Nat /\ 2 * (MaxOps + Size) < Word
ASSUME NoJobAssumption == NoJob \notin Jobs

VARIABLES
  head,   \* next ticket a consumer takes
  tail,   \* next ticket a producer takes
  seq,    \* sequence number of every slot
  data,   \* contents of every slot
  pc,     \* where each thread is in Push or Pull
  pos,    \* the local variable pos of each thread
  job,    \* the job a thread pushes, or the one it has read
  begun   \* number of pushes begun (bounds the model)

vars == <<head, tail, seq, data, pc, pos, job, begun>>

Slots == 0 .. Size - 1
Slot(p) == p % Size

\* (int32)a - (int32)b as the build computes it: 32-bit two's complement.
Diff(a, b) ==
  LET d == (a - b) % Word IN IF 2 * d < Word THEN d ELSE d - Word

\* The comparison of a compare-and-swap on a 32-bit counter.
SameWord(a, b) == (a - b) % Word = 0

PushPoints == {"pushTail", "pushSlot", "pushReserve", "pushWrite", "pushPublish"}
PullPoints == {"pullHead", "pullSlot", "pullReserve", "pullRead", "pullRelease"}

\* jobQueueRingInit, Start tickets later: every slot is free for the ticket
\* that comes next for it.
Init ==
  /\ head = Start
  /\ tail = Start
  /\ seq = [s \in Slots |-> Start + s]
  /\ data = [s \in Slots |-> NoJob]
  /\ pc = [t \in Threads |-> "idle"]
  /\ pos = [t \in Threads |-> Start]
  /\ job = [t \in Threads |-> NoJob]
  /\ begun = 0

Goto(t, point) == pc' = [pc EXCEPT ![t] = point]

----------------------------------------------------------------------------
(* jobQueueRingPush *)

\* A caller enters jobQueueRingPush with job j.
BeginPush(t, j) ==
  /\ pc[t] = "idle"
  /\ begun < MaxOps
  /\ begun' = begun + 1
  /\ job' = [job EXCEPT ![t] = j]
  /\ Goto(t, "pushTail")
  /\ UNCHANGED <<head, tail, seq, data, pos>>

PushLoadTail(t) ==
  /\ pc[t] = "pushTail"
  /\ pos' = [pos EXCEPT ![t] = tail]
  /\ Goto(t, "pushSlot")
  /\ UNCHANGED <<head, tail, seq, data, job, begun>>

PushSlotFree(t) ==
  /\ pc[t] = "pushSlot"
  /\ Diff(seq[Slot(pos[t])], pos[t]) = 0
  /\ Goto(t, "pushReserve")
  /\ UNCHANGED <<head, tail, seq, data, pos, job, begun>>

\* The slot still belongs to the lap before: the push returns false.
PushFull(t) ==
  /\ pc[t] = "pushSlot"
  /\ Diff(seq[Slot(pos[t])], pos[t]) < 0
  /\ job' = [job EXCEPT ![t] = NoJob]
  /\ Goto(t, "idle")
  /\ UNCHANGED <<head, tail, seq, data, pos, begun>>

PushStale(t) ==
  /\ pc[t] = "pushSlot"
  /\ Diff(seq[Slot(pos[t])], pos[t]) > 0
  /\ Goto(t, "pushTail")
  /\ UNCHANGED <<head, tail, seq, data, pos, job, begun>>

\* Faulty variant: a store of pos + 1 instead of a compare-and-swap.
PushReserveByStore(t) ==
  /\ pc[t] = "pushReserve"
  /\ tail' = pos[t] + 1
  /\ Goto(t, "pushWrite")
  /\ UNCHANGED <<head, seq, data, pos, job, begun>>

\* The bound on tickets follows from the bound on begun pushes and never blocks.
PushReserve(t) ==
  /\ pc[t] = "pushReserve"
  /\ SameWord(tail, pos[t])
  /\ tail < Start + MaxOps
  /\ tail' = tail + 1
  /\ Goto(t, "pushWrite")
  /\ UNCHANGED <<head, seq, data, pos, job, begun>>

\* The weak compare-and-swap may also fail for no reason.
PushReserveFails(t) ==
  /\ pc[t] = "pushReserve"
  /\ Goto(t, "pushTail")
  /\ UNCHANGED <<head, tail, seq, data, pos, job, begun>>

PushWrite(t) ==
  /\ pc[t] = "pushWrite"
  /\ data' = [data EXCEPT ![Slot(pos[t])] = job[t]]
  /\ Goto(t, "pushPublish")
  /\ UNCHANGED <<head, tail, seq, pos, job, begun>>

PushPublish(t) ==
  /\ pc[t] = "pushPublish"
  /\ seq' = [seq EXCEPT ![Slot(pos[t])] = pos[t] + 1]
  /\ job' = [job EXCEPT ![t] = NoJob]
  /\ Goto(t, "idle")
  /\ UNCHANGED <<head, tail, data, pos, begun>>

----------------------------------------------------------------------------
(* jobQueueRingPull *)

BeginPull(t) ==
  /\ pc[t] = "idle"
  /\ Goto(t, "pullHead")
  /\ UNCHANGED <<head, tail, seq, data, pos, job, begun>>

PullLoadHead(t) ==
  /\ pc[t] = "pullHead"
  /\ pos' = [pos EXCEPT ![t] = head]
  /\ Goto(t, "pullSlot")
  /\ UNCHANGED <<head, tail, seq, data, job, begun>>

PullSlotReady(t) ==
  /\ pc[t] = "pullSlot"
  /\ Diff(seq[Slot(pos[t])], pos[t] + 1) = 0
  /\ Goto(t, "pullReserve")
  /\ UNCHANGED <<head, tail, seq, data, pos, job, begun>>

\* Nothing is published for this ticket: the pull returns JOB_BATCH_NONE.
PullEmpty(t) ==
  /\ pc[t] = "pullSlot"
  /\ Diff(seq[Slot(pos[t])], pos[t] + 1) < 0
  /\ Goto(t, "idle")
  /\ UNCHANGED <<head, tail, seq, data, pos, job, begun>>

PullStale(t) ==
  /\ pc[t] = "pullSlot"
  /\ Diff(seq[Slot(pos[t])], pos[t] + 1) > 0
  /\ Goto(t, "pullHead")
  /\ UNCHANGED <<head, tail, seq, data, pos, job, begun>>

\* Faulty variant: the slot is released before its job is read.
PullReserveReleases(t) ==
  /\ pc[t] = "pullReserve"
  /\ SameWord(head, pos[t])
  /\ head' = head + 1
  /\ seq' = [seq EXCEPT ![Slot(pos[t])] = pos[t] + Size]
  /\ Goto(t, "pullRead")
  /\ UNCHANGED <<tail, data, pos, job, begun>>

PullReserve(t) ==
  /\ pc[t] = "pullReserve"
  /\ SameWord(head, pos[t])
  /\ head' = head + 1
  /\ Goto(t, "pullRead")
  /\ UNCHANGED <<tail, seq, data, pos, job, begun>>

PullReserveFails(t) ==
  /\ pc[t] = "pullReserve"
  /\ Goto(t, "pullHead")
  /\ UNCHANGED <<head, tail, seq, data, pos, job, begun>>

PullRead(t) ==
  /\ pc[t] = "pullRead"
  /\ job' = [job EXCEPT ![t] = data[Slot(pos[t])]]
  /\ Goto(t, "pullRelease")
  /\ UNCHANGED <<head, tail, seq, data, pos, begun>>

\* pos + mask + 1, then the job is returned.
PullRelease(t) ==
  /\ pc[t] = "pullRelease"
  /\ seq' = [seq EXCEPT ![Slot(pos[t])] = pos[t] + Size]
  /\ job' = [job EXCEPT ![t] = NoJob]
  /\ Goto(t, "idle")
  /\ UNCHANGED <<head, tail, data, pos, begun>>

----------------------------------------------------------------------------

Push(t) ==
  \/ PushLoadTail(t) \/ PushSlotFree(t) \/ PushFull(t) \/ PushStale(t)
  \/ PushReserve(t) \/ PushReserveFails(t) \/ PushWrite(t) \/ PushPublish(t)

Pull(t) ==
  \/ PullLoadHead(t) \/ PullSlotReady(t) \/ PullEmpty(t) \/ PullStale(t)
  \/ PullReserve(t) \/ PullReserveFails(t) \/ PullRead(t) \/ PullRelease(t)

Begin(t) == (\E j \in Jobs : BeginPush(t, j)) \/ BeginPull(t)

Next == \E t \in Threads : Begin(t) \/ Push(t) \/ Pull(t)

Spec == Init /\ [][Next]_vars

----------------------------------------------------------------------------
(* Properties *)

Writing(t) == pc[t] \in {"pushWrite", "pushPublish"}
Reading(t) == pc[t] \in {"pullRead", "pullRelease"}

\* Types of the state.  The last two lines are the contract with the callers:
\* only real jobs are pushed, and a pull that got a ticket returns a real job,
\* never JOB_BATCH_NONE (which its caller takes for an empty queue).
TypeOK ==
  /\ head \in Nat /\ tail \in Nat
  /\ seq \in [Slots -> Nat]
  /\ data \in [Slots -> Jobs \cup {NoJob}]
  /\ pc \in [Threads -> {"idle"} \cup PushPoints \cup PullPoints]
  /\ pos \in [Threads -> Nat]
  /\ job \in [Threads -> Jobs \cup {NoJob}]
  /\ begun \in 0 .. MaxOps
  /\ \A t \in Threads : pc[t] \in PushPoints => job[t] \in Jobs
  /\ \A t \in Threads : pc[t] = "pullRelease" => job[t] \in Jobs

\* No two threads ever work on the contents of one slot: the plain accesses
\* slot->data = job and job = slot->data never race.
SlotExclusive ==
  \A t, u \in Threads :
    (t # u /\ (Writing(t) \/ Reading(t)) /\ (Writing(u) \/ Reading(u)))
      => Slot(pos[t]) # Slot(pos[u])

\* Consumers never overtake producers, and producers never lap consumers: at
\* most Size tickets are out, so a push never overwrites an unread job.
TicketsInWindow == head <= tail /\ tail <= head + Size

----------------------------------------------------------------------------
(* The inductive invariant behind SlotExclusive and TicketsInWindow *)

\* No test on the counters is confused by the wrap: all stay in one window.
CountersInWindow ==
  /\ Start <= head
  /\ TicketsInWindow
  /\ tail <= Start + MaxOps
  /\ \A t \in Threads :
       /\ Start <= pos[t] /\ pos[t] <= tail
       /\ pc[t] \in PullPoints \ {"pullHead"} => pos[t] <= head
  /\ \A s \in Slots : Start <= seq[s] /\ seq[s] <= tail + Size

\* Slot(q), for a ticket q that is next for its slot, is free for q, holds the
\* job of the lap before, or is being written for the lap before.
SlotStates ==
  \A q \in tail .. tail + Size - 1 :
    \/ seq[Slot(q)] = q /\ q < head + Size
    \/ seq[Slot(q)] = q - Size + 1 /\ q >= Start + Size
    \/ seq[Slot(q)] = q - Size /\ q >= head + Size

\* A ticket has one owner, and its slot shows what the owner is about to do.
TicketOwners ==
  /\ \A t \in Threads : Writing(t) =>
       /\ head <= pos[t] /\ pos[t] < tail
       /\ seq[Slot(pos[t])] = pos[t]
  /\ \A t \in Threads : Reading(t) =>
       /\ pos[t] < head /\ tail <= pos[t] + Size
       /\ seq[Slot(pos[t])] = pos[t] + 1
  /\ \A t, u \in Threads :
       (t # u /\ ((Writing(t) /\ Writing(u)) \/ (Reading(t) /\ Reading(u))))
         => pos[t] # pos[u]

\* The answer a thread got from the slot still holds when its
\* compare-and-swap succeeds.
AnswersHold ==
  \A t \in Threads :
    /\ (pc[t] = "pushReserve" /\ tail = pos[t]) => seq[Slot(pos[t])] = pos[t]
    /\ (pc[t] = "pullReserve" /\ head = pos[t]) => seq[Slot(pos[t])] = pos[t] + 1

\* Published slots hold real jobs.
PublishedJobs ==
  /\ \A p \in head .. tail - 1 : seq[Slot(p)] = p + 1 => data[Slot(p)] \in Jobs
  /\ \A t \in Threads : pc[t] = "pushPublish" => data[Slot(pos[t])] = job[t]
  /\ \A t \in Threads : pc[t] = "pullRead" => data[Slot(pos[t])] \in Jobs

\* A ticket that waits to be published has its producer, and a slot that waits
\* to be released has its consumer: what a refusal rests on.
TicketsServed ==
  /\ \A p \in head .. tail - 1 : seq[Slot(p)] = p =>
       \E t \in Threads : Writing(t) /\ pos[t] = p
  /\ \A p \in tail - Size .. head - 1 : seq[Slot(p)] = p + 1 =>
       \E t \in Threads : Reading(t) /\ pos[t] = p

\* A thread that neither pushes nor returns a job holds none.
HandsEmpty ==
  \A t \in Threads :
    pc[t] \in {"idle"} \cup (PullPoints \ {"pullRelease"}) => job[t] = NoJob

RingInv ==
  /\ TypeOK
  /\ CountersInWindow
  /\ SlotStates
  /\ TicketOwners
  /\ AnswersHold
  /\ PublishedJobs
  /\ TicketsServed
  /\ HandsEmpty

----------------------------------------------------------------------------
(* Refinement: the ring is a FIFO queue *)

\* The job of a ticket that is reserved and not yet taken.
TicketJob(p) ==
  IF seq[Slot(p)] = p + 1
  THEN data[Slot(p)]
  ELSE job[CHOOSE t \in Threads : Writing(t) /\ pos[t] = p]

Phase(t) ==
  IF pc[t] \in {"pushTail", "pushSlot", "pushReserve"} THEN "pushing"
  ELSE IF Writing(t) THEN "pushed"
  ELSE IF pc[t] \in {"pullHead", "pullSlot", "pullReserve"} THEN "pulling"
  ELSE IF Reading(t) THEN "pulled"
  ELSE "idle"

HeldJob(t) == IF pc[t] = "pullRead" THEN data[Slot(pos[t])] ELSE job[t]

Queue == INSTANCE BoundedQueue WITH
  items <- [i \in 1 .. (tail - head) |-> TicketJob(head + i - 1)],
  phase <- [t \in Threads |-> Phase(t)],
  held  <- [t \in Threads |-> HeldJob(t)]

\* Push and Pull are operations of a FIFO queue of capacity Size: jobs come
\* out in ticket order, each once, and a refusal is truthful.
ImplementsQueue == Queue!Spec
============================================================================
