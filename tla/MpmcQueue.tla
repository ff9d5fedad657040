----------------------------- MODULE MpmcQueue -----------------------------
(***************************************************************************)
(* The queue of the logger and of the io system (mpmcQueue.c).  It is the  *)
(* algorithm of JobQueueRing over elements of any size: a slot may be      *)
(* filled with ticket t when its sequence number is t, and emptied when it *)
(* is t + 1.  Loading a counter, testing the slot and the compare-and-swap *)
(* that succeeds are one step here: JobQueueRing has them one by one, and  *)
(* its AnswersHold says that the test still holds when the swap succeeds.  *)
(* What remains apart is the ticket, the copy and the new sequence number. *)
(***************************************************************************)
EXTENDS Integers

CONSTANTS
  QueueSize,  \* size, a power of two
  NoElement   \* what a slot holds in the beginning

\* A queue of one slot would not work: to be full and to be free for the next
\* lap would be the same sequence number.  mpmcInit asks for a power of two
\* only; the engine's queue has 4096 slots (engine.c:55).
ASSUME QueueSizeAssumption == QueueSize \in Nat /\ QueueSize >= 2

Empty ==
  [head |-> 0, tail |-> 0, seq |-> [i \in 0 .. QueueSize - 1 |-> i],
   data |-> [i \in 0 .. QueueSize - 1 |-> NoElement]]

slot(pos) == pos % QueueSize

\* Faulty variant: a slot is free if nobody else is filling it.
mayPushOver(q) ==
  q.seq[slot(q.tail)] = q.tail \/ q.seq[slot(q.tail)] < q.tail

mayPush(q) ==
  q.seq[slot(q.tail)] = q.tail

full(q) == q.seq[slot(q.tail)] < q.tail

reserve(q) == [q EXCEPT !.tail = @ + 1]

write(q, pos, element) == [q EXCEPT !.data[slot(pos)] = element]

publish(q, pos) == [q EXCEPT !.seq[slot(pos)] = pos + 1]

mayPop(q) == q.seq[slot(q.head)] = q.head + 1

empty(q) == q.seq[slot(q.head)] < q.head + 1

take(q) == [q EXCEPT !.head = @ + 1]

release(q, pos) == [q EXCEPT !.seq[slot(pos)] = pos + QueueSize]
=============================================================================
