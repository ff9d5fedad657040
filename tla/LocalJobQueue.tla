---------------------------- MODULE LocalJobQueue ----------------------------
(***************************************************************************)
(* A worker's local job queue (jobSystem/jobQueue.c, LocalJobQueueRing): a *)
(* work-stealing deque in a ring.  The owner pushes and pulls at bottom,   *)
(* other threads steal at top.  One action is one shared-memory access;    *)
(* accesses to cells only the owner can reach are merged.                  *)
(*                                                                         *)
(* As in JobQueueRing the counters are kept without wrapping and every     *)
(* test on them is made modulo Word; memory is sequentially consistent,    *)
(* which the fence in localJobQueueRingPull provides where it matters.     *)
(***************************************************************************)
EXTENDS Integers, Sequences

CONSTANTS
  Owner,       \* the worker the queue belongs to
  Thieves,     \* the other workers and the main thread
  NoJob,       \* JOB_NONE
  Size,        \* LOCAL_QUEUE_RING_SIZE
  Word,        \* the modulus of the counters, 2^32 in the program
  Start,       \* top and bottom of the empty queue a behaviour starts from
  MaxJobs      \* bound: jobs pushed in a behaviour

ASSUME DequeAssumption ==
  /\ Size \in Nat /\ Size > 0
  /\ Start \in Nat
  /\ MaxJobs \in Nat
  /\ Word \in Nat /\ 2 * (MaxJobs + Size + 1) < Word /\ Word % Size = 0
  /\ Owner \notin Thieves
  /\ NoJob \notin 1 .. MaxJobs

VARIABLES
  top,      \* next cell to steal from
  bottom,   \* next cell to push to
  data,     \* the cells
  pc,       \* where each thread is
  seen,     \* the value of top each thread loaded
  batch,    \* number of jobs the owner is pushing
  job,      \* the job a thief has read, and means to steal
  got,      \* what the last Pull or Steal of each thread returned
  pushed,   \* history: number of jobs pushed; jobs are numbered from 1
  taken     \* history: how often each job was handed out

vars == <<top, bottom, data, pc, seen, batch, job, got, pushed, taken>>

Threads == Thieves \cup {Owner}
Cells == 0 .. Size - 1
Cell(p) == p % Size

\* (int32)(a - b)
Diff(a, b) ==
  LET d == (a - b) % Word IN IF 2 * d < Word THEN d ELSE d - Word

\* (uint32)(a - b)
Distance(a, b) == (a - b) % Word

SameWord(a, b) == (a - b) % Word = 0

Goto(t, point) == pc' = [pc EXCEPT ![t] = point]

\* localJobQueueRingInit
Init ==
  /\ top = Start
  /\ bottom = Start
  /\ data = [c \in Cells |-> NoJob]
  /\ pc = [t \in Threads |-> "idle"]
  /\ seen = [t \in Threads |-> Start]
  /\ batch = 0
  /\ job = [t \in Thieves |-> NoJob]
  /\ got = [t \in Threads |-> NoJob]
  /\ pushed = 0
  /\ taken = [j \in 1 .. MaxJobs |-> 0]

\* t returns job j to its caller.
HandOut(t, j) ==
  /\ got' = [got EXCEPT ![t] = j]
  /\ taken' = IF j = NoJob THEN taken ELSE [taken EXCEPT ![j] = @ + 1]

----------------------------------------------------------------------------
(* localJobQueueRingPush and localJobQueueRingPushBatch *)

Min(a, b) == IF a <= b THEN a ELSE b

\* Faulty variant: the room is computed for one job less, and may be filled up.
RoomForBatchOffByOne(n) == Distance(bottom, top) <= Size - Min(n, Size) + 1

\* The test on the free room: one job, or a batch of n.
RoomForOne == Distance(bottom, top) < Size
RoomForBatch(n) == Distance(bottom, top) < Size - Min(n, Size)

\* Loads top; without room the push returns false and changes nothing.
PushLoadTop(n) ==
  /\ pc[Owner] = "idle"
  /\ pushed + n <= MaxJobs
  /\ \/ n = 1 /\ RoomForOne
     \/ RoomForBatch(n)
  /\ batch' = n
  /\ Goto(Owner, "pushWrite")
  /\ UNCHANGED <<top, bottom, data, seen, job, got, pushed, taken>>

PushWrite ==
  /\ pc[Owner] = "pushWrite"
  /\ data' = [c \in Cells |->
       LET written == {i \in 0 .. batch - 1 : Cell(bottom + i) = c} IN
       IF written = {} THEN data[c]
       ELSE pushed + 1 + (CHOOSE i \in written : \A k \in written : i >= k)]
  /\ Goto(Owner, "pushPublish")
  /\ UNCHANGED <<top, bottom, seen, batch, job, got, pushed, taken>>

PushPublish ==
  /\ pc[Owner] = "pushPublish"
  /\ bottom' = bottom + batch
  /\ pushed' = pushed + batch
  /\ batch' = 0
  /\ Goto(Owner, "idle")
  /\ UNCHANGED <<top, data, seen, job, got, taken>>

----------------------------------------------------------------------------
(* localJobQueueRingPull *)

PullClaim ==
  /\ pc[Owner] = "idle"
  /\ bottom' = bottom - 1
  /\ Goto(Owner, "pullTop")
  /\ UNCHANGED <<top, data, seen, batch, job, got, pushed, taken>>

\* The queue is empty: the answer is JOB_NONE, ...
PullFindsNothing ==
  /\ pc[Owner] = "pullTop"
  /\ Diff(bottom, top) < 0
  /\ seen' = [seen EXCEPT ![Owner] = top]
  /\ HandOut(Owner, NoJob)
  /\ Goto(Owner, "pullEmpty")
  /\ UNCHANGED <<top, bottom, data, batch, job, pushed>>

\* ... once bottom has the value of top.
PullEmpty ==
  /\ pc[Owner] = "pullEmpty"
  /\ bottom' = seen[Owner]
  /\ Goto(Owner, "idle")
  /\ UNCHANGED <<top, data, seen, batch, job, got, pushed, taken>>

\* More than one job: the one at bottom belongs to the owner.
PullSome ==
  /\ pc[Owner] = "pullTop"
  /\ Diff(bottom, top) > 0
  /\ HandOut(Owner, data[Cell(bottom)])
  /\ Goto(Owner, "idle")
  /\ UNCHANGED <<top, bottom, data, seen, batch, job, pushed>>

\* The last job: the owner races with the thieves for it.
PullLast ==
  /\ pc[Owner] = "pullTop"
  /\ Diff(bottom, top) = 0
  /\ seen' = [seen EXCEPT ![Owner] = top]
  /\ Goto(Owner, "pullRace")
  /\ UNCHANGED <<top, bottom, data, batch, job, got, pushed, taken>>

PullRace ==
  /\ pc[Owner] = "pullRace"
  /\ IF SameWord(top, seen[Owner])
     THEN top' = top + 1 /\ HandOut(Owner, data[Cell(bottom)])
     ELSE UNCHANGED top /\ HandOut(Owner, NoJob)
  /\ Goto(Owner, "pullRestore")
  /\ UNCHANGED <<bottom, data, seen, batch, job, pushed>>

PullRestore ==
  /\ pc[Owner] = "pullRestore"
  /\ bottom' = bottom + 1
  /\ Goto(Owner, "idle")
  /\ UNCHANGED <<top, data, seen, batch, job, got, pushed, taken>>

----------------------------------------------------------------------------
(* localJobQueueRingSteal *)

StealLoadTop(t) ==
  /\ pc[t] = "idle"
  /\ seen' = [seen EXCEPT ![t] = top]
  /\ Goto(t, "stealBottom")
  /\ UNCHANGED <<top, bottom, data, batch, job, got, pushed, taken>>

StealLoadBottom(t) ==
  /\ pc[t] = "stealBottom"
  /\ IF Diff(bottom, seen[t]) <= 0
     THEN HandOut(t, NoJob) /\ Goto(t, "idle")
     ELSE UNCHANGED <<got, taken>> /\ Goto(t, "stealRead")
  /\ UNCHANGED <<top, bottom, data, seen, batch, job, pushed>>

StealRead(t) ==
  /\ pc[t] = "stealRead"
  /\ job' = [job EXCEPT ![t] = data[Cell(seen[t])]]
  /\ Goto(t, "stealRace")
  /\ UNCHANGED <<top, bottom, data, seen, batch, got, pushed, taken>>

\* Faulty variant: the job is read after top was advanced.
StealRaceReadsLate(t) ==
  /\ pc[t] = "stealRace"
  /\ job' = [job EXCEPT ![t] = NoJob]
  /\ IF SameWord(top, seen[t])
     THEN top' = top + 1 /\ HandOut(t, data[Cell(seen[t] + 1)])
     ELSE UNCHANGED top /\ HandOut(t, NoJob)
  /\ Goto(t, "idle")
  /\ UNCHANGED <<bottom, data, seen, batch, pushed>>

StealRace(t) ==
  /\ pc[t] = "stealRace"
  /\ job' = [job EXCEPT ![t] = NoJob]
  /\ IF SameWord(top, seen[t])
     THEN top' = top + 1 /\ HandOut(t, job[t])
     ELSE UNCHANGED top /\ HandOut(t, NoJob)
  /\ Goto(t, "idle")
  /\ UNCHANGED <<bottom, data, seen, batch, pushed>>

----------------------------------------------------------------------------

OwnerStep ==
  \/ \E n \in 1 .. Size : PushLoadTop(n)
  \/ PushWrite \/ PushPublish
  \/ PullClaim \/ PullFindsNothing \/ PullEmpty \/ PullSome \/ PullLast \/ PullRace \/ PullRestore

Steal(t) == StealLoadTop(t) \/ StealLoadBottom(t) \/ StealRead(t) \/ StealRace(t)

Next == OwnerStep \/ \E t \in Thieves : Steal(t)

Spec == Init /\ [][Next]_vars

----------------------------------------------------------------------------
(* Properties *)

\* Types of the state.  top never decreases below its start, and bottom is at
\* most one behind top while the owner is inside Pull.
TypeOK ==
  /\ top \in Nat /\ bottom \in Int
  /\ top - 1 <= bottom /\ bottom <= top + Size
  /\ data \in [Cells -> (1 .. MaxJobs) \cup {NoJob}]
  /\ pc \in [Threads -> {"idle", "pushWrite", "pushPublish", "pullTop", "pullEmpty",
                         "pullRace", "pullRestore", "stealBottom", "stealRead", "stealRace"}]
  /\ seen \in [Threads -> Nat]
  /\ batch \in 0 .. Size
  /\ job \in [Thieves -> (1 .. MaxJobs) \cup {NoJob}]
  /\ got \in [Threads -> (1 .. MaxJobs) \cup {NoJob}]
  /\ pushed \in 0 .. MaxJobs
  /\ taken \in [1 .. MaxJobs -> Nat]

\* No job is handed out twice, whoever races for it, and none before its push.
TakenOnce == \A j \in 1 .. MaxJobs : taken[j] <= (IF j <= pushed THEN 1 ELSE 0)

\* The end of the jobs that are still in the queue.  A Pull that has moved
\* bottom but not looked at top yet has not removed anything.
End == IF pc[Owner] \in {"pullTop", "pullEmpty", "pullRace"} THEN bottom + 1 ELSE bottom

\* A job that was pushed and not handed out is still in the ring, whatever
\* the pushes that came after it wrote.
NothingLost ==
  \A j \in 1 .. pushed :
    taken[j] = 0 => \E p \in top .. End - 1 : data[Cell(p)] = j

\* Whoever races for the last job, every job that was pushed is handed out once
\* or still there, and the ends of the queue stay within its capacity
\* (jobQueue.c:73-137).
JobsConserved == TypeOK /\ TakenOnce /\ NothingLost

----------------------------------------------------------------------------
(* The inductive invariant *)

\* A thread is at a point of the functions it calls.
PointsOwned ==
  /\ pc[Owner] \notin {"stealBottom", "stealRead", "stealRace"}
  /\ \A t \in Thieves : pc[t] \in {"idle", "stealBottom", "stealRead", "stealRace"}

\* The counters stay in a window that the word can tell apart, and the owner's
\* point says how top and bottom lie to each other.
CountersInWindow ==
  /\ Start <= top /\ top <= Start + pushed /\ End <= Start + pushed
  /\ End <= top + Size
  /\ \A t \in Threads : Start <= seen[t] /\ seen[t] <= top
  /\ pc[Owner] \in {"idle", "pushWrite", "pushPublish"} => top <= bottom
  /\ pc[Owner] \in {"pushWrite", "pushPublish"} =>
       batch > 0 /\ bottom + batch <= top + Size /\ pushed + batch <= MaxJobs
  /\ pc[Owner] = "pullEmpty" => seen[Owner] = top /\ bottom = top - 1
  /\ pc[Owner] = "pullRace" => seen[Owner] = bottom /\ bottom <= top
  /\ pc[Owner] = "pullRestore" => bottom = top - 1

\* The cells from top up to End hold the jobs that are still to be taken, each
\* once; what the owner is about to publish is behind them.
Live == top .. End - 1

LiveJobs ==
  /\ \A p \in Live : data[Cell(p)] \in 1 .. pushed /\ taken[data[Cell(p)]] = 0
  /\ \A p, q \in Live : data[Cell(p)] = data[Cell(q)] => p = q
  /\ pc[Owner] = "pushPublish" =>
       \A i \in 0 .. batch - 1 : data[Cell(bottom + i)] = pushed + 1 + i

\* As long as top has not moved, a thief that found a job there will get it,
\* and the job is the one it has read.
StealsHold ==
  \A t \in Thieves :
    /\ (pc[t] \in {"stealRead", "stealRace"} /\ seen[t] = top) => top < End
    /\ (pc[t] = "stealRace" /\ seen[t] = top) => job[t] = data[Cell(top)]

DequeInv ==
  /\ JobsConserved
  /\ PointsOwned /\ CountersInWindow /\ LiveJobs /\ StealsHold

----------------------------------------------------------------------------
(* The abstract specification *)

\* The jobs in the cells from place a up to place b.
Window(d, a, b) == [i \in 1 .. (b - a) |-> d[Cell(a + i - 1)]]

Deque == INSTANCE WorkDeque WITH
  items <- Window(data, top, End),
  next <- pushed + 1

\* The queue is a deque: the owner works on the newest job, thieves get the
\* oldest, and the owner is told "empty" only when it is.
ImplementsDeque == Deque!Spec
==============================================================================
