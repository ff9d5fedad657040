------------------------------- MODULE IoSystem -------------------------------
(***************************************************************************)
(* The io system (ioSystem/ioRequests.c): the pool of requests, the queue  *)
(* to the io threads, processing by a job, the list of completed requests  *)
(* and the shutdown.  One action is one access to what threads share; a    *)
(* request is private to the thread that holds its index.                  *)
(*                                                                         *)
(* The main thread submits, delivers the answers (ioSystemUpdate) and      *)
(* shuts down; it may submit from inside an answer.  No second thread      *)
(* submits: the free list has no tag and would need one.  With one         *)
(* producer the exit lock is never contended.  The queue takes and gives   *)
(* in one step (it is the algorithm of module JobQueueRing), but it may    *)
(* look full while a thread is in the middle of a pop.  File access is its *)
(* outcome, or none: a read() that fails is repeated.  The buffers of the  *)
(* reads are left out.                                                     *)
(***************************************************************************)
EXTENDS Integers, Sequences, FiniteSets

CONSTANTS
  Main, IoThreads, Workers,
  PoolSize,      \* concurrentRequests
  Kinds,         \* what callers ask for: [mode, process, complete]
  NoSlot,        \* (uint32)-1
  Path,          \* what a link is when a path lies over it
  MaxRequests    \* bound: requests submitted in a behaviour

ASSUME ThreadsAssumption ==
  /\ Main \notin IoThreads \cup Workers /\ IoThreads \cap Workers = {}
  /\ IsFiniteSet(IoThreads)
ASSUME PoolSizeAssumption == PoolSize \in Nat \ {0}
ASSUME NoSlotAssumption == {NoSlot, Path} \cap (0 .. PoolSize - 1) = {} /\ NoSlot # Path
ASSUME MaxRequestsAssumption == MaxRequests \in Nat
ASSUME KindsAssumption ==
  Kinds \subseteq [mode : {"read", "write"}, process : BOOLEAN, complete : BOOLEAN]

VARIABLES
  head, link,      \* the free list; a link lies under the path of a request
  request,         \* the slots: process and onComplete, result, request number
  queue, work,     \* requestQueue and workPresent
  running, exited, \* the flag, and threadsExited
  entry, ready, completeHead, completeTail,   \* the list of completed requests
  jobs,            \* how many jobs are to process each slot
  pc, mine, seen, place,   \* where the threads are, and their locals
  asked, next,     \* locals of a submission
  answering,       \* the request whose onComplete is being called
  leaked,          \* the slots the program has let go of without freeing them
  log              \* history: every accepted request, its outcome, its answers

freeList == <<head, link>>
requests == <<request, log>>
exits == <<running, exited>>
completion == <<entry, ready, completeHead, completeTail>>
submission == <<asked, next>>
locals == <<mine, seen, place>>
vars == <<freeList, requests, queue, work, exits, completion, jobs, pc, locals,
          submission, answering, leaked>>

Threads == {Main} \cup IoThreads \cup Workers
Slots == 0 .. PoolSize - 1
Results == {"IO_SUCCESS", "IO_FILE_ERROR", "IO_PROCESS_ERROR"}

NoRequest == [mode |-> "read", process |-> FALSE, complete |-> FALSE]

\* initializeIoSystem, initRequestPool
Init ==
  /\ head = 0
  /\ link = [s \in Slots |-> IF s = PoolSize - 1 THEN NoSlot ELSE s + 1]
  /\ request = [s \in Slots |->
       [mode |-> "read", process |-> FALSE, complete |-> FALSE,
        result |-> "IO_SUCCESS", of |-> 0]]
  /\ queue = <<>> /\ work = 0
  /\ running = TRUE /\ exited = 0
  /\ entry = [i \in Slots |-> 0] /\ ready = [i \in Slots |-> FALSE]
  /\ completeHead = 0 /\ completeTail = 0
  /\ jobs = [s \in Slots |-> 0]
  /\ pc = [t \in Threads |-> IF t \in IoThreads THEN "wait" ELSE "idle"]
  /\ mine = [t \in Threads |-> NoSlot]
  /\ seen = [t \in Threads |-> NoSlot]
  /\ place = [t \in Threads |-> 0]
  /\ asked = NoRequest /\ next = NoSlot
  /\ answering = NoSlot /\ leaked = {}
  /\ log = <<>>

At(t, point) == pc[t] = point
Goto(t, point) == pc' = [pc EXCEPT ![t] = point]

\* A thread is through with its request and goes back to its loop.
Release(t) ==
  /\ Goto(t, IF t \in IoThreads THEN "wait" ELSE "idle")
  /\ mine' = [mine EXCEPT ![t] = NoSlot]
  /\ seen' = [seen EXCEPT ![t] = NoSlot]

\* The outcome of the request in slot s is now r.
Result(s, r) ==
  /\ request' = [request EXCEPT ![s].result = r]
  /\ log' = [log EXCEPT ![request[s].of].outcome = r]

----------------------------------------------------------------------------
(* requestPoolAllocate and requestPoolFree *)

\* submitIoRead or submitIoWrite is called.  When the list is empty the call
\* returns false and changes nothing.
AllocateLoad ==
  /\ At(Main, "idle") /\ running
  /\ Len(log) < MaxRequests
  /\ head # NoSlot
  /\ asked' \in Kinds
  /\ seen' = [seen EXCEPT ![Main] = head]
  /\ Goto(Main, "allocLink")
  /\ UNCHANGED <<freeList, requests, queue, work, exits, completion, jobs,
                 mine, place, next, answering, leaked>>

AllocateLink ==
  /\ At(Main, "allocLink")
  /\ next' = link[seen[Main]]
  /\ Goto(Main, "allocSwap")
  /\ UNCHANGED <<freeList, requests, queue, work, exits, completion, jobs,
                 locals, asked, answering, leaked>>

AllocateSwap ==
  /\ At(Main, "allocSwap")
  /\ head = seen[Main]
  /\ head' = next
  /\ mine' = [mine EXCEPT ![Main] = seen[Main]]
  /\ Goto(Main, "push")
  /\ UNCHANGED <<link, requests, queue, work, exits, completion, jobs,
                 seen, place, submission, answering, leaked>>

AllocateAgain ==
  /\ At(Main, "allocSwap")
  /\ head # seen[Main]
  /\ seen' = [seen EXCEPT ![Main] = head]
  /\ Goto(Main, "allocLink")
  /\ UNCHANGED <<freeList, requests, queue, work, exits, completion, jobs,
                 mine, place, submission, answering, leaked>>

FreeLink(t) ==
  /\ At(t, "free")
  /\ seen' = [seen EXCEPT ![t] = head]
  /\ link' = [link EXCEPT ![mine[t]] = head]
  /\ Goto(t, "freeSwap")
  /\ UNCHANGED <<head, requests, queue, work, exits, completion, jobs,
                 mine, place, submission, answering, leaked>>

FreeSwap(t) ==
  /\ At(t, "freeSwap")
  /\ IF head = seen[t]
     THEN head' = mine[t] /\ Release(t)
     ELSE Goto(t, "free") /\ UNCHANGED <<head, mine, seen>>
  /\ UNCHANGED <<link, requests, queue, work, exits, completion, jobs,
                 place, submission, answering, leaked>>

----------------------------------------------------------------------------
(* prepareIoRequest, submitIoRead, submitIoWrite, submitRequest *)

\* The path is written over the link, and the request filled in.  A write leaves
\* the field process as the last request in the slot had it.
Fill(s) ==
  /\ link' = [link EXCEPT ![s] = Path]
  /\ request' = [request EXCEPT
       ![s].mode = asked.mode,
       ![s].process = IF asked.mode = "read" THEN asked.process ELSE @,
       ![s].complete = asked.complete,
       ![s].of = Len(log) + 1]

\* The submission has nothing more to do with its slot.
LetGo ==
  /\ mine' = [mine EXCEPT ![Main] = NoSlot]
  /\ seen' = [seen EXCEPT ![Main] = NoSlot]
  /\ next' = NoSlot /\ asked' = NoRequest

\* What the request will be processed by: its own function, none, or the one
\* that a read has left in the slot.
ProcessedBy(s) ==
  IF asked.mode = "read" THEN IF asked.process THEN "own" ELSE "none"
  ELSE IF request[s].process THEN "left" ELSE "none"

SubmitPush ==
  /\ At(Main, "push")
  /\ Fill(mine[Main])
  /\ queue' = Append(queue, mine[Main])
  /\ log' = Append(log, [wanted |-> asked.complete, process |-> ProcessedBy(mine[Main]),
                        outcome |-> "none", answers |-> <<>>])
  /\ LetGo
  /\ Goto(Main, "post")
  /\ UNCHANGED <<head, work, exits, completion, jobs, place, answering, leaked>>

\* The queue refuses the index, which it may do while a thread is in the middle
\* of a pop: the caller is told so, and nobody frees the slot.
SubmitRefused ==
  /\ At(Main, "push")
  /\ \E t \in IoThreads : At(t, "pop")
  /\ Fill(mine[Main])
  /\ leaked' = leaked \cup {mine[Main]}
  /\ LetGo
  /\ Goto(Main, "idle")
  /\ UNCHANGED <<head, queue, work, exits, completion, jobs, place, answering, log>>

\* submitIoWrite with a flag that is none: the slot is not freed, either.
SubmitInvalid ==
  /\ At(Main, "push") /\ asked.mode = "write"
  /\ link' = [link EXCEPT ![mine[Main]] = Path]
  /\ leaked' = leaked \cup {mine[Main]}
  /\ LetGo
  /\ Goto(Main, "idle")
  /\ UNCHANGED <<head, requests, queue, work, exits, completion, jobs, place,
                 answering>>

\* Faulty variant: the io threads are not told.
SubmitPostForgotten ==
  /\ At(Main, "post")
  /\ Goto(Main, "idle")
  /\ UNCHANGED <<freeList, requests, queue, work, exits, completion, jobs,
                 locals, submission, answering, leaked>>

SubmitPost ==
  /\ At(Main, "post")
  /\ work' = work + 1
  /\ Goto(Main, "idle")
  /\ UNCHANGED <<freeList, requests, queue, exits, completion, jobs,
                 locals, submission, answering, leaked>>

----------------------------------------------------------------------------
(* ioThreadEntry *)

WaitForWork(t) ==
  /\ At(t, "wait")
  /\ work > 0
  /\ work' = work - 1
  /\ Goto(t, "pop")
  /\ UNCHANGED <<freeList, requests, queue, exits, completion, jobs,
                 locals, submission, answering, leaked>>

\* processRequest begins by setting the result.
Pop(t) ==
  /\ At(t, "pop")
  /\ queue # <<>>
  /\ mine' = [mine EXCEPT ![t] = Head(queue)]
  /\ queue' = Tail(queue)
  /\ Result(Head(queue), "IO_SUCCESS")
  /\ Goto(t, "process")
  /\ UNCHANGED <<freeList, work, exits, completion, jobs, seen, place,
                 submission, answering, leaked>>

\* Faulty variant: the thread leaves as soon as the system stops.
PopEmptyOrStopped(t) ==
  /\ At(t, "pop")
  /\ queue = <<>> \/ ~ running
  /\ IF running
     THEN Goto(t, "undefinedIndex") /\ UNCHANGED exited
     ELSE Goto(t, "gone") /\ exited' = exited + 1
  /\ UNCHANGED <<freeList, requests, queue, work, running, completion, jobs,
                 locals, submission, answering, leaked>>

\* An empty queue ends the thread when the system stops; otherwise the code goes
\* on with an index that it never set.
PopEmpty(t) ==
  /\ At(t, "pop")
  /\ queue = <<>>
  /\ IF running
     THEN Goto(t, "undefinedIndex") /\ UNCHANGED exited
     ELSE Goto(t, "gone") /\ exited' = exited + 1
  /\ UNCHANGED <<freeList, requests, queue, work, running, completion, jobs,
                 locals, submission, answering, leaked>>

\* Where processRequest ends: a request nobody waits for is freed at once.
Answer(t) == Goto(t, IF request[mine[t]].complete THEN "reserve" ELSE "free")

ProcessFails(t) ==
  /\ At(t, "process")
  /\ Result(mine[t], "IO_FILE_ERROR")
  /\ Answer(t)
  /\ UNCHANGED <<freeList, queue, work, exits, completion, jobs, locals,
                 submission, answering, leaked>>

\* read() fails.  The test is made on the number of bytes that are left and not
\* on what read() returned (ioRequests.c:340), so the thread reads again, for as
\* long as that goes on.
ReadErs(t) ==
  /\ At(t, "process") /\ request[mine[t]].mode = "read"
  /\ Goto(t, "reading")
  /\ UNCHANGED <<freeList, requests, queue, work, exits, completion, jobs, locals,
                 submission, answering, leaked>>

\* All is read or written, perhaps after such failures.
AccessDone(t) == pc[t] \in {"process", "reading"}

ProcessDone(t) ==
  /\ AccessDone(t)
  /\ ~ request[mine[t]].process
  /\ Answer(t)
  /\ UNCHANGED <<freeList, requests, queue, work, exits, completion, jobs, locals,
                 submission, answering, leaked>>

\* Faulty variant: the return after the submission of the batch is missing.
HandOverFallsThrough(t) ==
  /\ AccessDone(t)
  /\ request[mine[t]].process
  /\ jobs' = [jobs EXCEPT ![mine[t]] = @ + 1]
  /\ Answer(t)
  /\ UNCHANGED <<freeList, requests, queue, work, exits, completion, locals,
                 submission, answering, leaked>>

\* A job batch of one job is to process what was read.
HandOver(t) ==
  /\ AccessDone(t)
  /\ request[mine[t]].process
  /\ jobs' = [jobs EXCEPT ![mine[t]] = @ + 1]
  /\ Release(t)
  /\ UNCHANGED <<freeList, requests, queue, work, exits, completion, place,
                 submission, answering, leaked>>

\* submitJobBatch fails: the job system has no room.
HandOverFails(t) ==
  /\ AccessDone(t)
  /\ request[mine[t]].process
  /\ Result(mine[t], "IO_PROCESS_ERROR")
  /\ Answer(t)
  /\ UNCHANGED <<freeList, queue, work, exits, completion, jobs, locals,
                 submission, answering, leaked>>

\* Faulty variant: the error of the processing function is not recorded in the
\* request.
RunProcessIgnoresError(w) ==
  /\ At(w, "idle")
  /\ \E s \in Slots, r \in {"IO_SUCCESS", "IO_PROCESS_ERROR"} :
       /\ jobs[s] > 0
       /\ jobs' = [jobs EXCEPT ![s] = @ - 1]
       /\ mine' = [mine EXCEPT ![w] = s]
       /\ log' = [log EXCEPT ![request[s].of].outcome = r]
  /\ Goto(w, "reserve")
  /\ UNCHANGED <<freeList, request, queue, work, exits, completion, seen, place,
                 submission, answering, leaked>>

\* The job system lets go of the job: it was selected when the fence came down,
\* or pushed back to a queue without room (jobs.c:478, :460), or it is never run.
JobLost ==
  /\ \E s \in Slots :
       /\ jobs[s] > 0
       /\ jobs' = [jobs EXCEPT ![s] = @ - 1]
       /\ leaked' = leaked \cup {s}
  /\ UNCHANGED <<freeList, requests, queue, work, exits, completion, pc, locals,
                 submission, answering>>

\* ioProcess: a function that returns JOB_ERROR has failed.  Functions do not
\* yield: the request would be completed, and the job run again.
RunProcess(w) ==
  /\ At(w, "idle")
  /\ \E s \in Slots, r \in {"IO_SUCCESS", "IO_PROCESS_ERROR"} :
       /\ jobs[s] > 0
       /\ jobs' = [jobs EXCEPT ![s] = @ - 1]
       /\ mine' = [mine EXCEPT ![w] = s]
       /\ Result(s, r)
  /\ Goto(w, "reserve")
  /\ UNCHANGED <<freeList, queue, work, exits, completion, seen, place,
                 submission, answering, leaked>>

----------------------------------------------------------------------------
(* submitComplete, getNextComplete, ioSystemUpdate *)

Reserve(t) ==
  /\ At(t, "reserve")
  /\ place' = [place EXCEPT ![t] = completeHead % PoolSize]
  /\ completeHead' = completeHead + 1
  /\ Goto(t, "enter")
  /\ UNCHANGED <<freeList, requests, queue, work, exits, entry, ready, completeTail,
                 jobs, mine, seen, submission, answering, leaked>>

Enter(t) ==
  /\ At(t, "enter")
  /\ entry' = [entry EXCEPT ![place[t]] = mine[t]]
  /\ Goto(t, "publish")
  /\ UNCHANGED <<freeList, requests, queue, work, exits, ready, completeHead,
                 completeTail, jobs, locals, submission, answering, leaked>>

Publish(t) ==
  /\ At(t, "publish")
  /\ ready' = [ready EXCEPT ![place[t]] = TRUE]
  /\ Release(t)
  /\ place' = [place EXCEPT ![t] = 0]
  /\ UNCHANGED <<freeList, requests, queue, work, exits, entry, completeHead,
                 completeTail, jobs, submission, answering, leaked>>

NextComplete == completeTail % PoolSize

TakeEntry ==
  /\ At(Main, "idle") /\ answering = NoSlot /\ running
  /\ ready[NextComplete]
  /\ mine' = [mine EXCEPT ![Main] = entry[NextComplete]]
  /\ Goto(Main, "deliver")
  /\ UNCHANGED <<freeList, requests, queue, work, exits, completion, jobs, seen, place,
                 submission, answering, leaked>>

\* Faulty variant: the entry stays ready.
DeliverAgain ==
  /\ At(Main, "deliver") /\ request[mine[Main]].complete
  /\ completeTail' = completeTail + 1
  /\ answering' = mine[Main]
  /\ log' = [log EXCEPT ![request[mine[Main]].of].answers =
               Append(@, request[mine[Main]].result)]
  /\ Release(Main)
  /\ UNCHANGED <<freeList, request, queue, work, exits, entry, ready, completeHead, jobs,
                 place, submission, leaked>>

\* The entry may be used again from here on, and onComplete is called.
Deliver ==
  /\ At(Main, "deliver") /\ request[mine[Main]].complete
  /\ ready' = [ready EXCEPT ![NextComplete] = FALSE]
  /\ completeTail' = completeTail + 1
  /\ answering' = mine[Main]
  /\ log' = [log EXCEPT ![request[mine[Main]].of].answers =
               Append(@, request[mine[Main]].result)]
  /\ Release(Main)
  /\ UNCHANGED <<freeList, request, queue, work, exits, entry, completeHead, jobs,
                 place, submission, leaked>>

\* There is no onComplete: NULL is called, and the program ends.
CallNull ==
  /\ At(Main, "deliver") /\ ~ request[mine[Main]].complete
  /\ ready' = [ready EXCEPT ![NextComplete] = FALSE]
  /\ completeTail' = completeTail + 1
  /\ Goto(Main, "nullCall")
  /\ UNCHANGED <<freeList, requests, queue, work, exits, entry, completeHead, jobs, locals,
                 submission, answering, leaked>>

\* onComplete returns.
Answered ==
  /\ At(Main, "idle") /\ answering # NoSlot
  /\ mine' = [mine EXCEPT ![Main] = answering]
  /\ answering' = NoSlot
  /\ Goto(Main, "free")
  /\ UNCHANGED <<freeList, requests, queue, work, exits, completion, jobs, seen, place,
                 submission, leaked>>

----------------------------------------------------------------------------
(* deinitializeIoSystem *)

BeginShutdown ==
  /\ At(Main, "idle") /\ answering = NoSlot /\ running
  /\ running' = FALSE
  /\ Goto(Main, "stop")
  /\ UNCHANGED <<freeList, requests, queue, work, exited, completion, jobs,
                 locals, submission, answering, leaked>>

\* One post for every io thread; they only take from the semaphore, so the
\* posts are one step.
PostExit ==
  /\ At(Main, "stop")
  /\ work' = work + Cardinality(IoThreads)
  /\ Goto(Main, "join")
  /\ UNCHANGED <<freeList, requests, queue, exits, completion, jobs,
                 locals, submission, answering, leaked>>

Join ==
  /\ At(Main, "join")
  /\ exited = Cardinality(IoThreads)
  /\ Goto(Main, "over")
  /\ UNCHANGED <<freeList, requests, queue, work, exits, completion, jobs,
                 locals, submission, answering, leaked>>

----------------------------------------------------------------------------

Submit == AllocateLoad \/ AllocateLink \/ AllocateSwap \/ AllocateAgain
            \/ SubmitPush \/ SubmitPost \/ SubmitRefused \/ SubmitInvalid
Update == TakeEntry \/ Deliver \/ CallNull \/ Answered \/ FreeLink(Main) \/ FreeSwap(Main)
Shutdown == BeginShutdown \/ PostExit \/ Join
SubmitComplete(t) == Reserve(t) \/ Enter(t) \/ Publish(t)
Io(t) == WaitForWork(t) \/ Pop(t) \/ PopEmpty(t)
           \/ ProcessFails(t) \/ ReadErs(t) \/ ProcessDone(t) \/ HandOver(t) \/ HandOverFails(t)
           \/ FreeLink(t) \/ FreeSwap(t) \/ SubmitComplete(t)
Worker(w) == RunProcess(w) \/ SubmitComplete(w)

Next == \/ Submit \/ Update \/ Shutdown
        \/ \E t \in IoThreads : Io(t)
        \/ \E w \in Workers : Worker(w)
        \/ JobLost

Spec == Init /\ [][Next]_vars

\* The operating system runs the threads, but need not let read() succeed.  A job
\* that is not lost is run.  The main thread finishes what it has
\* begun, and comes by to deliver answers in every frame until it shuts down;
\* it need neither submit nor shut down.
Fairness ==
  /\ \A t \in IoThreads : WF_vars(~ At(t, "reading") /\ Io(t))
  /\ \A w \in Workers : WF_vars(Worker(w))
  /\ WF_vars(~ At(Main, "idle") /\ (Submit \/ Update \/ Shutdown))
  /\ SF_vars(TakeEntry)
  /\ WF_vars(Answered)

FairSpec == Spec /\ Fairness

----------------------------------------------------------------------------
(* Properties *)

Records ==
  [mode : {"read", "write"}, process : BOOLEAN, complete : BOOLEAN, result : Results,
   of : 0 .. MaxRequests]

TypeOK ==
  /\ head \in Slots \cup {NoSlot}
  /\ link \in [Slots -> Slots \cup {NoSlot, Path}]
  /\ request \in [Slots -> Records]
  /\ queue \in Seq(Slots) /\ work \in Nat
  /\ running \in BOOLEAN /\ exited \in 0 .. Cardinality(IoThreads)
  /\ entry \in [Slots -> Slots] /\ ready \in [Slots -> BOOLEAN]
  /\ completeHead \in Nat /\ completeTail \in Nat
  /\ jobs \in [Slots -> Nat]
  /\ mine \in [Threads -> Slots \cup {NoSlot}]
  /\ seen \in [Threads -> Slots \cup {NoSlot}]
  /\ place \in [Threads -> Slots]
  /\ next \in Slots \cup {NoSlot}
  /\ answering \in Slots \cup {NoSlot}
  /\ leaked \subseteq Slots

\* The free list is f: the slots in it, the first one first.
SlotLists == UNION {[1 .. n -> Slots] : n \in 0 .. PoolSize}
FreeList(f) ==
  /\ head = IF f = <<>> THEN NoSlot ELSE f[1]
  /\ \A i \in DOMAIN f : link[f[i]] = IF i = Len(f) THEN NoSlot ELSE f[i + 1]

\* A slot is in exactly one place: in the free list, with a thread, in the
\* queue, with the job system, in the completion list, being answered, or leaked
\* for good.  Nobody frees or answers what somebody else still works on, and what
\* was let go of is not used again.
OneOwner ==
  \E f \in SlotLists : FreeList(f) /\
    \A s \in Slots :
      Cardinality({i \in DOMAIN f : f[i] = s})
      + Cardinality({t \in Threads : mine[t] = s /\ ~ At(t, "deliver")})
      + Cardinality({i \in DOMAIN queue : queue[i] = s})
      + jobs[s]
      + Cardinality({i \in Slots : ready[i] /\ entry[i] = s})
      + (IF answering = s THEN 1 ELSE 0)
      + (IF s \in leaked THEN 1 ELSE 0) = 1

\* A request is answered at most once, only if an answer was asked for, and with
\* the result of its own last step, though its slot was used before.  That step
\* is a processing function's only if the request has one, or is a write in a
\* slot where a read has left one (ioRequests.c:463, :477); and only after such a
\* function does the main thread call an onComplete that is not there.
OwnAnswer ==
  /\ \A r \in DOMAIN log :
       /\ log[r].answers # <<>> => log[r].wanted /\ log[r].answers = <<log[r].outcome>>
       /\ log[r].outcome = "IO_PROCESS_ERROR" => log[r].process # "none"
  /\ At(Main, "nullCall") =>
       LET r == request[mine[Main]].of
       IN r \in DOMAIN log /\ ~ log[r].wanted /\ log[r].process # "none"

\* No request gets lost on its way: none is written over in the list of the
\* completed ones before it is delivered, and two threads never write the same
\* entry; an io thread that was woken finds a request unless the system stops,
\* and the queue has room for every slot of the pool.
EntriesKept ==
  /\ TypeOK
  /\ \A t, u \in Threads :
       (pc[t] \in {"enter", "publish"}) =>
         /\ ~ ready[place[t]]
         /\ (t # u /\ pc[u] \in {"enter", "publish"}) => place[t] # place[u]
  /\ \A t \in IoThreads : ~ At(t, "undefinedIndex")
  /\ At(Main, "push") => Len(queue) < PoolSize

Wants(r) == r \in DOMAIN log /\ log[r].wanted
HasAnswer(r) == r \in DOMAIN log /\ log[r].answers # <<>>
JobGone(r) == \E s \in leaked : request[s].of = r

\* No io thread has to do with a read() that fails for ever.
ReadsEnd == \A t \in IoThreads : []<> ~ At(t, "reading")

\* Every request that wants an answer gets one, unless the system is shut down,
\* the job system loses the job that was to process it, or the program has
\* called an onComplete that is not there.  All this if every read ends: a read()
\* that goes on failing keeps the io thread (ioRequests.c:340).
RequestsAnswered ==
  ReadsEnd =>
    \A r \in 1 .. MaxRequests :
      Wants(r) ~> (~ running \/ HasAnswer(r) \/ JobGone(r) \/ At(Main, "nullCall"))

\* The shutdown returns if every read ends, and the io threads have then processed
\* all that was queued; jobs that were lost do not keep it.
ShutdownReturns == ReadsEnd => (~ running ~> (At(Main, "over") /\ queue = <<>>))

----------------------------------------------------------------------------
(* The inductive invariants behind OneOwner, EntriesKept and OwnAnswer *)

SubmitPoints == {"allocLink", "allocSwap", "push", "post"}
CompletePoints == {"reserve", "enter", "publish"}
FreePoints == {"free", "freeSwap"}
Holding == {"push", "process", "reading", "deliver", "nullCall"} \cup CompletePoints \cup FreePoints
Answers ==
  [wanted : BOOLEAN, process : {"none", "own", "left"},
   outcome : Results \cup {"none"}, answers : Seq(Results)]

MainPoints == {"idle", "deliver", "nullCall", "stop", "join", "over"} \cup SubmitPoints \cup FreePoints
IoPoints ==
  {"wait", "pop", "process", "reading", "gone", "undefinedIndex"} \cup CompletePoints \cup FreePoints
WorkerPoints == {"idle"} \cup CompletePoints

\* A thread is at a point of the functions it calls, and has a request in hand
\* exactly where these have one.
PointsOwned ==
  /\ pc \in [Threads -> MainPoints \cup IoPoints \cup WorkerPoints]
  /\ pc[Main] \in MainPoints
  /\ \A t \in IoThreads : pc[t] \in IoPoints
  /\ \A w \in Workers : pc[w] \in WorkerPoints
  /\ \A t \in Threads : mine[t] # NoSlot <=> pc[t] \in Holding
  /\ answering # NoSlot => pc[Main] \in {"idle"} \cup SubmitPoints
  /\ ~ running <=> pc[Main] \in {"stop", "join", "over"}

LogTyped ==
  /\ log \in Seq(Answers) /\ Len(log) <= MaxRequests
  /\ asked \in Kinds \/ pc[Main] \notin {"allocLink", "allocSwap", "push"}
  /\ pc[Main] \in {"allocLink", "allocSwap", "push"} => Len(log) < MaxRequests

Once(s) == \A i, k \in DOMAIN s : s[i] = s[k] => i = k

\* A link that was read or written is the one the list needs when the
\* compare-and-swap succeeds: nobody but the main thread takes slots out.
LinksHold(f) ==
  /\ pc[Main] \in {"allocLink", "allocSwap"} => \E i \in DOMAIN f : f[i] = seen[Main]
  /\ pc[Main] = "allocSwap" => next = link[seen[Main]]
  /\ \A t \in Threads : pc[t] = "freeSwap" => link[mine[t]] = seen[t]

\* Where a slot can be, when f is the free list.
InHand(t) == <<"hand", t>>
InEntry(i) == <<"entry", i>>
Free == <<"free", 0>>
Queued == <<"queue", 0>>
WithJob == <<"job", 0>>
InAnswer == <<"answer", 0>>
Leaked == <<"leaked", 0>>
Places == {InHand(t) : t \in Threads} \cup {InEntry(i) : i \in Slots}
            \cup {Free, Queued, WithJob, InAnswer, Leaked}

Has(f, x, s) ==
  CASE x[1] = "hand" -> mine[x[2]] = s /\ ~ At(x[2], "deliver")
    [] x[1] = "entry" -> ready[x[2]] /\ entry[x[2]] = s
    [] x[1] = "free" -> \E i \in DOMAIN f : f[i] = s
    [] x[1] = "queue" -> \E i \in DOMAIN queue : queue[i] = s
    [] x[1] = "job" -> jobs[s] > 0
    [] x[1] = "answer" -> answering = s
    [] x[1] = "leaked" -> s \in leaked

\* Every slot is in one place, and nowhere twice.
SlotsPlaced(f) ==
  /\ Once(f) /\ Once(queue) /\ \A s \in Slots : jobs[s] <= 1
  /\ \A s \in Slots :
       /\ \E x \in Places : Has(f, x, s)
       /\ \A x, y \in Places : Has(f, x, s) /\ Has(f, y, s) => x = y

ListAndPlaces == \E f \in SlotLists : FreeList(f) /\ LinksHold(f) /\ SlotsPlaced(f)

Entering(t) == pc[t] \in {"enter", "publish"}
Used(i) == ready[i] \/ \E t \in Threads : Entering(t) /\ place[t] = i
Reserved == completeTail .. completeHead - 1

\* The entries in use are those that were reserved and not delivered; each is
\* ready or with the one thread that fills it.
EntriesReserved ==
  /\ completeTail <= completeHead /\ completeHead <= completeTail + PoolSize
  /\ \A p \in Reserved : Used(p % PoolSize)
  /\ \A i \in Slots : Used(i) => \E p \in Reserved : p % PoolSize = i
  /\ \A t, u \in Threads : Entering(t) /\ Entering(u) /\ place[t] = place[u] => t = u
  /\ \A t \in Threads : Entering(t) => ~ ready[place[t]]
  /\ \A t \in Threads : pc[t] = "publish" => entry[place[t]] = mine[t]
  /\ pc[Main] = "deliver" => ready[NextComplete] /\ entry[NextComplete] = mine[Main]

Popping == {t \in IoThreads : pc[t] = "pop"}
Gone == {t \in IoThreads : pc[t] = "gone"}

\* Until the system stops there is a token, or a thread that took one, for every
\* request in the queue, but for one whose token is about to be posted.
TokensMatch ==
  /\ running => work + Cardinality(Popping) + (IF At(Main, "post") THEN 1 ELSE 0) = Len(queue)
  /\ exited = Cardinality(Gone)
  /\ \A t \in IoThreads : ~ At(t, "undefinedIndex")

IoInv ==
  /\ TypeOK /\ PointsOwned /\ LogTyped /\ ListAndPlaces /\ EntriesReserved /\ TokensMatch

\* The slots whose request is still to be answered or freed.
Queueing(s) == \E i \in DOMAIN queue : queue[i] = s
Begun(s) ==
  \/ jobs[s] > 0
  \/ \E i \in Slots : ready[i] /\ entry[i] = s
  \/ \E t \in Threads : mine[t] = s /\ pc[t] \in {"process", "reading"} \cup CompletePoints
\* A request that is under way has its own record, no answer so far, and the
\* outcome of its last step; it is completed if that was asked for, or if it had a
\* processing function, which a job has for certain.
Completing(s) ==
  \/ jobs[s] > 0
  \/ \E i \in Slots : ready[i] /\ entry[i] = s
  \/ \E t \in Threads : mine[t] = s /\ pc[t] \in CompletePoints
UnderWay(s) == Queueing(s) \/ Begun(s)
RequestsKept ==
  /\ \A s \in Slots : UnderWay(s) =>
       LET r == request[s].of IN
       /\ r \in DOMAIN log /\ log[r].answers = <<>> /\ log[r].wanted = request[s].complete
       /\ request[s].process <=> log[r].process # "none"
       /\ Begun(s) => log[r].outcome = request[s].result
       /\ Completing(s) => request[s].complete \/ request[s].process
       /\ jobs[s] > 0 => request[s].process
  /\ \A s, q \in Slots :
       UnderWay(s) /\ UnderWay(q) /\ request[s].of = request[q].of => s = q

AnswerInv == OwnAnswer /\ RequestsKept
============================================================================
