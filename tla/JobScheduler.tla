---------------------------- MODULE JobScheduler ----------------------------
(***************************************************************************)
(* Scheduling of jobs (jobSystem/jobs.c): how the workers and the main     *)
(* thread find, run, interrupt and hand over jobs of several priorities,   *)
(* how workers sleep and are woken, and how the system shuts down.         *)
(*                                                                         *)
(* A batch enters the global queue of its priority.  A worker splits up to *)
(* LocalSize jobs off it, keeps the rest of the batch where others can     *)
(* steal it, and the jobs in its local queue, where others can steal them. *)
(* A job that yields continues unless the global queue has something of a  *)
(* higher priority.  The main thread helps while it waits for a fence, and *)
(* leaves a job it has begun in the exchange.                              *)
(*                                                                         *)
(* Atomic here: one operation of a queue (modules JobQueueRing and         *)
(* LocalJobQueue), and the end of a job with all that follows for its      *)
(* batch (module JobBatchPool).  A job is <<batch, index>>; a batch has a  *)
(* number of jobs, and its jobs a number of sections, after each of which  *)
(* a job yields when it is told to.                                        *)
(***************************************************************************)
EXTENDS Integers, Sequences, FiniteSets, Functions

CONSTANTS
  Main,          \* the main thread
  Io,            \* the io thread, which only submits
  Workers,
  None,          \* JOB_NONE, JOB_BATCH_NONE
  Lowest,        \* JOB_PRIORITY_MIN; 0 is JOB_PRIORITY_MAX
  MainLowest,    \* JOB_PRIORITY_MEDIUM
  LocalSize,     \* LOCAL_QUEUE_RING_SIZE
  FrameBatches,  \* batches the main thread submits, with the frame's fence
  IoBatches,     \* batches the io thread submits
  Priority,      \* the priority of every batch,
  Size,          \* its number of jobs,
  Sections       \* and the number of sections of its jobs

Batches == FrameBatches \cup IoBatches
Priorities == 0 .. Lowest
JobsOf(b) == {b} \X (1 .. Size[b])
Jobs == UNION {JobsOf(b) : b \in Batches}
Threads == Workers \cup {Main, Io}

ASSUME SchedulerAssumption ==
  /\ IsFiniteSet(Workers)
  /\ Lowest \in Nat /\ MainLowest \in Priorities
  /\ LocalSize \in Nat \ {0}
  /\ FrameBatches \cap IoBatches = {}
  /\ Priority \in [Batches -> Priorities]
  /\ Size \in [Batches -> Nat \ {0}]
  /\ Sections \in [Batches -> Nat \ {0}]
  /\ Main # Io /\ Main \notin Workers /\ Io \notin Workers
  /\ None \notin Batches \cup Jobs

VARIABLES
  submitted,  \* the batches submitted so far
  global,     \* jobQueue: the batches of each priority
  index,      \* jobs split off each batch
  rest,       \* workingOnBatch of each worker and priority
  local,      \* localQueue of each worker and priority, oldest job first
  exchange,   \* jobs the main thread handed over, by priority
  workPresent,\* the semaphore
  active,     \* activeThreads
  exiting,    \* awaitingExit
  section,    \* the section stored with each job
  done,       \* jobs that have ended
  reached,    \* history: the section each job yielded to last
  pc,         \* where each thread is
  prio,       \* the priority a thread searches, or of the job it runs
  job,        \* the job a thread runs
  at,         \* the section that job is in
  scan,       \* threads that are still to be asked for work
  buffer,     \* jobs a worker has split off and not queued yet
  split,      \* the batch they come from, while it is not kept
  held,       \* the job a worker may have to push back, and its priority
  waitsFor,   \* the fence the main thread waits for: "frame" or "all"
  inProgress, \* inProgress in jobFenceWait
  lost        \* history: the jobs that were let go of before their end

queues == <<global, index, rest, local, exchange>>
jobVars == <<section, done, reached>>
counts == <<workPresent, active, exiting>>
search == <<prio, scan>>
buffers == <<buffer, split, held>>
mainVars == <<waitsFor, inProgress, lost>>
vars == <<submitted, queues, counts, jobVars, pc, search, job, at, buffers, mainVars>>

NotHeld == [job |-> None, prio |-> 0]
Minimum(a, b) == IF a < b THEN a ELSE b

\* jobSystemInitialize; the threads are about to start.
Init ==
  /\ submitted = {}
  /\ global = [p \in Priorities |-> <<>>]
  /\ index = [b \in Batches |-> 0]
  /\ rest = [w \in Workers |-> [p \in Priorities |-> None]]
  /\ local = [w \in Workers |-> [p \in Priorities |-> <<>>]]
  /\ exchange = [p \in Priorities |-> None]
  /\ workPresent = 0
  /\ active = 0
  /\ exiting = FALSE
  /\ section = [j \in Jobs |-> 0]
  /\ done = {}
  /\ reached = [j \in Jobs |-> 0]
  /\ pc = [t \in Threads |-> IF t \in Workers THEN "start" ELSE "ready"]
  /\ prio = [t \in Threads |-> 0]
  /\ job = [t \in Threads |-> None]
  /\ at = [t \in Threads |-> 0]
  /\ scan = [t \in Threads |-> {}]
  /\ buffer = [w \in Workers |-> <<>>]
  /\ split = [w \in Workers |-> None]
  /\ held = [w \in Workers |-> NotHeld]
  /\ waitsFor = "frame"
  /\ inProgress = FALSE
  /\ lost = {}

Goto(t, point) == pc' = [pc EXCEPT ![t] = point]

\* wakeAdditionalWorkers
WakeAdditional(available) ==
  LET idle == Cardinality(Workers) - active IN
  workPresent' = workPresent + (IF available > 1 THEN Minimum(idle, available - 1) ELSE 0)

\* Thread t goes on with job j of priority p: prepareJob loads its section.
Take(t, j, point) ==
  /\ job' = [job EXCEPT ![t] = j]
  /\ at' = [at EXCEPT ![t] = section[j]]
  /\ Goto(t, point)

----------------------------------------------------------------------------
(* submitToMainQueue: the batch is pushed, then the semaphore is posted. *)

SubmitPush(t) ==
  /\ pc[t] = "ready"
  /\ t \in {Main, Io}
  /\ \E b \in (IF t = Main THEN FrameBatches ELSE IoBatches) \ submitted :
       /\ submitted' = submitted \cup {b}
       /\ global' = [global EXCEPT ![Priority[b]] = Append(@, b)]
  /\ Goto(t, "post")
  /\ UNCHANGED <<index, rest, local, exchange, counts, jobVars, search, job, at,
                 buffers, mainVars>>

\* Faulty variant: the workers are not told.
SubmitPostForgotten(t) ==
  /\ pc[t] = "post"
  /\ Goto(t, "ready")
  /\ UNCHANGED <<submitted, queues, counts, jobVars, search, job, at, buffers, mainVars>>

SubmitPost(t) ==
  /\ pc[t] = "post"
  /\ workPresent' = workPresent + 1
  /\ Goto(t, "ready")
  /\ UNCHANGED <<submitted, queues, active, exiting, jobVars, search, job, at,
                 buffers, mainVars>>

----------------------------------------------------------------------------
(* workerThreadEntry, selectJob: one priority after the other, and for each *)
(* the exchange, the own queue, the own batch, the global queue, the others *)

StartThread(w) ==
  /\ pc[w] = "start"
  /\ active' = active + 1
  /\ Goto(w, "exchange")
  /\ UNCHANGED <<submitted, queues, workPresent, exiting, jobVars, search, job, at,
                 buffers, mainVars>>

SelectFromExchange(w) ==
  /\ pc[w] = "exchange"
  /\ exchange' = [exchange EXCEPT ![prio[w]] = None]
  /\ IF exchange[prio[w]] = None
     THEN Goto(w, "local") /\ UNCHANGED <<job, at>>
     ELSE Take(w, exchange[prio[w]], "run")
  /\ UNCHANGED <<submitted, global, index, rest, local, counts, jobVars, search,
                 buffers, mainVars>>

SelectFromLocal(w) ==
  /\ pc[w] = "local"
  /\ LET p == prio[w]
         jobs == local[w][p]
     IN IF jobs = <<>>
        THEN Goto(w, "own") /\ UNCHANGED <<local, job, at>>
        ELSE /\ Take(w, jobs[Len(jobs)], "run")
             /\ local' = [local EXCEPT ![w][p] = SubSeq(jobs, 1, Len(jobs) - 1)]
  /\ UNCHANGED <<submitted, global, index, rest, exchange, counts, jobVars, search,
                 buffers, mainVars>>

\* Faulty variant: one job more than fits.
SplitTooMany(w, b, point) ==
  LET room == LocalSize + 1 - Len(buffer[w])
      n == Minimum(room, Size[b] - index[b])
      more == index[b] + n < Size[b]
  IN /\ buffer' = [buffer EXCEPT ![w] = @ \o [i \in 1 .. n |-> <<b, index[b] + i>>]]
     /\ index' = [index EXCEPT ![b] = @ + n]
     /\ split' = [split EXCEPT ![w] = IF more THEN b ELSE None]
     /\ Goto(w, IF more THEN "wakeMore" ELSE point)

\* splitJobBatch: fills the buffer; a remainder has to be kept.
Split(w, b, point) ==
  LET room == LocalSize - Len(buffer[w])
      n == Minimum(room, Size[b] - index[b])
      more == index[b] + n < Size[b]
  IN /\ buffer' = [buffer EXCEPT ![w] = @ \o [i \in 1 .. n |-> <<b, index[b] + i>>]]
     /\ index' = [index EXCEPT ![b] = @ + n]
     /\ split' = [split EXCEPT ![w] = IF more THEN b ELSE None]
     /\ Goto(w, IF more THEN "wakeMore" ELSE point)

\* processJobBatchIntoBuffer: others are woken for the remainder ...
WakeForRemainder(w) ==
  /\ pc[w] = "wakeMore"
  /\ WakeAdditional(Size[split[w]] - index[split[w]])
  /\ Goto(w, "keep")
  /\ UNCHANGED <<submitted, queues, active, exiting, jobVars, search, job, at,
                 buffers, mainVars>>

\* ... before it is put where they find it.
KeepRemainder(w) ==
  /\ pc[w] = "keep"
  /\ rest' = [rest EXCEPT ![w][prio[w]] = split[w]]
  /\ split' = [split EXCEPT ![w] = None]
  /\ Goto(w, "push")
  /\ UNCHANGED <<submitted, global, index, local, exchange, counts, jobVars, search,
                 job, at, buffer, held, mainVars>>

\* getJobFromWorkinOnBatch
SelectFromOwnBatch(w) ==
  /\ pc[w] = "own"
  /\ LET b == rest[w][prio[w]] IN
     IF b = None
     THEN Goto(w, "global") /\ UNCHANGED <<rest, index, buffer, split>>
     ELSE Split(w, b, "push") /\ rest' = [rest EXCEPT ![w][prio[w]] = None]
  /\ UNCHANGED <<submitted, global, local, exchange, counts, jobVars, search, job, at,
                 held, mainVars>>

\* The loop of getJobFromGlobalQueue.
PullGlobal(w) ==
  /\ pc[w] = "global"
  /\ Len(buffer[w]) < LocalSize
  /\ global[prio[w]] # <<>>
  /\ Split(w, Head(global[prio[w]]), "global")
  /\ global' = [global EXCEPT ![prio[w]] = Tail(@)]
  /\ UNCHANGED <<submitted, rest, local, exchange, counts, jobVars, search, job, at,
                 held, mainVars>>

\* Its end.  With nothing found selectJob goes on to the other threads, and
\* tryGetHigherPriorityJob to the next priority above that of the held job,
\* which resumes when there is none.
PullGlobalDone(w) ==
  /\ pc[w] = "global"
  /\ Len(buffer[w]) = LocalSize \/ global[prio[w]] = <<>>
  /\ IF buffer[w] # <<>> THEN Goto(w, "push") /\ UNCHANGED <<search, job, held>>
     ELSE IF held[w] = NotHeld
     THEN /\ Goto(w, "stealBatch")
          /\ scan' = [scan EXCEPT ![w] = Workers \ {w}]
          /\ UNCHANGED <<prio, job, held>>
     ELSE /\ prio' = [prio EXCEPT ![w] = @ + 1]
          /\ IF prio[w] + 1 < held[w].prio
             THEN UNCHANGED <<pc, job, held>>
             ELSE /\ job' = [job EXCEPT ![w] = held[w].job]
                  /\ held' = [held EXCEPT ![w] = NotHeld]
                  /\ Goto(w, "run")
          /\ UNCHANGED scan
  /\ UNCHANGED <<submitted, queues, counts, jobVars, at, buffer, split, mainVars>>

\* stealBatchFromOtherThread: an entry that is empty, or taken by somebody
\* else first, is passed over.
StealBatch(w) ==
  /\ pc[w] = "stealBatch"
  /\ \E v \in scan[w] :
       LET b == rest[v][prio[w]] IN
       IF b = None
       THEN /\ scan' = [scan EXCEPT ![w] = @ \ {v}]
            /\ UNCHANGED <<pc, rest, index, buffer, split>>
       ELSE /\ Split(w, b, "push")
            /\ rest' = [rest EXCEPT ![v][prio[w]] = None]
            /\ scan' = [scan EXCEPT ![w] = {}]
  /\ UNCHANGED <<submitted, global, local, exchange, counts, jobVars, prio, job, at,
                 held, mainVars>>

NoBatchToSteal(w) ==
  /\ pc[w] = "stealBatch"
  /\ scan[w] = {}
  /\ scan' = [scan EXCEPT ![w] = Workers \ {w}]
  /\ Goto(w, "stealJob")
  /\ UNCHANGED <<submitted, queues, counts, jobVars, prio, job, at, buffers, mainVars>>

\* Faulty variant: the job is read and left in the queue.
StealJobLeft(t, point) ==
  /\ pc[t] = "stealJob"
  /\ \E v \in scan[t] :
       LET jobs == local[v][prio[t]] IN
       \/ /\ scan' = [scan EXCEPT ![t] = @ \ {v}]
          /\ UNCHANGED <<pc, job, at>>
       \/ /\ jobs # <<>>
          /\ Take(t, Head(jobs), point)
          /\ scan' = [scan EXCEPT ![t] = {}]
  /\ UNCHANGED <<submitted, queues, counts, jobVars, prio, buffers, mainVars>>

\* stealJobFromOtherThreadsLocalQueue, for a worker and for the main thread.
\* A lost race for a job is reported as an empty queue.
StealJob(t, point) ==
  /\ pc[t] = "stealJob"
  /\ \E v \in scan[t] :
       LET jobs == local[v][prio[t]] IN
       \/ /\ scan' = [scan EXCEPT ![t] = @ \ {v}]
          /\ UNCHANGED <<pc, local, job, at>>
       \/ /\ jobs # <<>>
          /\ Take(t, Head(jobs), point)
          /\ local' = [local EXCEPT ![v][prio[t]] = Tail(jobs)]
          /\ scan' = [scan EXCEPT ![t] = {}]
  /\ UNCHANGED <<submitted, global, index, rest, exchange, counts, jobVars, prio,
                 buffers, mainVars>>

\* Nothing at this priority: the next one, or sleep (waitForWork).
NothingFound(w) ==
  /\ pc[w] = "stealJob"
  /\ scan[w] = {}
  /\ IF prio[w] < Lowest
     THEN /\ prio' = [prio EXCEPT ![w] = @ + 1]
          /\ Goto(w, "exchange")
          /\ UNCHANGED active
     ELSE /\ active' = active - 1
          /\ Goto(w, "wait")
          /\ UNCHANGED prio
  /\ UNCHANGED <<submitted, queues, workPresent, exiting, jobVars, scan, job, at,
                 buffers, mainVars>>

WaitForWork(w) ==
  /\ pc[w] = "wait"
  /\ workPresent > 0
  /\ workPresent' = workPresent - 1
  /\ Goto(w, "woken")
  /\ UNCHANGED <<submitted, queues, active, exiting, jobVars, search, job, at,
                 buffers, mainVars>>

Woken(w) ==
  /\ pc[w] = "woken"
  /\ active' = active + 1
  /\ prio' = [prio EXCEPT ![w] = 0]
  /\ Goto(w, IF exiting THEN "exited" ELSE "exchange")
  /\ UNCHANGED <<submitted, queues, workPresent, exiting, jobVars, scan, job, at,
                 buffers, mainVars>>

\* Faulty variant: one job too few is queued.
QueueJobsOffByOne(w) ==
  /\ pc[w] = "push"
  /\ LET p == prio[w]
         more == Tail(buffer[w])
     IN local' = IF more # <<>>
                 THEN [local EXCEPT ![w][p] = @ \o Tail(more)] ELSE local
  /\ WakeAdditional(Len(buffer[w]) - 1)
  /\ Goto(w, IF held[w] = NotHeld THEN "take" ELSE "pushback")
  /\ buffer' = [buffer EXCEPT ![w] = <<Head(@)>>]
  /\ UNCHANGED <<submitted, global, index, rest, exchange, active, exiting, jobVars,
                 search, job, at, split, held, mainVars>>

\* pushJobsToLocalQueue: the first job is returned, the others are queued (if
\* there is room for them) and workers are woken for them.
QueueJobs(w) ==
  /\ pc[w] = "push"
  /\ LET p == prio[w]
         more == Tail(buffer[w])
         fits == Len(local[w][p]) < LocalSize - Len(more)
     IN local' = IF more # <<>> /\ fits
                 THEN [local EXCEPT ![w][p] = @ \o more] ELSE local
  /\ WakeAdditional(Len(buffer[w]) - 1)
  /\ Goto(w, IF held[w] = NotHeld THEN "take" ELSE "pushback")
  /\ buffer' = [buffer EXCEPT ![w] = <<Head(@)>>]
  /\ UNCHANGED <<submitted, global, index, rest, exchange, active, exiting, jobVars,
                 search, job, at, split, held, mainVars>>

TakeFirst(w) ==
  /\ pc[w] = "take"
  /\ Take(w, Head(buffer[w]), "run")
  /\ buffer' = [buffer EXCEPT ![w] = <<>>]
  /\ UNCHANGED <<submitted, queues, counts, jobVars, search, split, held, mainVars>>

----------------------------------------------------------------------------
(* executeJob *)

\* The batch's entry function runs the section t is in; with the highest
\* priority it is never told to yield and runs to its end.
Ends(t) == prio[t] = 0 \/ at[t] + 1 >= Sections[job[t][1]]

\* Faulty variant: the search goes on with the next priority.
JobEndsNextPriority(w) ==
  /\ pc[w] = "run"
  /\ Ends(w)
  /\ done' = done \cup {job[w]}
  /\ job' = [job EXCEPT ![w] = None]
  /\ prio' = [prio EXCEPT ![w] = IF @ < Lowest THEN @ + 1 ELSE 0]
  /\ Goto(w, "exchange")
  /\ UNCHANGED <<submitted, queues, counts, section, reached, scan, at, buffers, mainVars>>

JobEnds(w) ==
  /\ pc[w] = "run"
  /\ Ends(w)
  /\ done' = done \cup {job[w]}
  /\ job' = [job EXCEPT ![w] = None]
  /\ prio' = [prio EXCEPT ![w] = 0]
  /\ Goto(w, "exchange")
  /\ UNCHANGED <<submitted, queues, counts, section, reached, scan, at, buffers, mainVars>>

\* The job yields, and tryGetHigherPriorityJob looks at the global queues.
JobYields(w) ==
  /\ pc[w] = "run"
  /\ ~Ends(w)
  /\ at' = [at EXCEPT ![w] = @ + 1]
  /\ reached' = [reached EXCEPT ![job[w]] = at[w] + 1]
  /\ held' = [held EXCEPT ![w] = [job |-> job[w], prio |-> prio[w]]]
  /\ job' = [job EXCEPT ![w] = None]
  /\ prio' = [prio EXCEPT ![w] = 0]
  /\ Goto(w, "global")
  /\ UNCHANGED <<submitted, queues, counts, section, done, scan, buffer, split, mainVars>>

RoomToPushBack(w) == Len(local[w][held[w].prio]) < LocalSize

\* Faulty variant: the section is not stored.
PushBackUnsaved(w) ==
  /\ pc[w] = "pushback"
  /\ local' = IF RoomToPushBack(w)
              THEN [local EXCEPT ![w][held[w].prio] = Append(@, held[w].job)] ELSE local
  /\ held' = [held EXCEPT ![w] = NotHeld]
  /\ Goto(w, "take")
  /\ UNCHANGED <<submitted, global, index, rest, exchange, counts, jobVars, search,
                 job, at, buffer, split, mainVars>>

\* pushbackJob; the caller ignores that there may be no room.
PushBack(w) ==
  /\ pc[w] = "pushback"
  /\ section' = [section EXCEPT ![held[w].job] = at[w]]
  /\ IF RoomToPushBack(w)
     THEN local' = [local EXCEPT ![w][held[w].prio] = Append(@, held[w].job)] /\ UNCHANGED lost
     ELSE lost' = lost \cup {held[w].job} /\ UNCHANGED local
  /\ held' = [held EXCEPT ![w] = NotHeld]
  /\ Goto(w, "take")
  /\ UNCHANGED <<submitted, global, index, rest, exchange, counts, done, reached, search, job, at,
                 buffer, split, waitsFor, inProgress>>

----------------------------------------------------------------------------
(* jobFenceWait and finishAndExit on the main thread *)

Unfinished(bs) == {b \in bs \cap submitted : ~(JobsOf(b) \subseteq done)}

\* workLeft of the fence the main thread waits for.
WorkLeft == Unfinished(IF waitsFor = "frame" THEN FrameBatches ELSE Batches)

\* The frame's fence, or, when the io system is gone, allWorkDoneFence.
BeginWait(fence) ==
  /\ pc[Main] = "ready"
  /\ fence = "all" => pc[Io] = "ready" /\ submitted = Batches
  /\ waitsFor' = fence
  /\ Goto(Main, "fence")
  /\ UNCHANGED <<submitted, queues, counts, jobVars, search, job, at, buffers, inProgress, lost>>

FenceTest ==
  /\ pc[Main] = "fence"
  /\ WorkLeft # {}
  /\ Goto(Main, IF job[Main] = None THEN "exchange" ELSE "run")
  /\ prio' = IF job[Main] = None THEN [prio EXCEPT ![Main] = 0] ELSE prio
  /\ UNCHANGED <<submitted, queues, counts, jobVars, scan, job, at, buffers, mainVars>>

\* selectJobForMainThread
MainSelectFromExchange ==
  /\ pc[Main] = "exchange"
  /\ exchange' = [exchange EXCEPT ![prio[Main]] = None]
  /\ IF exchange[prio[Main]] = None
     THEN /\ scan' = [scan EXCEPT ![Main] = Workers]
          /\ Goto(Main, "stealJob")
          /\ UNCHANGED <<job, at>>
     ELSE Take(Main, exchange[prio[Main]], "fence") /\ UNCHANGED scan
  /\ UNCHANGED <<submitted, global, index, rest, local, counts, jobVars, prio,
                 buffers, mainVars>>

MainNothingFound ==
  /\ pc[Main] = "stealJob"
  /\ scan[Main] = {}
  /\ prio' = [prio EXCEPT ![Main] = @ + 1]
  /\ Goto(Main, IF prio[Main] < MainLowest THEN "exchange" ELSE "fence")
  /\ UNCHANGED <<submitted, queues, counts, jobVars, scan, job, at, buffers, mainVars>>

\* Every round begins with prepareJob, which reads the stored section again.
MainRun ==
  /\ pc[Main] = "run"
  /\ IF prio[Main] = 0 \/ section[job[Main]] + 1 >= Sections[job[Main][1]]
     THEN /\ done' = done \cup {job[Main]}
          /\ job' = [job EXCEPT ![Main] = None]
          /\ inProgress' = FALSE
          /\ UNCHANGED <<at, reached>>
     ELSE /\ at' = [at EXCEPT ![Main] = section[job[Main]] + 1]
          /\ reached' = [reached EXCEPT ![job[Main]] = section[job[Main]] + 1]
          /\ inProgress' = TRUE
          /\ UNCHANGED <<done, job>>
  /\ Goto(Main, "fence")
  /\ UNCHANGED <<submitted, queues, counts, section, search, buffers, waitsFor, lost>>

\* The fence is down.  A job that was begun is handed over, and nobody is woken;
\* one that was only selected is forgotten.
FenceDone ==
  /\ pc[Main] = "fence"
  /\ WorkLeft = {}
  /\ IF inProgress
     THEN /\ section' = [section EXCEPT ![job[Main]] = at[Main]]
          /\ exchange' = [exchange EXCEPT ![prio[Main]] = job[Main]]
     ELSE UNCHANGED <<section, exchange>>
  /\ lost' = IF inProgress THEN lost ELSE lost \cup ({job[Main]} \ {None})
  /\ job' = [job EXCEPT ![Main] = None]
  /\ inProgress' = FALSE
  /\ Goto(Main, IF waitsFor = "frame" THEN "ready" ELSE "exit")
  /\ UNCHANGED <<submitted, global, index, rest, local, counts, done, reached, search, at,
                 buffers, waitsFor>>

\* Faulty variant: the workers are told, and not woken.
AnnounceExitSilently ==
  /\ pc[Main] = "exit"
  /\ exiting' = TRUE
  /\ Goto(Main, "join")
  /\ UNCHANGED <<submitted, queues, workPresent, active, jobVars, search, job, at,
                 buffers, mainVars>>

\* finishAndExit after the fence.
AnnounceExit ==
  /\ pc[Main] = "exit"
  /\ exiting' = TRUE
  /\ workPresent' = workPresent + Cardinality(Workers)
  /\ Goto(Main, "join")
  /\ UNCHANGED <<submitted, queues, active, jobVars, search, job, at, buffers, mainVars>>

\* jobSystemDeinitialize: avThreadDestroy joins every worker.
JoinWorkers ==
  /\ pc[Main] = "join"
  /\ \A w \in Workers : pc[w] = "exited"
  /\ Goto(Main, "over")
  /\ UNCHANGED <<submitted, queues, counts, jobVars, search, job, at, buffers, mainVars>>

----------------------------------------------------------------------------

Worker(w) ==
  \/ StartThread(w) \/ SelectFromExchange(w) \/ SelectFromLocal(w) \/ SelectFromOwnBatch(w)
  \/ WakeForRemainder(w) \/ KeepRemainder(w) \/ PullGlobal(w) \/ PullGlobalDone(w)
  \/ StealBatch(w) \/ NoBatchToSteal(w) \/ StealJob(w, "run") \/ NothingFound(w)
  \/ WaitForWork(w) \/ Woken(w) \/ QueueJobs(w) \/ TakeFirst(w)
  \/ JobEnds(w) \/ JobYields(w) \/ PushBack(w)

MainWaits ==
  \/ FenceTest \/ MainSelectFromExchange \/ StealJob(Main, "fence") \/ MainNothingFound
  \/ MainRun \/ FenceDone \/ AnnounceExit \/ JoinWorkers

Over == pc[Main] = "over" /\ UNCHANGED vars

Next ==
  \/ \E w \in Workers : Worker(w)
  \/ MainWaits
  \/ \E t \in {Main, Io} : SubmitPush(t) \/ SubmitPost(t)
  \/ \E fence \in {"frame", "all"} : BeginWait(fence)
  \/ Over

Spec == Init /\ [][Next]_vars

\* Every thread that can run is run: the workers, the main thread once it
\* waits or shuts down, and a submission that was begun.
Fairness ==
  /\ \A w \in Workers : WF_vars(Worker(w))
  /\ WF_vars(MainWaits)
  /\ \A t \in {Main, Io} : WF_vars(SubmitPost(t))

FairSpec == Spec /\ Fairness

----------------------------------------------------------------------------
(* Properties *)

Points ==
  {"start", "exchange", "local", "own", "global", "wakeMore", "keep", "push", "take",
   "pushback", "stealBatch", "stealJob", "wait", "woken", "run", "exited",
   "ready", "post", "fence", "exit", "join", "over"}

\* Types of the state.  The number of active threads never leaves the range in
\* which wakeAdditionalWorkers can subtract it from threadCount.
TypeOK ==
  /\ submitted \subseteq Batches /\ done \subseteq Jobs
  /\ global \in [Priorities -> Seq(Batches)] /\ exchange \in [Priorities -> Jobs \cup {None}]
  /\ index \in [Batches -> Nat] /\ \A b \in Batches : index[b] <= Size[b]
  /\ rest \in [Workers -> [Priorities -> Batches \cup {None}]]
  /\ local \in [Workers -> [Priorities -> Seq(Jobs)]]
  /\ workPresent \in Nat /\ active \in 0 .. Cardinality(Workers) /\ exiting \in BOOLEAN
  /\ section \in [Jobs -> Nat] /\ \A j \in Jobs : section[j] < Sections[j[1]]
  /\ reached \in [Jobs -> Nat]
  /\ pc \in [Threads -> Points]
  /\ prio \in [Threads -> 0 .. Lowest + 1] /\ job \in [Threads -> Jobs \cup {None}]
  /\ at \in [Threads -> Nat] /\ scan \in [Threads -> SUBSET Workers]
  /\ buffer \in [Workers -> Seq(Jobs)] /\ \A w \in Workers : Len(buffer[w]) <= LocalSize
  /\ split \in [Workers -> Batches \cup {None}]
  /\ held \in [Workers -> [job : Jobs, prio : Priorities] \cup {NotHeld}]
  /\ waitsFor \in {"frame", "all"} /\ inProgress \in BOOLEAN /\ lost \subseteq Jobs \ done

\* The places a job can be in: the job of a thread, held or buffered by a
\* worker, queued, in the exchange, or at its end.
RunPlaces(j) == {<<"runs", t>> : t \in {t \in Threads : job[t] = j}}
HeldPlaces(j) == {<<"held", w>> : w \in {w \in Workers : held[w].job = j}}
PlacesInBuffer(j, w) == {<<"buffer", w, i>> : i \in {i \in DOMAIN buffer[w] : buffer[w][i] = j}}
BufferPlaces(j) == UNION {PlacesInBuffer(j, w) : w \in Workers}
PlacesInQueue(j, w, p) ==
  {<<"local", w, p, i>> : i \in {i \in DOMAIN local[w][p] : local[w][p][i] = j}}
LocalPlaces(j) == UNION {PlacesInQueue(j, w, p) : w \in Workers, p \in Priorities}
ExchangePlaces(j) == {<<"exchange", p>> : p \in {p \in Priorities : exchange[p] = j}}
EndPlaces(j) == IF j \in done THEN {<<"done">>} ELSE {}
Places(j) ==
  RunPlaces(j) \cup HeldPlaces(j) \cup BufferPlaces(j) \cup LocalPlaces(j)
  \cup ExchangePlaces(j) \cup EndPlaces(j)

\* No job is in the hands of two threads, or in a queue and in hand, or run
\* again after its end, however it is stolen, pushed back or handed over.
OnePlaceAtMost == TypeOK /\ \A j \in Jobs : Cardinality(Places(j)) <= 1

\* A job that was split off a batch is somewhere until it has ended, unless it
\* was let go of: by jobFenceWait, which forgets a job it has selected when the
\* fence is down, or by executeJob, which pushes a job back to a full queue
\* (jobs.c:478-481, 460).
NoJobLost == \A j \in Jobs : j[2] <= index[j[1]] => (Places(j) = {} <=> j \in lost)

\* The three error reports of jobs.c that call the scheduler's own logic wrong
\* are never reached: "workingOnBatch already set", "Logic error in job
\* counting", "Exchange still contains job".
LogicErrorsUnreachable ==
  /\ \A w \in Workers :
       /\ pc[w] = "keep" => rest[w][prio[w]] = None
       /\ pc[w] = "push" =>
            Len(buffer[w]) = 1 \/ Len(local[w][prio[w]]) < LocalSize - (Len(buffer[w]) - 1)
  /\ (pc[Main] = "fence" /\ inProgress) => exchange[prio[Main]] = None

\* A worker never runs a job while more urgent ones wait in its own queues.
OwnUrgentFirst ==
  \A w \in Workers : pc[w] = "run" =>
    \A p \in 0 .. prio[w] - 1 : local[w][p] = <<>> /\ rest[w][p] = None

\* No wakeup is lost: when every worker sleeps and no token or post is on its
\* way, no queue and no thread keeps a batch or a queued job.
NoLostWakeup ==
  (/\ \A w \in Workers : pc[w] = "wait"
   /\ workPresent = 0
   /\ pc[Main] # "post" /\ pc[Io] # "post")
  => /\ \A p \in Priorities : global[p] = <<>>
     /\ \A w \in Workers, p \in Priorities : local[w][p] = <<>> /\ rest[w][p] = None

\* A job that a worker takes from another thread, from its own queue or from
\* the exchange goes on with the section it yielded to.
ResumesWhereYielded ==
  \A w \in Workers : pc[w] = "run" => at[w] = reached[job[w]]

\* The main thread begins every round of jobFenceWait with the stored section of
\* the job it runs: a job that yields starts again for ever (jobs.c:486-498).
Restarts == <>[](inProgress /\ job[Main] # None)

\* Under fairness every batch that was submitted is run to its end, except for
\* jobs that were let go of, and those left in the exchange, for which nobody is
\* woken (jobs.c:503).
BatchesRun ==
  \/ Restarts
  \/ <>[](\A b \in submitted :
            JobsOf(b) \subseteq done \cup lost \cup {exchange[p] : p \in Priorities})

\* "All work is completed" (jobs.c:87): the shutdown of the job system returns,
\* with every job run, if no job was let go of.
ShutdownCompletes ==
  \/ Restarts
  \/ pc[Main] = "fence" /\ waitsFor = "all" ~> lost # {} \/ (pc[Main] = "over" /\ done = Jobs)

----------------------------------------------------------------------------
(* The inductive invariant behind the safety properties *)

\* What a worker has in hand at each point: a job only when it runs one, a batch
\* only until its rest is kept, split jobs until one is taken, and a held job
\* while it looks for a more urgent one.
InHand(w) ==
  /\ pc[w] \in {"start", "exchange", "local", "own", "global", "wakeMore", "keep", "push",
                "take", "pushback", "stealBatch", "stealJob", "wait", "woken", "run", "exited"}
  /\ prio[w] \in Priorities /\ (pc[w] = "start" => prio[w] = 0)
  /\ job[w] # None <=> pc[w] = "run"
  /\ split[w] # None <=> pc[w] \in {"wakeMore", "keep"}
  /\ pc[w] \in {"wakeMore", "keep", "push"} => buffer[w] # <<>>
  /\ pc[w] \in {"take", "pushback"} => Len(buffer[w]) = 1
  /\ buffer[w] # <<>> => pc[w] \in {"global", "wakeMore", "keep", "push", "take", "pushback"}
  /\ pc[w] = "pushback" => held[w] # NotHeld
  /\ held[w] # NotHeld =>
       /\ pc[w] \in {"global", "wakeMore", "keep", "push", "pushback"}
       /\ prio[w] < held[w].prio
       /\ at[w] < Sections[held[w].job[1]]
  /\ pc[w] = "run" => at[w] < Sections[job[w][1]]

\* The same for the main thread, and the io thread, which only submits.
MainInHand ==
  /\ pc[Main] \in {"ready", "post", "fence", "exchange", "stealJob", "run", "exit", "join", "over"}
  /\ prio[Main] <= MainLowest + 1
  /\ job[Main] # None => pc[Main] \in {"fence", "run"} /\ prio[Main] <= MainLowest
  /\ pc[Main] = "run" => job[Main] # None
  /\ pc[Main] \in {"exchange", "stealJob"} => prio[Main] <= MainLowest
  /\ inProgress => job[Main] # None /\ at[Main] < Sections[job[Main][1]]
  /\ pc[Io] \in {"ready", "post"} /\ job[Io] = None

\* The exchange has room for the job the main thread runs: it was empty when
\* the job was taken, and nobody else fills it.
ExchangeFree ==
  job[Main] # None \/ pc[Main] = "stealJob" => exchange[prio[Main]] = None

OwnEmpty(w, p) == local[w][p] = <<>> /\ rest[w][p] = None

\* What a worker has found empty of its own stays empty until it fills it.
Searched(w) ==
  /\ \A p \in 0 .. prio[w] - 1 : OwnEmpty(w, p)
  /\ pc[w] \in {"own", "global", "wakeMore", "keep", "push", "stealBatch", "stealJob"}
       => local[w][prio[w]] = <<>>
  /\ pc[w] \in {"global", "wakeMore", "keep", "stealBatch", "stealJob"}
       => rest[w][prio[w]] = None
  /\ pc[w] = "global" /\ held[w] # NotHeld => \A p \in 0 .. held[w].prio - 1 : OwnEmpty(w, p)
  /\ pc[w] \in {"wait", "woken", "exited"} => \A p \in Priorities : OwnEmpty(w, p)

Once(s) == \A i, k \in DOMAIN s : s[i] = s[k] => i = k

\* No queue has anything twice.
NoRepeats ==
  /\ \A p \in Priorities : Once(global[p])
  /\ \A w \in Workers : Once(buffer[w]) /\ \A p \in Priorities : Once(local[w][p])

\* Where batches are: in a global queue, kept by a worker, or just split.
GlobalOf(p) == <<"global", Main, p>>
RestOf(w, p) == <<"rest", w, p>>
SplitOf(w) == <<"split", w, 0>>
BatchSpots ==
  {GlobalOf(p) : p \in Priorities} \cup {RestOf(w, p) : w \in Workers, p \in Priorities}
  \cup {SplitOf(w) : w \in Workers}
BatchesAt(x) ==
  CASE x[1] = "global" -> Range(global[x[3]])
    [] x[1] = "rest" -> {rest[x[2]][x[3]]} \ {None}
    [] x[1] = "split" -> {split[x[2]]} \ {None}

\* A batch is in one spot at most, was submitted and has jobs left; none is split
\* before it is submitted.
BatchesApart ==
  /\ \A x, y \in BatchSpots : x # y => BatchesAt(x) \cap BatchesAt(y) = {}
  /\ \A x \in BatchSpots : \A b \in BatchesAt(x) : b \in submitted /\ index[b] < Size[b]
  /\ \A b \in Batches \ submitted : index[b] = 0

\* Where jobs are, as in Places.
RunBy(t) == <<"run", t, 0>>
HeldBy(w) == <<"held", w, 0>>
BufferOf(w) == <<"buffer", w, 0>>
LocalOf(w, p) == <<"local", w, p>>
ExchangeOf(p) == <<"exchange", Main, p>>
AtEnd == <<"done", Main, 0>>
JobSpots ==
  {RunBy(t) : t \in Threads} \cup {HeldBy(w) : w \in Workers} \cup {BufferOf(w) : w \in Workers}
  \cup {LocalOf(w, p) : w \in Workers, p \in Priorities}
  \cup {ExchangeOf(p) : p \in Priorities} \cup {AtEnd}
JobsAt(x) ==
  CASE x[1] = "run" -> {job[x[2]]} \ {None}
    [] x[1] = "held" -> {held[x[2]].job} \ {None}
    [] x[1] = "buffer" -> Range(buffer[x[2]])
    [] x[1] = "local" -> Range(local[x[2]][x[3]])
    [] x[1] = "exchange" -> {exchange[x[3]]} \ {None}
    [] x[1] = "done" -> done

\* A job is in one spot at most, was split off its batch and not let go of; one
\* that was split off is in a spot or was let go of.
JobsApart ==
  /\ \A x, y \in JobSpots : x # y => JobsAt(x) \cap JobsAt(y) = {}
  /\ \A x \in JobSpots : \A j \in JobsAt(x) : j[2] <= index[j[1]] /\ j \notin lost
  /\ \A j \in Jobs : j[2] <= index[j[1]] => j \in lost \/ \E x \in JobSpots : j \in JobsAt(x)
  /\ \A j \in lost : j[2] <= index[j[1]]

Carried(j) == (\E t \in Threads : job[t] = j) \/ (\E w \in Workers : held[w].job = j)

\* The section a job has reached is with who has it in hand, or stored.
SectionsKept ==
  /\ \A w \in Workers :
       /\ pc[w] = "run" => at[w] = reached[job[w]]
       /\ held[w] # NotHeld => at[w] = reached[held[w].job]
  /\ inProgress => at[Main] = reached[job[Main]]
  /\ \A j \in Jobs : section[j] = reached[j] \/ j \in done \cup lost \/ Carried(j)

Awake == {w \in Workers : pc[w] \notin {"start", "wait", "woken"}}

\* What is over when the system shuts down.
WorkEnds ==
  /\ waitsFor = "all" => submitted = Batches
  /\ pc[Main] \in {"exit", "join", "over"} => submitted = Batches /\ Jobs \subseteq done
  /\ exiting => pc[Main] \in {"join", "over"}

\* Worker w looks at the global queue of priority p before it sleeps.
WillLook(w, p) ==
  \/ pc[w] \in {"start", "woken", "run", "take", "push", "pushback", "wakeMore", "keep"}
  \/ pc[w] \in {"exchange", "local", "own"} /\ prio[w] <= p
  \/ pc[w] = "global" /\ (held[w] # NotHeld \/ buffer[w] # <<>> \/ prio[w] <= p)
  \/ pc[w] \in {"stealBatch", "stealJob"} /\ prio[w] < p

\* Who has queued a batch is about to post, or the token is there, or somebody
\* is up who will look.
BatchesAwaited ==
  \A p \in Priorities : global[p] # <<>> =>
    \/ workPresent > 0 \/ pc[Main] = "post" \/ pc[Io] = "post"
    \/ \E w \in Workers : WillLook(w, p)

SchedInv ==
  /\ TypeOK /\ MainInHand /\ ExchangeFree
  /\ \A w \in Workers : InHand(w) /\ Searched(w)
  /\ NoRepeats /\ BatchesApart /\ JobsApart /\ SectionsKept
  /\ active = Cardinality(Awake) /\ WorkEnds /\ BatchesAwaited
=============================================================================
