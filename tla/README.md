# A verification model of avVisualizer

avVisualizer is a small game engine in C. This directory holds TLA+ modules that
model parts of it, TLC configurations that check them on small instances, and
proofs that TLAPS checks. `PROJECT.json` lists the components, the runs, the
source lines each definition stands for and the hazards the properties are
aimed at. What the code does that a reader would not expect is collected under
"Observed behaviour".

## The system

The engine is a set of systems that `engine/src/core/engine.c` starts in order
(event, input, platform, job, io, renderer, window), drives once per frame and
takes down in the reverse order. Three kinds of threads run in it: the main
thread, one io thread, and ten workers of the job system; the log has a thread
of its own.

| component | state | operations | talks to | what is hard | what makes it correct |
|---|---|---|---|---|---|
| job queue ring (`jobQueue.c`) | head, tail, a sequence number per slot | push, pull | every thread | lock-free, counters wrap | bounded FIFO queue |
| local job queue (`jobQueue.c`) | top, bottom, cells | push, pull (owner), steal (others) | one worker and its thieves | last-job race, stale top | work-stealing deque |
| batch pool (`jobBatchPool.c`) | slots with generation, reference count, dependents; free list | allocate, pin, complete, drop | scheduler, ECS, io | handles outlive batches; dependencies complete while others are added | pins protect, a batch runs once and after its dependencies, fences count |
| scheduler (`jobs.c`) | per worker and priority: local queue, batch being split; exchange; semaphore | submit, select, run, yield, steal, wait, shut down | all of the above | interruption, hand-over to and from the main thread, sleeping | no job twice, none lost, no lost wakeup, shutdown returns |
| job instance pool (`jobs.c`) | tagged free list | allocate, free | scheduler | ABA, exhaustion | an instance has one owner |
| MPMC queue (`mpmcQueue.c`) | as the ring | push, pop | io, log | as the ring | bounded FIFO queue |
| spin lock (`spinRwLock.c`) | readers, writer | lock and unlock for reading and writing | none at present | announce/recheck | exclusion |
| io system (`ioRequests.c`) | request pool, queue, completion list | submit, process, complete, shut down | job system, main thread | untagged free list, shutdown race, failing steps | every request is answered once and its slot returned |
| event system (`event.c`) | pipelines of stages per event, batches of events | register, unregister, fire, dispatch | input, window, engine, any thread | firing during a dispatch, the flag, places of stages, events consumed between stages | no event lies unnoticed, order per id, no batch lost, stages in the order asked for |
| input (`intput.c`) | keys and buttons of this and the last frame | process, update | events | edges between frames | pressed/released are edges |
| log (`logging.c`) | bounded queue, sinks | log, flush, shut down | all | signal/wait race | messages in order, shutdown returns |
| windows (`window.c`) | id mapping of the open windows | open, request to close, close | events, engine | requests that come late, ids used again, a window that cannot be created | the engine shuts down when the last window is closed |
| ECS, entities (`ecs.c`, `ecsStaging.c`) | entity ids with generations, pool of chunks, entity types and their systems, a command buffer per thread | create, stage, apply, move, remove, create and destroy systems and scenes | job system (threads that stage) | ids used again, chunks and types that move into gaps, commands of several threads for one entity | a handle stands for what was asked of it |
| ECS, systems (`ecsQuerries.c`, `frameData.c`) | order of the systems, last reader and writer of each resource, frame data | run the systems of a frame | batch pool, scheduler | dependencies through a chain of systems, failing submissions, memory that grows | conflicting systems never overlap, frame data is placed before it is used |
| containers (`idMapping.c`, `listpool.c`, `darray.c`) | arrays with free lists | insert, remove | several | permutation invariants | ids stay unique |
| engine (`engine.c`) | running systems | start, frame, stop | all | a system that fails to start | taken down in reverse order |

Interaction in a frame: the main thread dispatches events, submits the systems
of the scene as job batches with dependencies (`sceneRunSystems`), lets the io
system report what it has finished, waits for the frame's fence
(`jobFenceWait`), helping with jobs meanwhile, and applies to the scene what the
jobs have staged (`sceneApply`). The io thread submits a batch for
a request that has a processing function. Jobs may submit batches.

## Modules

| module | models | checked by |
|---|---|---|
| `BoundedQueue` | what a bounded FIFO queue promises | `ring` |
| `JobQueueRing` | `jobQueue.c` 3-61 | `ring` |
| `JobQueueRing_proofs` | proofs about the ring | tlapm |
| `WorkDeque` | what a work-stealing deque promises | `local_queue` |
| `LocalJobQueue`, `LocalJobQueue_proofs` | `jobQueue.c` 65-137 | `local_queue`, tlapm |
| `JobBatchPool`, `JobBatchPool_proofs`, `JobBatchFences_proofs` | `jobBatchPool.c`, submission and completion in `jobs.c` | `batch_pool`, tlapm |
| `JobInstancePool` | `jobs.c` 105-182 | `instance_pool`, tlapm |
| `JobScheduler`, `JobScheduler_proofs` | `jobs.c` 15-99, 195-541 | `scheduler`, `scheduler_live`, tlapm |
| `IoSystem`, `IoSystem_proofs` | `ioRequests.c` | `io`, tlapm |
| `SpinRwLock` | `spinRwLock.c` | `rw_lock`, tlapm |
| `EventStages` | the stages of a pipeline, `event.c` 120-292 | `frame` |
| `EventSystem` | firing and dispatching, `event.c` 294-459 | `frame` |
| `EngineFrame` | `engineRun`, `window.c`, the id mapping of the windows; extends `EventSystem` | `frame` |
| `ComponentMask` | `componentMask.h` | `scene` |
| `CommandBuffer` | `ecsStaging.c` 5-345: the buffer of one thread | `scene` |
| `EntityStore` | `ecs.c`: ids, chunks, entity types, rows | `scene` |
| `Scene` | threads that stage and the main thread that applies, `ecs.c` 966-1057, `ecsStaging.c` 405-635; extends the two | `scene` |
| `SystemBatches` | `ecsQuerries.c` 114-256, `frameData.c` | `systems` |
| `Frame_proofs` | proofs about `EngineFrame` with the event system, and about `SystemBatches` | tlapm |
| `MpmcQueue` | `mpmcQueue.c` | `logger` |
| `Logger` | `logging.c`; extends `MpmcQueue` | `logger`, tlapm |
| `LockFree_proofs` | proofs about `JobInstancePool`, `SpinRwLock` and `Logger` | tlapm |
| `MC...` | constants of the instances | |

Operators whose comment says "Faulty variant" are not part of the model. Each is
a plausible bug of the definition that follows it; put in its place it breaks
the property `PROJECT.json` names under "mutants".

### JobQueueRing

One action is one access to shared memory, in the order of the code: load the
ticket, load the slot's sequence number, compare-and-swap the ticket (it may
fail spuriously, it is the weak one), access the data, store the sequence
number. The code's counters are `uint32`. The model keeps them as numbers that
do not wrap and makes every test the code makes modulo `Word` (`Diff` is the
wrapped signed difference, `SameWord` the comparison of a compare-and-swap), so
the machine is the wrapped one and the lap numbers are history. `int32`
subtraction that overflows is undefined in C; the build (gcc without
optimisation of it) computes the wrapped difference, and this is what `Diff`
does. Memory is sequentially consistent, here and in the other modules.

* `ImplementsQueue`: the ring refines `BoundedQueue`. The abstract queue holds
  one entry per ticket from head to tail; a producer that has its ticket has
  put its job, a consumer that has its ticket has taken one, and "full" and
  "empty" are answered only in states where `BoundedQueue` allows it. This is a
  theorem, too.
* `SlotExclusive`: no two threads access the contents of a slot.
* `TicketsInWindow`: at most `Size` tickets are out (a theorem, see below).

### LocalJobQueue

The same treatment of counters and accesses. `bottom` is a plain variable the
thieves read without synchronisation; on the platforms of the build an aligned
32-bit load is not torn, so it is an atomic load of the last value stored, and
the fence in the owner's pull orders the two accesses that matter. Jobs are
numbered in the order they are pushed. The parts `TakenOnce` and `NothingLost` of
`JobsConserved` say that a job leaves once and cannot be overwritten;
`ImplementsDeque` that the owner gets the newest and a thief the oldest job, and
the owner is told "empty" only when the queue is. Both are theorems.

### JobBatchPool

A thread has a stack of frames, because `dropHandle` calls `submitToMainQueue`
and `unpin`, which may call `dropHandle` again. A frame's `at` says which step
of which function is next: `pinCheck`, `pinTake`, `pinVerify` are the three
parts of `tryPin`; `drop`, `dependents`, `resolve`, `reclaim` the parts of
`dropHandle`; `addDependents`, `register` those of `allocateJobBatch` and
`addDependent`; `push` is `submitToMainQueue`; `job`, `signal`, `complete`,
`workDone` the end of a job. The free list, the queue and the split of a batch
into jobs are atomic. What `tryPin` returned is in the frame of the caller: it
is at `register` or `resolve` only after a pin that succeeded (`PinSucceeds`), and
has passed the handle over after one that failed (`PinFails`). The io thread submits without dependencies, the main
thread with or without a fence, a worker only from inside a job, with any
handles handed out before as dependencies: also those of batches that are gone.

A thread between `remainingJobs--` and `unpin` keeps the slot while another
thread completes the batch; the drop is then left to the first one, and may
happen when `allWorkDoneFence` is down already. This is harmless because the
workers are joined before the pool is taken down, and it is why `DoneMeansDone`, a
part of `FenceCounts`, does not speak of drops.

A submission that finds no slot has attached the fence already, and nothing
takes that back. `FenceCounts` says exactly this: the fence counts the batches
that are not dropped and, for ever, the submissions that failed. The same goes
for `allWorkDoneFence` when the failed submission had dependencies;
`EventuallyIdle` is stated with both leaks. The program that leaks one waits for
ever; the instance makes this happen (`MayExhaust`) to see that nothing else is
lost with it.

### JobInstancePool

The slots of the pool are a union: while a slot is free it holds the link to the
next free slot, while it is in use the job's instance. `content` is that union.
`AllocateReadLink` reads the link of a slot that may be in use by then; what it
gets is part of an instance, so the model lets it be any link. That this does no
harm is due to the tag that every successful compare-and-swap increments; without
it (`AllocateSwapUntagged`) `OneOwner` fails. `height` is a history variable, the
place of a slot in the list. The code compares the whole head with `JOB_NONE`,
so an empty list is noticed only while the tag is 0; the model has the test as
it is, and a thread that passes it in vain stops (`beyondPool`). The free list of `jobBatchPool.c` (66-101) is the same algorithm without
the union, which is why `JobBatchPool` takes it as atomic.

### JobScheduler

The scan of `selectJob` is one step per source (exchange, own local queue, own
batch, global queue, batches and jobs of the others) and priority; so are the
scan of `tryGetHigherPriorityJob` after a yield and that of
`selectJobForMainThread`. Between any two of these steps other threads run. A
batch that was pulled is in nobody's reach until its remainder is kept
(`KeepRemainder`) and its jobs are queued (`QueueJobs`), and the workers are
woken in the code's order. `submitToMainQueue` is two steps, `SubmitPush` and
`SubmitPost`. A job is at a section; at the highest priority it is never told to
yield, at the others it yields after every section but the last
(`JOB_SECTION`). The history variable `reached` is the section a job yielded to
last. `jobFenceWait` is the loop `FenceTest`, selection, `MainRun`, and its end
`FenceDone`.

The history variable `lost` has the jobs the code lets go of: `FenceDone` forgets
a job that was selected and not begun when the fence comes down, and `PushBack`
gives up a job that came from the exchange when the local queue is full.
`NoJobLost` says that a job that was split off is in no place if and only if it
is in `lost`. The liveness properties have three exceptions, each of which the
instance reaches and none of which can be left out: the main thread restarts a
job for ever (`Restarts`), a job was lost, a job lies in the exchange and nobody
is woken for it.

Not in this module: batches that jobs submit (they take the same path through
`submitToMainQueue`) and dependencies (module `JobBatchPool`); stealing visits
the others in any order instead of beginning at `stealIndex`.

### IoSystem

The main thread submits (`Submit`), delivers answers in every frame (`Update`)
and shuts down (`Shutdown`); it may submit while an answer is being delivered.
The io thread takes a request off the queue, does the file access, which is its
outcome here, and completes the request, frees it, or hands it to a job
(`HandOver`) that a worker runs (`RunProcess`). `submitComplete` is its three
accesses `Reserve`, `Enter`, `Publish`, `getNextComplete` is `TakeEntry` and
`Deliver`. `log` is history: for every accepted request whether an answer is
wanted, whose function processes it, the outcome of its last step, and the answers
given.

What can go wrong on the way is modelled: a submission that is refused or has an
invalid flag keeps its slot (`SubmitRefused`, `SubmitInvalid`); a `read()` that fails is
repeated, for ever if it goes on failing (`ReadErs`, `ioRequests.c:340` tests the wrong
variable); the job system has no room for the job (`HandOverFails`) or loses it (`JobLost`,
which the scheduler's module shows to happen); a write runs the function that a read
has left in its slot, and the request is completed although it has no `onComplete`
(`CallNull`). `leaked` has the slots that nobody will free.

* `OneOwner`: every slot is in one place, and in one only; what was leaked is not
  used again.
* `OwnAnswer`: a request is answered at most once, only if it asked for it, and with
  the result of its own last step. That step is a processing function's only if the
  request has one or is a write in a slot where a read has left one, and only such a
  request comes to a call of NULL.
* `EntriesKept`: no entry of the completion list is written over, and a woken thread
  finds a request.
* `RequestsAnswered`, `ShutdownReturns`: if every read ends (`ReadsEnd`), every request that
  wants an answer gets it, unless the system stops, its job is lost or NULL is called;
  and a shutdown that has begun returns, with an empty queue.

Limits of this module:

* One thread submits, as in the code of `src/`. The free list has no tag: with one allocating thread the
  head cannot come back while that thread holds its link, with two it can. With
  two producers the queue may also look empty to a woken io thread, which then
  goes on with an index it never set (`undefinedIndex`).
* The buffers of the reads are left out, and with them `useFallback`, `size` and `offset`, which
  a write leaves in the slot or takes from it as it does `process`.
* A queue of atomic operations refuses a push only when it is full, which it never is; the ring may
  refuse while a pop is under way, so `SubmitRefused` is enabled just then.
* Jobs that process a request may still run when the shutdown has returned,
  because the io system stops before the job system; the module lets them, and
  states nothing of what they touch.

### SpinRwLock

One action is one atomic access; a spinning loop is the wait for its condition.
The model is sequentially consistent, while the code asks for acquire and
release only. On the targets of the build every read-modify-write is a full
fence, which is what the reader's count-then-look needs.

### EventStages, EventSystem, EngineFrame

`EventStages` has the functions of `event.c` that work on one pipeline: where a
target is in the calling order, how a stage is inserted there, and how one is
removed. `stages` stands for the memory of the array: a removal shortens the array
and clears nothing, and the calling order may go on naming what lies beyond it.

`EventSystem` has the threads. Firing is `FireBegin` (up to the read lock),
`Write` (the section under the pipeline's mutex, or a refusal) and `Mark` (raise
the flag, unlock). The main thread fires in one step, `MainFires`: it is the only
reader of the flag. What a stage fires it fires during its call; the model puts
these events on `todo`, and the main thread does nothing else before they are
fired. `DispatchTest` reads the flag without the lock, `Collect` is the section
under the write lock, `CallStage` one call with the loop that follows it
(`Sift`), `Reroute` the end of `dispatchEvents`. A write lock is taken within
one action, so it is enabled when no reader holds the lock; how the lock gets
there is not part of the module. A free batch's contents are dropped from the
state, because the code overwrites them and never reads them again. The links of
the free list are another matter: `slots` is the shorter array of the union, so all of it lies
over the events of batch 0 (`eventUnder`), which is the last one to be handed out. `exhausted` is
history, whether there was once no free batch; `overlaid` whether an event of
batch 0 and a link have come to lie over each other. What memory then holds is not
modelled: the system stops there.

`EngineFrame` extends it with who fires, registers and is called: the window
system and its two stages, the engine's two stages, an application with sinks of
its own that consume, pass events to other pipelines, and are registered and removed
by any thread, the platform, and the loop of `engineRun`. The frame's jobs, io and
scenes are the step `frame`, in which the application may act, and from which, as
from the joining of the threads, the main thread need not come back (`MainStuck`): the modules of
the io system, the scheduler, the batch pool and the systems show when.

* `NoEventForgotten`: an event in a batch is announced by the flag, or its
  writer is about to raise it, though the flag is lowered by another thread.
* `EventsInOrder`: for each id the events that were taken and not yet handed to
  a stage are, without a gap, those copied out and then those in the batch. The
  history variables `written` and `handed` count them; an overwriting writer
  replaces the last event of a full batch, and takes over its number.
* `BatchesConserved`: a batch is free or belongs to one pipeline with events; and
  batch 0 stays free, and nothing is written over, as long as the pool was not used
  up once.
* `SinksPlaced`: a sink is called once, in the place it asked for in relation to
  its targets, whoever registers or is removed later, and a removed one is not
  called. `placed` has what was asked, of a registration between two targets both of its halves.
  There are two exceptions. Such a registration puts the sink right after the target
  `after` (`event.c:278-289`), so that it comes behind the target `before` as well unless that one is the
  next one behind `after`, although `event.h:83` says "inbetween the two targets"; the history
  `behind` has these, and the property says that they do stand behind. Two sinks that share an id are excepted: the id of a sink is the number
  of sinks there were (`event.c:235`), so that after a removal the next sink may
  take the id, and with it the place in `stages`, of one that is still there. It
  is then called twice and the other one never. The history `confused` collects
  such sinks, and the property says that there are none before a removal.
* `LastWindowQuits`: once the last window is closed the engine goes down. It
  takes four events, each fired by the stage of the one before. Excepted are
  behaviours in which `registerEventSinkBetween` did not find a target: it returns
  with the write lock (`lockKept`), after which nobody fires or dispatches; in which
  there was no batch for an event of the chain or an application's sink in front of
  `engineOnEvent` consumed nothing, which hides the event from it (`hidden`, `event.c:399`);
  in which the pool was written over; in which the engine's sink was removed
  (`ChainUnbroken`: what the application takes away is its own affair); and in which
  the main thread waits for ever elsewhere.

### CommandBuffer, EntityStore, Scene

The ECS is changed by one thread at a time: each thread has a command buffer of
its own, and the main thread changes the scene between frames. A buffer and a
scene are therefore records, and every function of the C files is an operator on
them; `Scene` has the actions.

A buffer counts memory in commands. A block of class `k` holds `2^k` of them, a
free list is the sequence its links run through. The lists of commands are kept
as sequences, in the order in which they lie in their blocks. The binary search
is the code's, with the unsigned wrap: it reads outside of the list when the
entity is below the first command (`OutOfList`). Constructor arguments
(`dataBlobStore`) and the fast cache, which nothing fills, are left out.

A scene keeps the arrays of the code: the table of ids with generations and the
staged bit, the pool of chunks with `chunkIndex` and `chunkReference`, the entity
types with their own pair of index arrays. A pointer to a chunk or a type is its
index in the array, which stays what it is when the array is compacted, so stale
pointers within an application are what they are in C. The data of a component in
a row is the entity it was constructed for. Constructors and destructors of the
application are called and change nothing else; `performDestructorMasked`
changes no state of the ECS and is left out.

In several places the code loses track of an entity. The model does what the code
does up to there, puts the reason in `scene.fault` and stops: what follows works
on the wrong memory. `SceneFaithful` and the rest hold in every state before.

| fault | code |
|---|---|
| search beyond the list | `ecsStaging.c:189-193`, an entity below the first of a long list |
| entity not found | `ecs.c:219`, the index is compared with the number of entities; `ecs.c:617` for the last of a chunk |
| commands dropped | `ecsStaging.c:576`, one unknown entity ends the application |
| entity has no chunk | `ecsStaging.c:602`, a freed handle whose slot was not used again |
| moved within the chunk | `ecs.c:686`, a destruction or a change that leaves the components the same |
| chunk moved | `ecs.c:198-201`, the chunk id is used as an index |
| chunk unlisted | `ecs.c:378`, the list of a type loses its last chunk, not the destroyed one |
| pool full | `ecs.c:169`, NULL is the id of a chunk in use |
| rows of other components swapped | `ecs.c:650-657`, arrays are taken by position, not by component |
| constructor skipped | `ecs.c:803`, the local id is compared with the number of rows (needs chunks of three; not in the instance) |

`asked` and `wanted` are history: what was staged since the last application and
what the callers are entitled to find.

* `BuffersSound`: the blocks of a buffer tile its memory, lists fit and are
  sorted, and the buffers hold what was asked for.
* `IdsCounted`: the number of entities is that of the slots in use, and no two
  live handles share one.
* `PoolsConsistent`: ids of chunks and types lead to where they were moved and
  back, every chunk is in the list of the type it names, types and systems are
  linked both ways exactly when the system selects the type.
* `SceneFaithful`: every handle stands for what was asked of it, no row is taken
  for anyone else, and destroying the scene returns every chunk.

Entities and systems are made before the first command of a frame, because making
them and staging have no state in common. Two threads that ask for their first
command buffer at the same time race in `idMapping.c`; the model makes this one
step.

### SystemBatches

One action per system that `sceneRunSystems` scans: `Dispatch` collects its
dependencies, places the frame data it writes and submits the batch, which may
fail. Batches start when those they are stored with are done and finish in any order,
also while later systems are scanned; that the job system does this is what
`JobBatchPool` and `JobScheduler` are about. What those modules show to go wrong is here too,
one step each: a batch is not stored with one that has `MaxDependents` dependents
already (`awaited`, `jobBatchPool.c:323`), a full queue refuses it (`RefuseBatch`, `jobs.c:599`), and
one of its jobs is lost, stays in the exchange or is started over and over
(`HangBatch`). Which systems have chunks is chosen
anew in each frame. Between frames the application may destroy systems and set
the order.

* `AccessesOrdered`: of two systems that conflict over a component or frame data
  the later one does not start before the earlier one is done. Three gaps of the
  code are the exceptions: a reader that another reader has hidden from the next
  writer (`overlooked`, only the last reader is remembered), a chain one of
  whose systems could not be submitted (`brokenBetween`), and one in which a batch
  has a dependent too many for the next one to be held up (`crowdedBetween`).
* `FrameDataPlaced`: blocks are aligned, disjoint, inside the memory, and there
  before a batch starts that writes them or reads what was written in this frame.
* `FramesEnd`: a frame ends, or it is held up by a batch that was not submitted, was
  refused or hangs, and only what depends on such a batch is left (`heldUp`): no batch waits
  for itself, for a later one or in a circle.

`frameDataResize` is left out: it refuses data of capacity 0, which is what the
code calls resizable, and never grows other data.

### MpmcQueue, Logger

The queue is the algorithm of the ring. Its tests are one step with the swap that
follows, as `JobQueueRing` and the proof of its `AnswersHold` justify; the
ticket, the copy and the release remain apart. `Logger` has one action per step of
`logInternal`, `logThreadMain` and `avLogShutdown`. The mutex protects nothing
but the condition variable, so `running` is written and the queue looked at
outside of it. A queue has two slots or more (`QueueSizeAssumption`): `mpmcInit`
takes any power of two, the engine asks for 4096 (`engine.c:55`), and with a
single slot the next ticket would find the published message's number its own and
write over it.

* `LogFaithful`: the sinks get the accepted messages once and in order, and at
  the end all that were pushed when the first shutdown began, up to the first push
  that was not finished. What is logged after that is promised nothing.
* `LogFlows`: they get all of them and the shutdown returns, unless a signal
  came after the log thread's last look and before its wait (`overtaken`), after
  which it may sleep for ever.

Levels, formatting and sinks are left out.

## Runs

| run | instance | distinct states | shows |
|---|---|---|---|
| `ring` | 3 threads, 2 slots, 5 tickets, 2 jobs, word 16, start 14 | 182,254 | full, empty, stale tickets, wrap after two tickets; the ring implements `BoundedQueue` |
| `local_queue` | owner, 2 thieves, 4 cells, 5 jobs, word 32, start 30 | 275,000 | last-job race, batches, wrap; the queue implements `WorkDeque` |
| `batch_pool` | main, io, 1 worker; 2 slots, 3 batches of 1 or 2 jobs, 2 dependencies | 270,523 | slots are reused while old handles are about; failed submissions lose no slot; batches are run, fences come down |
| `scheduler` | 2 workers, local queues of 2, a batch of 3 jobs of 2 sections, an urgent one of 1 | 2,070,523 | two priorities; yields, push back, steals, sleep, exit; no wakeup is lost. The exchange is searched but never filled here |
| `scheduler_live` | 1 worker, local queue of 2, a batch of 4 jobs of 3 sections, two urgent ones | 816,842 | the exchange is filled; what is lost and when; urgent jobs first; all else is run and the shutdown returns |
| `instance_pool` | 3 threads, 4 slots, 2 batches, 4 swaps of the head | 478,506 | the head comes back while a thread holds it |
| `rw_lock` | 4 threads | 4,636 | readers and writers at once, retreat, a writer gets in |
| `io` | main, 1 io thread, 1 worker, 2 slots, 3 requests of 3 kinds | 429,617 | requests are answered once, slots are reused and leaked, reads fail, jobs are lost, functions left over are run, shutdown at any time |
| `frame` | main thread, a job; pool of 2 batches of 2 events, a link over each event; five scenarios: up to 2 windows, 4 sinks of an application, 2 removals, 2 rounds of events from outside | 404,639 | full batches, a pool that is used up and written over, a sink in front of the engine's, refusals, overwriting, firing between flag and write, late requests, sinks registered and removed during a dispatch, shutdown |
| `scene` | 2 threads, 3 entities, 2 components, 1 system, chunks of 2, pool of 3 | 619,130 | staged commands of two threads, chunks and types that come, move and go |
| `systems` | 3 systems of 7 kinds over 1 component and 3 frame data, 1 dependent, 2 frames, 1 batch that fails, is refused or hangs | 441,264 | order of conflicting systems, placement, end of the frame or what holds it up |
| `logger` | 2 threads, 4 messages, queue of 2, 1 assertion | 127,946 | full queue, dropped messages, sleep and signal, both kinds of shutdown |
Why the bounds are enough. The ring's behaviour depends on the lap of a slot
relative to head and tail; two slots and five tickets give every slot three
laps, three threads give a producer, a consumer and a stale one. Two slots and
three batches are the least with which a slot is reused while two handles to it
exist. A local queue of two with a batch of three has a remainder, a queued job
and a running one. Both runs of the scheduler have two priorities, one that is never
interrupted and one that is, and the main thread helps with both; that there
are lower ones it does not help with is left to the proofs, which are for any number. Run
`scheduler` never fills the exchange: that no job in it is in a second place, runs into the error
reports or loses its section rests on the theorems `JobsStayInOnePlace`, `NoLogicErrors`
and `JobsResume`. In `scheduler_live` a batch of four jobs of three
sections meets a local queue of two: jobs are pushed back without room, handed
over through the exchange, selected when the fence comes down and restarted.

Four job slots and four swaps let a slot be taken, given back and taken again
while a third thread sleeps on the old head. Two request slots and three requests
have a slot used by two requests while the other is at any stage of its life,
and the two entries of the completion list wrap. The three kinds are a read that is
processed and writes with and without an `onComplete`, which may find its function.

Two events from outside fill a batch of two, which makes the third a refusal or an
overwrite; two windows are the least with which destroying one is not destroying
the last, and with two sinks one is placed in relation to the other. A place between
two sinks that is refused for their order takes three that are there, hence the
four. Two batches for six ids are used up by the chain of the windows and a key, and with
one link over each event (in the program four, 512 links over 128 events) the two links lie over
the two events of batch 0. All at once would be too much: `Bounds` is a set of limits, and a behaviour
begins by choosing those it keeps to; many sinks come without windows and events
from outside, a sink in front of `engineOnEvent` comes with one window. `MaxHops` is 0, so that an event rerouted once is one that came around too often.

Three entities, two components, chunks of two rows and a pool of three chunks
make chunks and types that are created, emptied and moved into gaps while another
entity is in them; one, three and one command before three applications let one
application meet additions, removals and destructions of the same entity by two
threads, and the next one what they left. `LinearLimit` is 1 instead of 8, which
takes the binary search to lists of two and three. `Stride` only keeps generations
and indices apart, and no slot is used 128 times. Three systems of seven kinds are
every chain of a reader or writer before, between and after; room for one dependent instead of
eight makes the second one of a batch one too many, and a failure in each behaviour meets
every place of the chain; two frames let the
second one find the memory of the first. Two slots and four messages give every
slot of the logger's queue two laps and fill it.

Fairness. The operating system runs every thread that is ready, so a call that
has begun goes on (`WF` per thread).
Nobody is obliged to submit, and the main thread is not obliged to help outside
`jobFenceWait`. The main thread delivers answers in every frame until it shuts
down, whatever else it does in between (`SF` on `TakeEntry`). A `read()` need not succeed ever:
no fairness is asked of an io thread that reads again, and the liveness of the
io system is stated under `ReadsEnd`. A job of the io system that is not lost is run (a worker that has nothing
else to do takes it); the loss is an action. In `EngineFrame` the main thread goes on, but any wait for
another system may be the last thing it does (`MainStuck`). A thread that waits for the semaphore is only assumed to go on
if the semaphore stays positive. In `SystemBatches` the scan of the systems goes
on, and while batches may run something becomes of one of them: it starts, ends, is refused or
hangs, of which nothing is asked in what order. A batch that hangs or was refused stays so. In `Logger` every thread that logs goes on and so does the log thread;
nothing wakes it for no reason.

Deadlock is checked in every run but `io`, `frame`, `scene`, `systems` and
`logger`, where the system stops when it is shut down or its bounds are used up,
and liveness says what must have happened by then. The pool, the scheduler and the queues have a
final state in which the program has nothing to do; it is allowed by an explicit
step (`Rest`, `Over`) with a guard that says so, or does not arise because
callers may always call again.

## Observed behaviour

What the models and the reading they took have shown, and how it is reflected.
Where a property has an exception, the exception is the behaviour named here, and
TLC finds the property violated without it.

In properties, as exceptions or as faults:

* Jobs: `jobs.c:460` relies on room in "the queue the job came from", but a job
  from the exchange has no such place; `jobs.c:478` drops a selected job when the
  fence is down, after which the shutdown waits for ever; `jobs.c:490` begins
  every round with the stored section; `jobs.c:503` wakes nobody for the exchange
  (`NoJobLost`, `BatchesRun`, `ShutdownCompletes`).
* Batch pool: a failed submission leaves the fence up (`FenceCounts`).
* Io: a `read()` that fails is repeated for ever, because `ioRequests.c:340` tests the bytes
  that are left (`RequestsAnswered`, `ShutdownReturns`); a submission that is refused
  (`ioRequests.c:430`) or has no valid flag (`:475`), and a processing job that the job system
  loses, keep their slot (`leaked` in `OneOwner`); a write runs the processing function that a read has left in
  its slot (`ioRequests.c:396`), and what was processed is completed though `onComplete` may be
  NULL (`:490`), both in `OwnAnswer`.
* Events: a sink takes the id of another one after a removal, and
  `registerEventSinkBetween`, which `event.h:83` says to place a sink "somewhere inbetween the two
  targets", places it behind both unless they are neighbours in the order `after`, `before`, and
  refuses when `after` is two or more places in front of `before` (`SinksPlaced`); a
  registration returns with the lock, and a sink in front of `engineOnEvent` that consumes nothing hides
  the event that quits (`LastWindowQuits`); once there was no free batch, batch 0 is handed out and the
  links of the free list are written over its events (`BatchesConserved`).
* ECS: the table of faults above (`SceneFaithful`), the forgotten readers, the
  broken chain and the ninth dependent of a batch, which is counted and not stored
  (`jobBatchPool.c:323`; `AccessesOrdered`), the batches that a full queue refuses or that lose a
  job and stay on their fence (`FramesEnd`).
* Log: the lost wakeup, at which also the shutdown's join hangs, and the messages
  behind an unfinished push (`LogFlows`, `LogFaithful`).

In the model, without a property:

* `event.c:393` says that consumed events are removed between two stages; the
  loop at 399 keeps the consumed ones and drops the others, so the first stage
  that consumes nothing hides the events from the stages after it. `Sift` is what
  the code does. `engineOnResized` is such a stage. Of the chain that quits
  `LastWindowQuits` speaks; of other events no property does.
* `window.c:123` removes the id of a window that could not be created from the
  wrong variable (`broken` in `EngineFrame`). A late request to close meets the
  window that has the id by then.
* `jobs.c:147`: an empty pool of instances is noticed only while the tag is 0
  (`beyondPool`).
* `ecsQuerries.c:224`: an id of a destroyed system in the order ends the frame's
  systems before the first.

Outside of the models:

* ECS: constructor data is stored by count and looked up by component
  (`ecsStaging.c:490`, `ecs.c:815`); destructors and `entityGetComponent` take the
  local id for the row (`ecs.c:772`, `1031`); `dataBlobStore` doubles once,
  however large the data (`ecsStaging.c:284`); handles keep seven bits of
  generation and comparisons six (`ecsInternal.h:42`); `createChunk` clears one
  row (`ecs.c:339`); `sceneDestroy` removes from the mapping it walks
  (`ecs.c:560`).
* Systems: the memory for frame data may move while batches of this frame hold
  pointers into it (`ecsQuerries.c:175`); `registerFrameData` makes room for one
  descriptor (`frameData.c:18`).
* Io: a write keeps `useFallback` of the request before it in the slot; the memory is freed while
  processing jobs may still complete (`ioRequests.c:247`).
* Log: messages without room are dropped silently; two asserting threads shut
  down at once; level and assert level of the configuration are not read.
* Engine: `setScene` replaces a pending scene without destroying it
  (`engine.c:275`), and the frame replaces the current one (`engine.c:194`); a
  failed start takes the same system down each time (`engine.c:128`).
* List pool: a block of four bytes holds a link of eight (`listpool.c`).

## Proofs

The theorems hold for every value of the constants that satisfies the named
assumptions of the modules; TLC evaluates these on every run. Each proof has the
same shape: an inductive invariant, stated in the component's module next to the
properties it is for (`WaitInv` of the batch pool with its proof) and checked by TLC,
holds initially and is kept by every action, and implies the property. "Not inductive" below means
that there are states, unreachable ones, that satisfy the property and from which
a step breaks it.

### The ring

`JobQueueRing_proofs`, for every set of threads and jobs, ring size, word size and
bound on pushes: `RingInv` is an invariant, and with it `TypeOK`, `SlotExclusive`
and `TicketsInWindow`; and the ring implements `BoundedQueue`
(`ImplementsQueue`). The assumptions: the size is at least two and divides the
word, the word is even and more than twice what a behaviour can count.

`SlotExclusive` is not inductive. `RingInv` adds where the sequence number of
every slot can be for the next ticket of that slot (`SlotStates`), that a thread
between reservation and release has a ticket of its own and its slot shows that
(`TicketOwners`), that what a thread read about a slot still holds if its
compare-and-swap succeeds (`AnswersHold`), and that published slots hold real jobs
(`PublishedJobs`). All counters are within one window of the word
(`CountersInWindow`), so no test is confused by the wrap; the lemmas about remainders turn
`Slot(p) = Slot(q)` for tickets of one window into `p = q`, and the wrapped tests
into plain ones.

The refinement needs two parts more. A ticket that is not published has a producer
at work and a slot that is not released a consumer (`TicketsServed`): a push that
is refused has looked at the slot of the tail (a slot looked at late has moved on,
`StaleSlot`), which either holds the job of the lap before, so that the queue is
full, or waits for a consumer that has not returned. A thread holds a job only in a push or
at the end of a pull (`HandsEmpty`). A step maps to a step of the abstract queue
when it reserves a ticket, begins, returns or is refused, and to none otherwise,
because no step changes what a ticket that is out stands for (`TicketsKept`).

### The local queue

`LocalJobQueue_proofs`, for every number of thieves, cells and jobs: `DequeInv`, with
it `JobsConserved`, and `ImplementsDeque`, the refinement of `WorkDeque`.
`JobsConserved` is not inductive: it does not say that the job a thief has read is the
one it will be given. `StealsHold` does, as long as `top` has not moved; `LiveJobs` says
that the cells from `top` to `End` hold each job that is to be taken once, and
that what the owner is about to publish lies behind them; `CountersInWindow` how
`top` and `bottom` lie to each other at each point of the owner, among them the
three where `bottom` is one below `top`; `PointsOwned` who is where.

### The batch pool

`JobBatchPool_proofs` and, of the fences, `JobBatchFences_proofs`, for every number of
slots, workers, batches and dependencies: `PoolInv`, with it `PinProtects` and `SlotsConserved`; `WaitInv`, with it
`DependenciesFirst`; and `FenceInv` and `WorkInv`, with them `FenceCounts`. The reference count of a slot
is that of the calls on the stacks that have a reference to give back, and one for
the batch's birth until its last job is done (`RefsCounted`); a pin is
tried on top of the call that asks for it and for its next handle (`CallsFit`),
which is why a pin that succeeds counts for the caller from there on; a pin that
succeeded has seen the generation while it had a reference (`PinsHold`), and a
generation only changes when a slot without references is taken out of the free
list; a slot is referenced, dropped by one call, or listed once (`SlotsPlaced`).
The theorems hold although nothing is assumed about the handles a caller passes.

`WaitInv` is the invariant behind `DependenciesFirst`, which looks at two batches of
the history while what decides is in between: a count of dependencies, lists in
other slots, and loops that are under way. Its parts: a batch waits for its own
submission, and for every slot whose list has it or whose list a call is going
through (`Holds`), and `dependencyCount` counts just these, so that the last of them
to go is the one that pushes it (`WaitsCounted`); a dependency that is not done has
the batch on its list, or the batch is still to register there
(`DependenciesTracked`); no list has a handle twice, none that is registered is to
be registered again (`ListsInOrder`); what waits was not pushed, and what runs was
(`WaitersUnpushed`, `RunnersPushed`), so a batch that waits keeps its slot
(`BatchesPlaced`). That an update of the count hits the batch it is meant for is
`PinsHold` again, or the birth reference of a batch that waits. Steps are told apart by what
they do to the calls that play a part in this (`Recast`, `Coarse`); most play none.

The hypothesis is `DependentsFit`, that no batch has more dependents than
`JOB_MAX_DEPENDENTS`: `DependenciesEndFirst` is `Spec /\ []DependentsFit =>
[]DependenciesFirst`. It is needed: a dependent too many is counted and not kept
(`jobBatchPool.c:323`), and then nothing waits for its dependency. In the run `batch_pool` every
behaviour meets it, because the pool has no more slots than a batch has places; in the engine's it is
something callers have to see to. What a frame of the ECS is left with when they do not is
the subject of `SystemBatches`.

`FenceCounts` has three parts. For `WorkCounted`, what the fence of the main thread
counts, `FenceInv` is enough: the fence is the number of slots with a fence that are
neither listed nor past the step that takes it down, and `Leaked`. This needs no
hypothesis (`FenceOfMainCounts`), because `dropHandle` takes the fence down in the one
call that drops the slot (`SlotsPlaced`), and gives a slot back without a fence that
counts. For `DoneMeansDone` and the types, `WorkInv`: the jobs of a batch that are
not done are those not started and those on some stack (`JobsCounted`), so the
batch of a job that runs has its slot and is not done; `allWorkDoneFence` is
`WorkLeaked`, the batches that are not done, and those that are and have not said
so (`WorkPending`); there is a batch of the history for every generation of a slot
(`GenerationsIssued`), which is what bounds the generations; and all that is passed on
as a handle is one (`HandlesPassed`), for which the loop of `dropHandle` must not
read beyond what was stored.

The two hypotheses of `FencesCount` are the two capacities: `DependentsFit`, and
`PushesFit`, that no push finds the queue full. The second is needed, too:
`submitToMainQueue` then takes the batch off `allWorkDoneFence` and lets it lie
(`jobs.c:599`), and `finishAndExit` leaves with work undone. The engine's pool has
as many slots as the queues of all priorities have places together
(`jobsInternal.h:19`, `:22`), but each priority has a ring of its own, so the code
does not rule this out. The run `batch_pool` meets both.

### The scheduler

`JobScheduler_proofs`, for every finite set of workers and every number, size and
priority of batches and sections: `SchedInv`, and with it all six safety properties
of the two runs. The parts:

* `InHand`, `MainInHand`: what a thread has in hand at each of its points, and which
  priority it looks at.
* `BatchesApart`, `JobsApart`, `NoRepeats`: a batch with jobs left is in one spot, a
  job that was split off is in one spot or was let go of, and no queue has
  anything twice (`OnePlaceAtMost`, `NoJobLost`). A spot is a queue or a thread's
  hand; a job moves from one to another, and this is disjointness, not a count.
* `ExchangeFree`, `Searched`: what was found empty stays so until its owner fills it;
  this makes the asserts of the code hold (`LogicErrorsUnreachable`) and an
  urgent job of a worker's own come first (`OwnUrgentFirst`).
* `SectionsKept`: the section a job yielded at is in its record, or with the thread
  that runs it (`ResumesWhereYielded`).
* `active = Cardinality(Awake)`, `BatchesAwaited`: who has queued a batch has posted or
  is about to, or somebody is up who looks at that queue before he sleeps. A worker
  that finds the token is the one that looks, or one that will (`NoLostWakeup`).
* `WorkEnds`: who shuts down has waited for everything.

### The io system

`IoSystem_proofs`, for every finite set of io threads, every set of workers and
every number of slots and requests: `IoInv`, with it `OneOwner` and `EntriesKept`; and
`AnswerInv`, with it `OwnAnswer`. The argument for the first two:

* `LinksHold`: a link that was read or written is the one the list needs when the
  compare-and-swap succeeds. Only the main thread takes slots out, so the head
  that it read stays in the list, with its link, until its own swap. This is where
  a second submitting thread would break the proof, as it breaks the code.
* `SlotsPlaced`: a slot is in the free list, in a thread's hand, in the queue, with a
  job, in the completion list or being answered, and in one of them only. Every
  action moves one slot from one place to another or none (`MovesSlot`), from which
  one lemma (`SlotMoves`) gets the invariant for all of them. `OneOwner` counts where
  this says disjoint; that the two are the same is a lemma.
* `EntriesReserved`: the entries in use are those between `completeTail` and
  `completeHead`, at most a lap. That there is room for one more at `Reserve` is a
  pigeonhole argument: a full list would hold all slots, but the thread has one.
* `TokensMatch`: there is a token, or a thread that took one, for every request in
  the queue, so a woken io thread finds one or the system stops, and `index` is set
  (`undefinedIndex` is not reached).

`OwnAnswer` (theorem `AnswersAreOwn`) needs nothing of the callers: that a write runs the function
the read before it has left, and that a request without `onComplete` is completed after that, are
part of what it says. `RequestsKept` is the rest of its invariant:
a request under way has its own record in the log, which says truly whether its slot has a
function and whose, has no answer yet, and the outcome of its last step; and it is
completed only if it wants to be, or has been processed. A read that fails and fails again is
one more point of the thread (`reading`), at which nothing moves.

### The event system

In `Frame_proofs`, for every finite set of ids and of threads, every batch size, number
of windows and size of the pool, be it used up or not: `NoEventForgotten`,
`EventsInOrder`, `BatchesConserved` and `SinksPlaced`. The inductive invariant is in the proofs' module, because it is about the event
system alone; it does not say who fires, registers or is called. None of the four is inductive.

* `PipelinesKnown`, `BatchesPlaced`: a pipeline has a batch exactly while it has
  events, no two have the same, and a batch that no pipeline has is in the free list,
  once. Until there was once no free batch, batch 0 is the last of that list: batches are
  taken from its front and given back there. So no pipeline has it, and no link lies over
  an event. When the list was empty batch 0 may be anywhere; what is proved of it from
  then on is what is proved of every batch.
* `BufferKept`: what a dispatch has taken out is of one pipeline each; what no stage has
  seen yet is not empty and numbered from `handed` on.
* `NumbersKept`: `written` is `handed`, and what was copied out, and what is in the batch, so
  the numbers follow on without a gap. An overwriting writer takes the number of
  the event it replaces.
* `pointsKnown`: whoever is between `FireBegin` and `Mark` holds the read lock, so
  `Collect` finds no event that is written and not yet announced. That is
  the argument for `NoEventForgotten`: the flag is lowered in the section that empties
  every pipeline. That the section finds each of them, once, is `PendingAll`.

`BatchesConserved` is about cardinalities, and its types are about what is passed
around, so it needs one invariant of the windows, too, `WindowInv`: the mapping gives out
each id once (`WindowInvariant`). The sequential loops of the code, over the
events of a batch (`sifted`) and over the windows to be destroyed (`Destroy`), are
recursive functions; that these exist, and what they keep, is proved by induction on
the set of numbers that would fail, of which a least one is taken (`LeastNumber`).

`SinksPlaced` has an invariant of its own, `SinkInv`, and one assumption more: the application's
sinks are not the engine's (`AppSinksAssumption`). Of each pipeline: a sink that is not confused is
called once (`CalledOnce`), what was placed as a pair is called in that order, or, if it is one of those a
registration between two targets did not heed (`behind`), in the other one
(`PairsStand`), and a sink of the application that is called was placed or is confused
(`CalledKnown`, without which a sink that comes back could be called twice). What an insertion does
to the two arrays (`InsertedIs`) and what a removal does (`RemovedIs`) are lemmas about all
pipelines, not only those that can be reached. That nothing is confused before the first removal
is `NotYetConfused`: until then the places of the order are those below its length, so the place a new
sink takes is free.

### The systems of a frame

In `Frame_proofs` too, for every number of systems and every finite range of components and
frame data: `AccessesOrdered` and `FrameDataPlaced`. Neither is inductive, for both
speak of batches that run, and what orders them was decided while the main thread scanned.
`SystemsInv` has the following parts.

* `DispatchedAreScanned`, `FenceIsCount`: a batch belongs to a system with chunks that was
  scanned in this frame, and the fence counts those that are not done. So no batch is
  left when `jobFenceWait` has returned.
* `LastsRemembered`: while the main thread scans, `lastWriter` and `lastReader` are just
  that, also when one of the batches could not be submitted.
* `DependenciesCollected`: a dispatched system waits for the last writer of all it uses and
  for the last reader of all it writes, unless these were not submitted. Its
  array has at most as many elements as systems were scanned, itself included. An identity
  can be in it twice, that of two batches which both failed, so the bound does not come from
  the search for duplicates alone: each element was put there for another system
  (`madeFrom`).
* `NoneOvertaken`: what a started batch is stored with is done. Whom it is stored with is
  decided when it is submitted, and later systems do not change that (`awaited`).
* `BlocksPlaced`: blocks lie one behind the other below `end`, and all that dispatched
  systems write has one.

`AccessesOrdered` follows in one state (`WriterWaitedFor`, `ReaderWaitedFor`). The last writer
before the later of two systems is the earlier one itself or comes after it; it is done, or
was not submitted, or the later one was one dependent too many for it; if it is done it had in turn waited for the last writer before it, and so on
down to the earlier system. The least system of which the claim fails leads to a smaller one.
A reader is waited for by the next writer if no other reader comes between, which is
`overlooked`.

The loops over the bits of a mask (`iterated`, `activated`) and the doubling of the
memory (`grownTo`) are recursive functions of numbers. `RecursionExists` gives such a
function for every step function on a set; what the loops do is shown for one step
(`WriteEffect`, `ReadEffect`, `ActivateOne`) and then for all (`WritePass`, `ReadPass`,
`ActivatedIs`).

### Instance pool, lock, log

All three are in `LockFree_proofs`. For every set of threads, pool size and set of batches:
`PoolInv`, with it `OneOwner` and `InstancesIntact`. `OneOwner` is not inductive: that a
swap leaves the list intact needs the shape of the list (`ListShape`: heights
decrease by one along the links and no two slots have the same) and that the link
a thread read is that of the head whenever the head, with its tag, is still the one
it loaded (`AnswersHold`). The one assumption the code does not make true for ever
is that the tag does not come back (`MaxTag`): it does after 2^32 swaps.

Of the lock, for every finite set of threads: `LockInv`, with it `Exclusion`.
The count is the number of announced readers, so a writer that reads 0 knows that
nobody reads, and a reader that announces itself later sees the flag.

Of the log, for every number of threads and messages and every queue of two slots
or more: `LogInv`, with it `LogFaithful`. Every slot's number belongs to this lap or
the next (`SlotsByLap`), who pushes has a position of his own and his message is
the one that got that ticket (`PushesOwned`), what may be popped is that message
(`PublishedWhole`), and positions count messages (`PositionsCounted`): this makes the
order of the sinks the order of the tickets. `ShutdownPromise`: what was
published when the first shutdown began stays poppable until it is popped, and the
log thread does not leave before.

### What is only model-checked

* Liveness, in all modules: it rests on fairness and `ENABLED`, which the prover
  does not treat.
* `Scene`. What the application of all command buffers results in is a fold over
  data, of which the provers can say nothing for every input.

## Not modelled

The renderer and the shaders are sequential set-up of an external API and vendored
parsing; most of the repository's lines are vendored or generated
(`spirv-reflect`, the SPIR-V headers, the xdg-shell protocol) and are no behaviour
of this program. The platform layer is calls of the operating system. The
allocators, `darray` and the list pool are sequential containers, taken for what
their callers use them for; the input system is two copies of key states that one
thread updates. The embedding tool, the test bed and the only test
(`tests/containers/tests.c`, of the id mapping) are not part of the engine; files
ending in `.old` are not built. Parts of modelled components that are left out are
named with their module above.

## Plan

Modelled and checked: the job system, its lock-free parts, the io system with one
submitter, the lock, the event system with the windows and the frame loop, the
ECS with its systems and frame data, the logger with its queue. Runs answer one
question each, and their properties are folded so that each says one thing a test
would hardly reach.

Proved: of every module but those of the scene, the invariants its run checks. A proof
about `Scene` would begin with its pools, that allocating and freeing keep the chunks
and types permutations (`PoolsConsistent`); the entities' data are folds and stay
with TLC.

Models that could follow: constructor data and the destructors of components, jobs
that submit batches inside the scheduler, the buffers of the io system's reads, memory of
frame data that moves under running batches, the list pool under the entity types.
