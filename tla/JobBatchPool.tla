---------------------------- MODULE JobBatchPool ----------------------------
(***************************************************************************)
(* The pool of job batches (jobSystem/jobBatchPool.c) and the functions of *)
(* jobSystem/jobs.c that drive it: submission with dependencies, pinning   *)
(* of a slot through a handle, completion of jobs, reclamation of a slot,  *)
(* release of the dependents of a batch, and the two fences.               *)
(*                                                                         *)
(* A handle names a slot and the generation the slot had when the batch    *)
(* was allocated.  One action is one access to shared state; accesses to   *)
(* a slot nobody else can reach yet, or any longer, are merged.  A thread  *)
(* has a stack of frames because dropHandle calls itself through unpin.    *)
(*                                                                         *)
(* Taken as atomic here: the free list (a tagged stack), the job queue     *)
(* (module JobQueueRing), and splitting a batch into jobs.                 *)
(***************************************************************************)
EXTENDS Integers, Sequences, FiniteSets

CONSTANTS
  Main,            \* the main thread: may submit at any time, and with a fence
  Io,              \* the io thread: submits batches without dependencies
  Workers,         \* worker threads: submit only from inside a job
  SlotCount,       \* JOB_BATCH_POOL_SIZE
  MaxDependents,   \* JOB_MAX_DEPENDENTS
  QueueSize,       \* capacity of the main queue
  Sizes,           \* numbers of jobs of a batch
  MaxBatches,      \* bound: batches submitted in a behaviour
  MaxDependencies, \* bound: dependencies of one batch
  MayExhaust       \* whether callers submit when no slot is free

ASSUME PoolAssumption ==
  /\ SlotCount \in Nat \ {0}
  /\ MaxDependents \in Nat \ {0}
  /\ QueueSize \in Nat
  /\ Sizes \subseteq Nat \ {0}
  /\ MaxBatches \in Nat
  /\ MaxDependencies \in Nat
  /\ MayExhaust \in BOOLEAN
  /\ Main # Io /\ Main \notin Workers /\ Io \notin Workers

VARIABLES
  slots,     \* the slots of the pool
  free,      \* the free list, top first
  queue,     \* batches in the main queue that still have jobs to hand out
  workLeft,  \* the fence of the main thread
  allWork,   \* allWorkDoneFence
  stack,     \* the calls each thread is in, innermost first
  batches,   \* history: what is known of every batch ever submitted
  issued     \* history: the handles of those batches

vars == <<slots, free, queue, workLeft, allWork, stack, batches, issued>>

Threads == Workers \cup {Main, Io}
Slots == 1 .. SlotCount
Handles == [slot : Slots, gen : 0 .. MaxBatches]
NoHandle == [slot |-> 0, gen |-> 0]   \* JOB_BATCH_NONE

Frame(at, id, todo) == [at |-> at, id |-> id, todo |-> todo]
At(t, at) == stack[t] # <<>> /\ Head(stack[t]).at = at
Id(t) == Head(stack[t]).id
Todo(t) == Head(stack[t]).todo

\* The innermost call of t is over; it goes on with the frames fs.
Continue(t, fs) == stack' = [stack EXCEPT ![t] = fs \o Tail(@)]

Set(s, field, value) == slots' = [slots EXCEPT ![s] = [@ EXCEPT ![field] = value]]
Slot(h) == slots[h.slot]

EmptySlot ==
  [generation |-> 0, refCount |-> 0, dependencyCount |-> 0,
   dependentCount |-> 0, dependents |-> <<>>, remainingJobs |-> 0,
   toStart |-> 0, fence |-> FALSE]

\* jobBatchPoolInit; jobSystemInitialize has zeroed the fences.
Init ==
  /\ slots = [s \in Slots |-> EmptySlot]
  /\ free = [i \in Slots |-> i]
  /\ queue = {}
  /\ workLeft = 0
  /\ allWork = 0
  /\ stack = [t \in Threads |-> <<>>]
  /\ batches = <<>>
  /\ issued = {}

----------------------------------------------------------------------------
(* tryPin and unpin *)

\* The innermost call of t tries to pin the first handle it has to deal with.
PinFirst(t) ==
  stack' = [stack EXCEPT ![t] = <<Frame("pinCheck", Head(Todo(t)), <<>>)>> \o @]

\* The pin succeeds: its caller, the next call on the stack, goes on with it.
PinSucceeds(t) ==
  LET caller == stack[t][2]
      point == IF caller.at = "dependents" THEN "resolve" ELSE "register"
  IN stack' = [stack EXCEPT ![t] = <<Frame(point, caller.id, caller.todo)>> \o Tail(Tail(@))]

\* It fails: after the frames fs the caller passes the handle over.
PinFails(t, fs) ==
  LET caller == stack[t][2]
      passed == Frame(caller.at, caller.id, Tail(caller.todo))
  IN stack' = [stack EXCEPT ![t] = fs \o <<passed>> \o Tail(Tail(@))]

PinCheck(t) ==
  /\ At(t, "pinCheck")
  /\ IF Slot(Id(t)).generation = Id(t).gen
     THEN Continue(t, <<Frame("pinTake", Id(t), <<>>)>>)
     ELSE PinFails(t, <<>>)
  /\ UNCHANGED <<slots, free, queue, workLeft, allWork, batches, issued>>

\* Faulty variant: the count is incremented without looking for 0.
PinTakeBlind(t) ==
  /\ At(t, "pinTake")
  /\ Set(Id(t).slot, "refCount", Slot(Id(t)).refCount + 1)
  /\ Continue(t, <<Frame("pinVerify", Id(t), <<>>)>>)
  /\ UNCHANGED <<free, queue, workLeft, allWork, batches, issued>>

\* The loop around the compare-and-swap increments a count that is not 0.
PinTake(t) ==
  /\ At(t, "pinTake")
  /\ LET refs == Slot(Id(t)).refCount IN
     IF refs = 0
     THEN PinFails(t, <<>>) /\ UNCHANGED slots
     ELSE /\ Set(Id(t).slot, "refCount", refs + 1)
          /\ Continue(t, <<Frame("pinVerify", Id(t), <<>>)>>)
  /\ UNCHANGED <<free, queue, workLeft, allWork, batches, issued>>

\* Faulty variant: the generation is not read again.
PinVerifyNever(t) ==
  /\ At(t, "pinVerify")
  /\ PinSucceeds(t)
  /\ UNCHANGED <<slots, free, queue, workLeft, allWork, batches, issued>>

PinVerify(t) ==
  /\ At(t, "pinVerify")
  /\ IF Slot(Id(t)).generation = Id(t).gen
     THEN PinSucceeds(t)
     ELSE PinFails(t, <<Frame("unpin", Id(t), <<>>)>>)
  /\ UNCHANGED <<slots, free, queue, workLeft, allWork, batches, issued>>

\* A reference to the slot of Id(t) is given back, then the frames fs follow;
\* the last one drops the batch that lives there.
DropReference(t, fs) ==
  LET s == Id(t).slot
      refs == slots[s].refCount
      owner == [slot |-> s, gen |-> slots[s].generation]
  IN /\ Set(s, "refCount", refs - 1)
     /\ Continue(t, IF refs = 1 THEN <<Frame("drop", owner, <<>>)>> \o fs ELSE fs)

Unpin(t) ==
  /\ At(t, "unpin")
  /\ DropReference(t, <<>>)
  /\ UNCHANGED <<free, queue, workLeft, allWork, batches, issued>>

----------------------------------------------------------------------------
(* dropHandle *)

\* What the loop over the dependents reads: beyond the array when more than
\* MaxDependents were counted, where it finds anything.
ReadDependents(s) ==
  {slots[s].dependents \o beyond :
     beyond \in [1 .. slots[s].dependentCount - Len(slots[s].dependents) -> Handles]}

DropInvalidate(t) ==
  /\ At(t, "drop")
  /\ LET s == Id(t).slot IN
     /\ slots' = [slots EXCEPT ![s].generation = @ + 1,
                               ![s].dependentCount = 0,
                               ![s].dependents = <<>>]
     /\ \E todo \in ReadDependents(s) :
          Continue(t, <<Frame("dependents", Id(t), todo)>>)
  /\ UNCHANGED <<free, queue, workLeft, allWork, batches, issued>>

DropNextDependent(t) ==
  /\ At(t, "dependents")
  /\ Todo(t) # <<>>
  /\ PinFirst(t)
  /\ UNCHANGED <<slots, free, queue, workLeft, allWork, batches, issued>>

\* Faulty variant: the last dependency does not submit the dependent.
DropResolveSilent(t) ==
  /\ At(t, "resolve")
  /\ LET dep == Head(Todo(t))
         rest == <<Frame("dependents", Id(t), Tail(Todo(t)))>>
     IN /\ Set(dep.slot, "dependencyCount", Slot(dep).dependencyCount - 1)
        /\ Continue(t, <<Frame("unpin", dep, <<>>)>> \o rest)
  /\ UNCHANGED <<free, queue, workLeft, allWork, batches, issued>>

\* One dependency of the dependent is gone; the last one submits it.
DropResolve(t) ==
  /\ At(t, "resolve")
  /\ LET dep == Head(Todo(t))
         rest == <<Frame("dependents", Id(t), Tail(Todo(t)))>>
         count == Slot(dep).dependencyCount
     IN /\ Set(dep.slot, "dependencyCount", count - 1)
        /\ Continue(t, (IF count = 1 THEN <<Frame("push", dep, <<>>)>> ELSE <<>>)
                         \o <<Frame("unpin", dep, <<>>)>> \o rest)
  /\ UNCHANGED <<free, queue, workLeft, allWork, batches, issued>>

\* Faulty variant: a dropped batch leaves its fence up.
DropFenceForgotten(t) ==
  /\ At(t, "dependents")
  /\ Todo(t) = <<>>
  /\ Continue(t, <<Frame("reclaim", Id(t), <<>>)>>)
  /\ UNCHANGED <<slots, free, queue, workLeft, allWork, batches, issued>>

DropFence(t) ==
  /\ At(t, "dependents")
  /\ Todo(t) = <<>>
  /\ workLeft' = workLeft - (IF Slot(Id(t)).fence THEN 1 ELSE 0)
  /\ Continue(t, <<Frame("reclaim", Id(t), <<>>)>>)
  /\ UNCHANGED <<slots, free, queue, allWork, batches, issued>>

DropReclaim(t) ==
  /\ At(t, "reclaim")
  /\ free' = <<Id(t).slot>> \o free
  /\ Continue(t, <<>>)
  /\ UNCHANGED <<slots, queue, workLeft, allWork, batches, issued>>

----------------------------------------------------------------------------
(* submitJobBatch, submitJobBatchWithDependencies, allocateJobBatch *)

\* The io thread and the main thread are not in a job; a worker is.
MaySubmit(t) ==
  /\ \/ t \in {Main, Io} /\ stack[t] = <<>>
     \/ At(t, "job")
  /\ Len(batches) < MaxBatches

\* Dependencies are handles the caller was given before.
DependencyLists(t) ==
  IF t = Io THEN {<<>>}
  ELSE {ds \in UNION {[1 .. n -> issued] : n \in 0 .. MaxDependencies} :
          \A i, j \in DOMAIN ds : ds[i] = ds[j] => i = j}

Submit(t, size, fenced, deps) ==
  /\ MaySubmit(t)
  /\ free # <<>>
  /\ LET s == Head(free)
         id == [slot |-> s, gen |-> slots[s].generation]
     IN /\ slots' = [slots EXCEPT ![s] =
             [generation |-> @.generation, refCount |-> 1,
              dependencyCount |-> IF deps = <<>> THEN 0 ELSE 1,
              dependentCount |-> 0, dependents |-> <<>>,
              remainingJobs |-> size, toStart |-> size, fence |-> fenced]]
        /\ stack' = [stack EXCEPT ![t] =
             <<Frame(IF deps = <<>> THEN "push" ELSE "addDependents", id, deps)>> \o @]
        /\ batches' = Append(batches,
             [id |-> id, deps |-> {deps[i] : i \in DOMAIN deps}, fence |-> fenced,
              pushes |-> 0, finished |-> FALSE])
        /\ issued' = issued \cup {id}
  /\ free' = Tail(free)
  /\ workLeft' = workLeft + (IF fenced THEN 1 ELSE 0)
  /\ allWork' = allWork + 1
  /\ UNCHANGED <<queue>>

\* No slot is free.  The fence has been attached already, and with
\* dependencies allWorkDoneFence too; nothing detaches them.
SubmitFails(t, fenced, deps) ==
  /\ MayExhaust
  /\ MaySubmit(t)
  /\ free = <<>>
  /\ workLeft' = workLeft + (IF fenced THEN 1 ELSE 0)
  /\ allWork' = allWork + (IF deps = <<>> THEN 0 ELSE 1)
  /\ batches' = Append(batches,
       [id |-> NoHandle, deps |-> {deps[i] : i \in DOMAIN deps}, fence |-> fenced,
        pushes |-> 0, finished |-> TRUE])
  /\ UNCHANGED <<slots, free, queue, stack, issued>>

SubmitSome(t) ==
  \E fenced \in {FALSE, t = Main}, deps \in DependencyLists(t) :
    \/ \E size \in Sizes : Submit(t, size, fenced, deps)
    \/ SubmitFails(t, fenced, deps)

AddDependent(t) ==
  /\ At(t, "addDependents")
  /\ Todo(t) # <<>>
  /\ PinFirst(t)
  /\ UNCHANGED <<slots, free, queue, workLeft, allWork, batches, issued>>

\* Faulty variant: the dependency is recorded but not counted.
RegisterDependentUncounted(t) ==
  /\ At(t, "register")
  /\ LET target == Head(Todo(t)).slot
         rest == <<Frame("addDependents", Id(t), Tail(Todo(t)))>>
     IN /\ slots' = [slots EXCEPT ![target].dependentCount = @ + 1,
                                  ![target].dependents = Append(@, Id(t))]
        /\ Continue(t, <<Frame("unpin", Head(Todo(t)), <<>>)>> \o rest)
  /\ UNCHANGED <<free, queue, workLeft, allWork, batches, issued>>

\* The target is pinned (the dependent is pinned and unpinned too, under the
\* reference it was born with).  A dependent too many is counted but not kept.
RegisterDependent(t) ==
  /\ At(t, "register")
  /\ LET target == Head(Todo(t)).slot
         rest == <<Frame("addDependents", Id(t), Tail(Todo(t)))>>
         room == slots[target].dependentCount < MaxDependents
     IN /\ slots' =
             [s \in Slots |->
                [slots[s] EXCEPT
                   !.dependentCount = IF s = target THEN @ + 1 ELSE @,
                   !.dependents = IF s = target /\ room THEN Append(@, Id(t)) ELSE @,
                   !.dependencyCount = IF s = Id(t).slot /\ room THEN @ + 1 ELSE @]]
        /\ Continue(t, <<Frame("unpin", Head(Todo(t)), <<>>)>> \o rest)
  /\ UNCHANGED <<free, queue, workLeft, allWork, batches, issued>>

\* The count started at 1 so that no dependency could submit the batch early.
ReleaseGuard(t) ==
  /\ At(t, "addDependents")
  /\ Todo(t) = <<>>
  /\ LET count == Slot(Id(t)).dependencyCount IN
     /\ Set(Id(t).slot, "dependencyCount", count - 1)
     /\ Continue(t, IF count = 1 THEN <<Frame("push", Id(t), <<>>)>> ELSE <<>>)
  /\ UNCHANGED <<free, queue, workLeft, allWork, batches, issued>>

----------------------------------------------------------------------------
(* submitToMainQueue and the life of a job *)

Record(id, field, value) ==
  batches' = [i \in DOMAIN batches |->
                IF batches[i].id = id
                THEN [batches[i] EXCEPT ![field] = value] ELSE batches[i]]

Pushes(id) ==
  LET i == CHOOSE i \in DOMAIN batches : batches[i].id = id IN batches[i].pushes

Push(t) ==
  /\ At(t, "push")
  /\ IF Cardinality(queue) < QueueSize
     THEN /\ queue' = queue \cup {Id(t)}
          /\ Record(Id(t), "pushes", Pushes(Id(t)) + 1)
          /\ UNCHANGED allWork
     ELSE allWork' = allWork - 1 /\ UNCHANGED <<queue, batches>>
  /\ Continue(t, <<>>)
  /\ UNCHANGED <<slots, free, workLeft, issued>>

\* A worker, or the main thread in jobFenceWait, takes a job of a batch.
StartJob(t) ==
  /\ t # Io
  /\ stack[t] = <<>>
  /\ \E id \in queue :
       /\ Set(id.slot, "toStart", Slot(id).toStart - 1)
       /\ queue' = IF Slot(id).toStart = 1 THEN queue \ {id} ELSE queue
       /\ stack' = [stack EXCEPT ![t] = <<Frame("job", id, <<>>)>>]
  /\ UNCHANGED <<free, workLeft, allWork, batches, issued>>

\* freeJob, signalJobComplete: getSlot.
FinishJob(t) ==
  /\ At(t, "job")
  /\ IF Slot(Id(t)).generation = Id(t).gen /\ Slot(Id(t)).refCount > 0
     THEN /\ Set(Id(t).slot, "refCount", Slot(Id(t)).refCount + 1)
          /\ Continue(t, <<Frame("signal", Id(t), <<>>)>>)
     ELSE Continue(t, <<>>) /\ UNCHANGED slots
  /\ UNCHANGED <<free, queue, workLeft, allWork, batches, issued>>

SignalComplete(t) ==
  /\ At(t, "signal")
  /\ LET remaining == Slot(Id(t)).remainingJobs - 1
         last == remaining = 0
     IN /\ Set(Id(t).slot, "remainingJobs", remaining)
        /\ Continue(t, <<Frame("unpin", Id(t), <<>>)>>
                         \o (IF last THEN <<Frame("complete", Id(t), <<>>)>> ELSE <<>>))
        /\ IF last THEN Record(Id(t), "finished", TRUE) ELSE UNCHANGED batches
  /\ UNCHANGED <<free, queue, workLeft, allWork, issued>>

\* processBatchCompletion: freeJobBatch gives up the reference the batch was
\* born with, ...
CompleteBatch(t) ==
  /\ At(t, "complete")
  /\ DropReference(t, <<Frame("workDone", Id(t), <<>>)>>)
  /\ UNCHANGED <<free, queue, workLeft, allWork, batches, issued>>

\* ... then the batch no longer counts as work.
WorkDone(t) ==
  /\ At(t, "workDone")
  /\ allWork' = allWork - 1
  /\ Continue(t, <<>>)
  /\ UNCHANGED <<slots, free, queue, workLeft, batches, issued>>

----------------------------------------------------------------------------

Step(t) ==
  \/ PinCheck(t) \/ PinTake(t) \/ PinVerify(t) \/ Unpin(t)
  \/ DropInvalidate(t) \/ DropNextDependent(t) \/ DropResolve(t)
  \/ DropFence(t) \/ DropReclaim(t)
  \/ AddDependent(t) \/ RegisterDependent(t) \/ ReleaseGuard(t)
  \/ Push(t) \/ StartJob(t) \/ FinishJob(t) \/ SignalComplete(t)
  \/ CompleteBatch(t) \/ WorkDone(t)

\* Nothing left to do: the threads wait for submissions.
Quiet == (\A t \in Threads : stack[t] = <<>>) /\ queue = {}
Rest == Quiet /\ Len(batches) = MaxBatches /\ UNCHANGED vars

Next == (\E t \in Threads : Step(t) \/ SubmitSome(t)) \/ Rest

Spec == Init /\ [][Next]_vars

\* The operating system runs every thread that can run: a call that was begun
\* goes on, and a worker takes jobs as long as there are any.  The main thread
\* takes jobs only while it waits for a fence, so it need not.
Fairness ==
  /\ \A t \in Workers : WF_vars(Step(t))
  /\ \A t \in {Main, Io} : WF_vars(stack[t] # <<>> /\ Step(t))

FairSpec == Spec /\ Fairness

----------------------------------------------------------------------------
(* Properties *)

Frames(t) == {stack[t][i] : i \in DOMAIN stack[t]}
InFlight(at) == UNION {{f \in Frames(t) : f.at = at} : t \in Threads}

Points ==
  {"pinCheck", "pinTake", "pinVerify", "unpin", "drop", "dependents", "resolve",
   "reclaim", "addDependents", "register", "push", "job", "signal", "complete",
   "workDone"}

\* Types of the state; no count of the pool ever goes below zero.
TypeOK ==
  /\ \A s \in Slots :
       /\ slots[s].generation \in 0 .. MaxBatches
       /\ slots[s].refCount \in Nat
       /\ slots[s].dependencyCount \in Nat
       /\ slots[s].dependentCount \in Nat
       /\ slots[s].remainingJobs \in Nat
       /\ slots[s].toStart \in Nat
       /\ slots[s].fence \in BOOLEAN
       /\ \A i \in DOMAIN slots[s].dependents : slots[s].dependents[i] \in Handles
  /\ free \in Seq(Slots)
  /\ queue \subseteq issued /\ issued \subseteq Handles
  /\ workLeft \in Nat /\ allWork \in Nat
  /\ \A t \in Threads : \A f \in Frames(t) : f.at \in Points /\ f.id \in Handles

\* The handle a thread has pinned with success and not yet unpinned.
HoldsPin(t, h) ==
  \/ \E f \in Frames(t) : f.at = "signal" /\ f.id = h
  \/ (At(t, "register") \/ At(t, "resolve")) /\ Head(Todo(t)) = h

Dropping(s) == {f \in InFlight("drop") \cup InFlight("dependents")
                        \cup InFlight("resolve") \cup InFlight("reclaim") : f.id.slot = s}

\* A pin that succeeded protects the batch: until it is given back the slot
\* keeps its generation and is neither dropped nor reused.  A handle of a
\* batch that is gone never resolves to the batch that has its slot now.
PinProtects ==
  \A t \in Threads, h \in issued :
    HoldsPin(t, h) =>
      /\ Slot(h).generation = h.gen /\ Slot(h).refCount > 0
      /\ Dropping(h.slot) = {}
      /\ \A i \in DOMAIN free : free[i] # h.slot

\* A slot is in exactly one place: referenced, in the hands of the one thread
\* that drops it, or once in the free list.
SlotsConserved ==
  \A s \in Slots :
    LET referenced == IF slots[s].refCount > 0 THEN 1 ELSE 0
        dropped == Cardinality({tf \in Threads \X Dropping(s) : tf[2] \in Frames(tf[1])})
        listed == Cardinality({i \in DOMAIN free : free[i] = s})
    IN referenced + dropped + listed = 1

\* A batch enters the queue only when all the jobs of every batch it was
\* submitted to depend on are done, and it enters once, whatever the order in
\* which its dependencies end and its submission proceeds.
DependenciesFirst ==
  /\ \A i, j \in DOMAIN batches :
       (batches[i].pushes > 0 /\ batches[j].id \in batches[i].deps) => batches[j].finished
  /\ \A i \in DOMAIN batches : batches[i].pushes <= 1

\* What submissions that failed have left on the fence, and on allWorkDoneFence.
Failed == {i \in DOMAIN batches : batches[i].id = NoHandle}
Leaked == Cardinality({i \in Failed : batches[i].fence})
WorkLeaked == Cardinality({i \in Failed : batches[i].deps # {}})

\* What the fence of the main thread counts: the batches submitted with it that
\* are not dropped, and for ever those that found no slot.
WorkCounted ==
  workLeft =
    Leaked + Cardinality({s \in Slots : slots[s].fence /\ slots[s].refCount > 0})
    + Cardinality({f \in InFlight("drop") \cup InFlight("dependents")
                           \cup InFlight("resolve") : slots[f.id.slot].fence})

\* When allWorkDoneFence is down and nobody is submitting, every job of every
\* batch has run and no thread will submit or start one: finishAndExit may tell
\* the workers to leave.  (A worker may still be dropping the last slot.)
DoneMeansDone ==
  (allWork = 0 /\ stack[Main] = <<>> /\ stack[Io] = <<>>)
    => /\ queue = {}
       /\ \A i \in DOMAIN batches : batches[i].finished
       /\ \A at \in {"push", "job", "signal", "complete"} : InFlight(at) = {}

\* A fence that is down means what its caller takes it for: the main thread
\* never returns early from jobFenceWait, and waits for nothing only when a
\* submission has failed; the workers are not sent home before the work is done.
FenceCounts == TypeOK /\ WorkCounted /\ DoneMeansDone

\* In the end every batch that was submitted is done, no batch is active, as
\* jobBatchPoolDeinit expects, and both fences are down, but for what failed
\* submissions have left on them.
EventuallyIdle ==
  <>[](/\ allWork = WorkLeaked /\ workLeft = Leaked
       /\ Len(free) = SlotCount
       /\ \A i \in DOMAIN batches : batches[i].finished)

----------------------------------------------------------------------------
(* The inductive invariant behind PinProtects and SlotsConserved *)

\* The calls of a thread, counted from the outermost one: a call keeps its number
\* while others come and go above it.
CallAt(t, d) == stack[t][Len(stack[t]) + 1 - d]
Calls == UNION {{t} \X (1 .. Len(stack[t])) : t \in Threads}

Ids == [slot : Slots, gen : Nat]
CallFrames == [at : Points, id : Ids, todo : Seq(Ids)]
SlotStates ==
  [generation : Nat, refCount : Nat, dependencyCount : Int, dependentCount : Int,
   dependents : Seq(Ids), remainingJobs : Int, toStart : Int, fence : BOOLEAN]

PoolTyped ==
  /\ slots \in [Slots -> SlotStates]
  /\ free \in Seq(Slots)
  /\ queue \subseteq Ids /\ issued \subseteq Ids
  /\ stack \in [Threads -> Seq(CallFrames)]

PinPoints == {"pinCheck", "pinTake", "pinVerify"}
DropPoints == {"drop", "dependents", "resolve", "reclaim"}
Pinned == {"register", "resolve"}

\* A pin is tried on top of the call that asks for it, for its next handle.
CallsFit ==
  \A t \in Threads : \A d \in 1 .. Len(stack[t]) :
    /\ CallAt(t, d).at \in PinPoints =>
         /\ d = Len(stack[t]) /\ d > 1
         /\ CallAt(t, d - 1).at \in {"dependents", "addDependents"}
         /\ CallAt(t, d - 1).todo # <<>>
         /\ CallAt(t, d).id = Head(CallAt(t, d - 1).todo)
    /\ CallAt(t, d).at \in Pinned => CallAt(t, d).todo # <<>>

\* The slot a call has a reference to, which it will give back; 0 if none.
RefOf(f) ==
  CASE f.at \in {"pinVerify", "unpin", "signal", "complete"} -> f.id.slot
    [] f.at \in Pinned -> Head(f.todo).slot
    [] OTHER -> 0

\* The references to slot s: those of calls, and the one a batch is born with,
\* which is there until its last job is done.
BirthRef(s) == IF slots[s].remainingJobs > 0 THEN {<<Main, 0>>} ELSE {}
Refs(s) == {c \in Calls : RefOf(CallAt(c[1], c[2])) = s} \cup BirthRef(s)

RefsCounted ==
  \A s \in Slots : IsFiniteSet(Refs(s)) /\ slots[s].refCount = Cardinality(Refs(s))

\* Who was told that a pin succeeded has the batch of that handle.
PinsHold ==
  \A t \in Threads : \A d \in 1 .. Len(stack[t]) :
    LET f == CallAt(t, d) IN
    /\ f.at = "signal" => Slot(f.id).generation = f.id.gen
    /\ f.at \in Pinned => Slot(Head(f.todo)).generation = Head(f.todo).gen

\* The calls that drop the batch in slot s.
Droppers(s) ==
  {c \in Calls : CallAt(c[1], c[2]).at \in DropPoints /\ CallAt(c[1], c[2]).id.slot = s}
Listed(s) == \E i \in DOMAIN free : free[i] = s

\* A slot is referenced, or dropped by one call, or in the free list once.
SlotsPlaced ==
  /\ \A i, j \in DOMAIN free : free[i] = free[j] => i = j
  /\ \A s \in Slots :
       /\ slots[s].refCount > 0 => Droppers(s) = {} /\ ~Listed(s)
       /\ Droppers(s) # {} => ~Listed(s)
       /\ \A c, d \in Droppers(s) : c = d
       /\ slots[s].refCount > 0 \/ Droppers(s) # {} \/ Listed(s)

PoolInv == PoolTyped /\ CallsFit /\ RefsCounted /\ PinsHold /\ SlotsPlaced
=============================================================================
