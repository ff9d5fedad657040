------------------------- MODULE JobScheduler_proofs -------------------------
(***************************************************************************)
(* Proofs about the job scheduler: SchedInv is an invariant for any number *)
(* of workers, batches, jobs, sections and priorities and any size of the  *)
(* local queues, and the safety properties of JobScheduler follow from it. *)
(***************************************************************************)
EXTENDS JobScheduler, FiniteSetTheorems, SequenceTheorems, TLAPS

USE DEF queues, jobVars, counts, search, buffers, mainVars

----------------------------------------------------------------------------
(* The constants *)

\* The threads, the sizes and the priorities.
LEMMA Constants ==
  /\ IsFiniteSet(Workers) /\ Workers \subseteq Threads
  /\ Main \in Threads /\ Io \in Threads /\ Main # Io /\ Main \notin Workers /\ Io \notin Workers
  /\ Threads = Workers \cup {Main, Io}
  /\ LocalSize \in Nat /\ LocalSize >= 1
  /\ Lowest \in Nat /\ MainLowest \in Nat /\ MainLowest <= Lowest
  /\ Priorities = 0 .. Lowest /\ Priorities \subseteq Nat
  /\ \A b \in Batches : Priority[b] \in Priorities /\ Size[b] \in Nat /\ Size[b] >= 1
                        /\ Sections[b] \in Nat /\ Sections[b] >= 1
  /\ None \notin Batches /\ None \notin Jobs
  /\ NotHeld.job = None
BY SchedulerAssumption DEF Threads, Priorities, NotHeld

\* A job is a batch and an index.
LEMMA JobParts ==
  /\ \A j \in Jobs : j[1] \in Batches /\ j[2] \in Nat /\ 1 <= j[2] /\ j[2] <= Size[j[1]]
                     /\ j = <<j[1], j[2]>>
  /\ \A b \in Batches : \A i \in Nat : 1 <= i /\ i <= Size[b] => <<b, i>> \in Jobs
<1>1. \A j \in Jobs : j[1] \in Batches /\ j[2] \in Nat /\ 1 <= j[2] /\ j[2] <= Size[j[1]]
                      /\ j = <<j[1], j[2]>>
  <2>1. SUFFICES ASSUME NEW b \in Batches, NEW j \in JobsOf(b)
                 PROVE  j[1] \in Batches /\ j[2] \in Nat /\ 1 <= j[2] /\ j[2] <= Size[j[1]]
                        /\ j = <<j[1], j[2]>>
    BY DEF Jobs
  <2> QED BY <2>1, Constants DEF JobsOf
<1>2. ASSUME NEW b \in Batches, NEW i \in Nat, 1 <= i, i <= Size[b]
      PROVE  <<b, i>> \in Jobs
  <2>1. <<b, i>> \in JobsOf(b)
    BY <1>2, Constants DEF JobsOf
  <2> QED BY <2>1 DEF Jobs
<1> QED BY <1>1, <1>2

\* What a worker holds when it holds something.
LEMMA HeldParts ==
  ASSUME TypeOK, NEW w \in Workers, held[w] # NotHeld
  PROVE  held[w].job \in Jobs /\ held[w].prio \in Priorities
BY DEF TypeOK

----------------------------------------------------------------------------
(* Splitting a batch *)

\* Worker w has split the next n jobs off batch b; what remains has to be kept.
SplitsOff(w, b, n, s, point) ==
  /\ n >= 1 /\ s \in Seq(Jobs) /\ Len(s) = n
  /\ \A i \in 1 .. n : s[i] = <<b, index[b] + i>>
  /\ Len(buffer[w]) + n <= LocalSize /\ index[b] + n <= Size[b]
  /\ buffer' = [buffer EXCEPT ![w] = @ \o s]
  /\ index' = [index EXCEPT ![b] = index[b] + n]
  /\ \/ index[b] + n < Size[b] /\ split' = [split EXCEPT ![w] = b] /\ Goto(w, "wakeMore")
     \/ index[b] + n = Size[b] /\ split' = [split EXCEPT ![w] = None] /\ Goto(w, point)

\* splitJobBatch finds a job at least, and never more than fit (jobs.c:195-226).
LEMMA SplitFacts ==
  ASSUME TypeOK, NEW w \in Workers, NEW b \in Batches, NEW point,
         index[b] < Size[b], Len(buffer[w]) < LocalSize, Split(w, b, point)
  PROVE  \E n \in Nat, s \in Seq(Jobs) : SplitsOff(w, b, n, s, point)
<1> DEFINE n == Minimum(LocalSize - Len(buffer[w]), Size[b] - index[b])
<1> DEFINE s == [i \in 1 .. n |-> <<b, index[b] + i>>]
<1>1. Len(buffer[w]) \in Nat /\ index[b] \in Nat /\ Size[b] \in Nat /\ LocalSize \in Nat
  BY Constants DEF TypeOK
<1>2. n \in Nat /\ n >= 1 /\ Len(buffer[w]) + n <= LocalSize /\ index[b] + n <= Size[b]
  BY <1>1 DEF Minimum
<1>3. /\ buffer' = [buffer EXCEPT ![w] = @ \o s]
      /\ index' = [index EXCEPT ![b] = index[b] + n]
      /\ split' = [split EXCEPT ![w] = IF index[b] + n < Size[b] THEN b ELSE None]
      /\ Goto(w, IF index[b] + n < Size[b] THEN "wakeMore" ELSE point)
  BY DEF Split
<1> HIDE DEF n
<1>4. \A i \in 1 .. n : <<b, index[b] + i>> \in Jobs
  BY <1>1, <1>2, JobParts, SMTT(30)
<1>5. s \in Seq(Jobs) /\ Len(s) = n /\ \A i \in 1 .. n : s[i] = <<b, index[b] + i>>
  BY <1>2, <1>4
<1>6. index[b] + n < Size[b] \/ index[b] + n = Size[b]
  BY <1>1, <1>2
<1> HIDE DEF s
<1>7. SplitsOff(w, b, n, s, point)
  BY <1>1, <1>2, <1>3, <1>5, <1>6 DEF SplitsOff
<1> QED BY <1>2, <1>5, <1>7

----------------------------------------------------------------------------
(* What the steps of one thread leave alone *)

\* Nobody else's hands change; what others own is at most stolen.
OnlyWorker(w) ==
  /\ \A t \in Threads \ {w} :
       pc'[t] = pc[t] /\ prio'[t] = prio[t] /\ job'[t] = job[t] /\ at'[t] = at[t]
  /\ \A v \in Workers \ {w} :
       /\ buffer'[v] = buffer[v] /\ split'[v] = split[v] /\ held'[v] = held[v]
       /\ \A p \in Priorities : /\ local[v][p] = <<>> => local'[v][p] = <<>>
                                /\ rest[v][p] = None => rest'[v][p] = None
  /\ UNCHANGED <<submitted, exiting, waitsFor, inProgress>>
  /\ \A p \in Priorities : exchange[p] = None => exchange'[p] = None

LEMMA WorkerActsAlone ==
  ASSUME SchedInv, NEW w \in Workers, Worker(w)
  PROVE  OnlyWorker(w)
<1>1. TypeOK /\ InHand(w)
  BY DEF SchedInv
<1>2. prio[w] \in Priorities /\ w \in Threads
  BY <1>1, Constants DEF InHand
<1>3. CASE StartThread(w) \/ SelectFromExchange(w) \/ NoBatchToSteal(w) \/ NothingFound(w)
           \/ WaitForWork(w) \/ Woken(w) \/ TakeFirst(w) \/ WakeForRemainder(w)
  <2>1. CASE StartThread(w) \/ Woken(w) \/ WaitForWork(w)
    BY <1>1, <1>2, <2>1 DEF TypeOK, OnlyWorker, StartThread, Woken, WaitForWork, Goto
  <2>2. CASE SelectFromExchange(w)
    BY <1>1, <1>2, <2>2 DEF TypeOK, OnlyWorker, SelectFromExchange, Goto, Take
  <2>3. CASE NoBatchToSteal(w) \/ NothingFound(w)
    BY <1>1, <1>2, <2>3 DEF TypeOK, OnlyWorker, NoBatchToSteal, NothingFound, Goto
  <2>4. CASE TakeFirst(w)
    BY <1>1, <1>2, <2>4 DEF TypeOK, OnlyWorker, TakeFirst, Goto, Take
  <2>5. CASE WakeForRemainder(w)
    BY <1>1, <1>2, <2>5 DEF TypeOK, OnlyWorker, WakeForRemainder, Goto, WakeAdditional
  <2> QED BY <1>3, <2>1, <2>2, <2>3, <2>4, <2>5
<1>4. CASE SelectFromLocal(w)
  BY <1>1, <1>2, <1>4 DEF TypeOK, OnlyWorker, SelectFromLocal, Goto, Take
<1>5. CASE SelectFromOwnBatch(w)
  BY <1>1, <1>2, <1>5 DEF TypeOK, OnlyWorker, SelectFromOwnBatch, Goto, Split
<1>6. CASE KeepRemainder(w)
  BY <1>1, <1>2, <1>6 DEF TypeOK, OnlyWorker, KeepRemainder, Goto
<1>7. CASE PullGlobal(w)
  BY <1>1, <1>2, <1>7 DEF TypeOK, OnlyWorker, PullGlobal, Goto, Split
<1>8. CASE PullGlobalDone(w)
  BY <1>1, <1>2, <1>8 DEF TypeOK, OnlyWorker, PullGlobalDone, Goto
<1>9. CASE StealBatch(w)
  <2>1. scan[w] \subseteq Workers
    BY <1>1, <1>2 DEF TypeOK
  <2>2. /\ \A t \in Threads \ {w} :
             pc'[t] = pc[t] /\ prio'[t] = prio[t] /\ job'[t] = job[t] /\ at'[t] = at[t]
        /\ \A v \in Workers \ {w} :
             buffer'[v] = buffer[v] /\ split'[v] = split[v] /\ held'[v] = held[v]
        /\ UNCHANGED <<submitted, exchange, local, exiting, waitsFor, inProgress>>
    <3>1. /\ pc \in [Threads -> Points] /\ buffer \in [Workers -> Seq(Jobs)]
          /\ split \in [Workers -> Batches \cup {None}]
      BY <1>1 DEF TypeOK
    <3>2. /\ UNCHANGED <<submitted, exchange, local, exiting, waitsFor, inProgress, prio, job, at, held>>
          /\ pc' = pc \/ \E q : pc' = [pc EXCEPT ![w] = q]
          /\ buffer' = buffer \/ \E q : buffer' = [buffer EXCEPT ![w] = q]
          /\ split' = split \/ \E q : split' = [split EXCEPT ![w] = q]
      <4>1. UNCHANGED <<submitted, exchange, local, exiting, waitsFor, inProgress, prio, job, at, held>>
        BY <1>9 DEF StealBatch
      <4>2. CASE UNCHANGED <<pc, buffer, split>>
        BY <4>1, <4>2
      <4>3. ASSUME NEW b, Split(w, b, "push")
            PROVE  /\ \E q : pc' = [pc EXCEPT ![w] = q]
                   /\ \E q : buffer' = [buffer EXCEPT ![w] = q]
                   /\ \E q : split' = [split EXCEPT ![w] = q]
        BY <4>3 DEF Split, Goto
      <4>4. UNCHANGED <<pc, buffer, split>> \/ \E b : Split(w, b, "push")
        BY <1>9 DEF StealBatch
      <4> QED BY <4>1, <4>2, <4>3, <4>4
    <3> QED BY <1>2, <3>1, <3>2
  <2>3. \A v \in Workers, p \in Priorities : rest[v][p] = None => rest'[v][p] = None
    <3>1. CASE UNCHANGED rest
      BY <3>1
    <3>2. CASE \E u \in scan[w] : rest' = [rest EXCEPT ![u][prio[w]] = None]
      BY <1>1, <1>2, <2>1, <3>2 DEF TypeOK
    <3> QED BY <1>9, <3>1, <3>2 DEF StealBatch
  <2> QED BY <2>2, <2>3 DEF OnlyWorker
<1>10. CASE StealJob(w, "run")
  <2>1. scan[w] \subseteq Workers
    BY <1>1, <1>2 DEF TypeOK
  <2>2. /\ \A t \in Threads \ {w} :
             pc'[t] = pc[t] /\ prio'[t] = prio[t] /\ job'[t] = job[t] /\ at'[t] = at[t]
        /\ UNCHANGED <<submitted, exchange, rest, exiting, buffers, waitsFor, inProgress>>
    BY <1>1, <1>2, <1>10 DEF TypeOK, StealJob, Goto, Take
  <2>3. \A v \in Workers, p \in Priorities : local[v][p] = <<>> => local'[v][p] = <<>>
    <3>1. CASE UNCHANGED local
      BY <3>1
    <3>2. CASE \E u \in scan[w] : /\ local[u][prio[w]] # <<>>
                                  /\ local' = [local EXCEPT ![u][prio[w]] = Tail(local[u][prio[w]])]
      BY <1>1, <1>2, <2>1, <3>2 DEF TypeOK
    <3> QED BY <1>10, <3>1, <3>2 DEF StealJob
  <2> QED BY <2>2, <2>3 DEF OnlyWorker
<1>11. CASE QueueJobs(w)
  BY <1>1, <1>2, <1>11 DEF TypeOK, OnlyWorker, QueueJobs, Goto, WakeAdditional
<1>12. CASE JobEnds(w) \/ JobYields(w)
  BY <1>1, <1>2, <1>12, SMTT(30) DEF TypeOK, OnlyWorker, JobEnds, JobYields, Goto
<1>13. CASE PushBack(w)
  BY <1>1, <1>2, <1>13 DEF TypeOK, OnlyWorker, PushBack, Goto
<1> QED BY <1>3, <1>4, <1>5, <1>6, <1>7, <1>8, <1>9, <1>10, <1>11, <1>12, <1>13 DEF Worker

\* The main thread and the io thread leave the workers alone but for their queues.
LEMMA WorkersLeftAlone ==
  ASSUME SchedInv,
         \/ MainWaits \/ \E fence \in {"frame", "all"} : BeginWait(fence)
         \/ \E t \in {Main, Io} : SubmitPush(t) \/ SubmitPost(t)
  PROVE  /\ \A w \in Workers :
              /\ pc'[w] = pc[w] /\ prio'[w] = prio[w] /\ job'[w] = job[w] /\ at'[w] = at[w]
              /\ \A p \in Priorities : local[w][p] = <<>> => local'[w][p] = <<>>
         /\ UNCHANGED <<buffer, split, held, rest, index, active>>
<1>1. TypeOK /\ Main \notin Workers /\ Io \notin Workers /\ Main \in Threads /\ Io \in Threads
      /\ Workers \subseteq Threads
  BY Constants DEF SchedInv
<1>2. CASE \E t \in {Main, Io} : SubmitPush(t) \/ SubmitPost(t)
  BY <1>1, <1>2, SMTT(30) DEF TypeOK, SubmitPush, SubmitPost, Goto
<1>3. CASE \E fence \in {"frame", "all"} : BeginWait(fence)
  BY <1>1, <1>3 DEF TypeOK, BeginWait, Goto
<1>4. CASE FenceTest \/ MainNothingFound \/ AnnounceExit \/ JoinWorkers
  BY <1>1, <1>4 DEF TypeOK, FenceTest, MainNothingFound, AnnounceExit, JoinWorkers, Goto
<1>5. CASE MainSelectFromExchange
  BY <1>1, <1>5 DEF TypeOK, MainSelectFromExchange, Goto, Take
<1>6. CASE MainRun
  BY <1>1, <1>6 DEF TypeOK, MainRun, Goto
<1>7. CASE FenceDone
  BY <1>1, <1>7 DEF TypeOK, FenceDone, Goto
<1>8. CASE StealJob(Main, "fence")
  <2>1. scan[Main] \subseteq Workers
    BY <1>1 DEF TypeOK
  <2>2. prio[Main] \in Priorities
    BY <1>1, <1>8, Constants DEF SchedInv, MainInHand, StealJob, TypeOK
  <2>3. /\ \A w \in Workers :
             pc'[w] = pc[w] /\ prio'[w] = prio[w] /\ job'[w] = job[w] /\ at'[w] = at[w]
        /\ UNCHANGED <<buffer, split, held, rest, index, active>>
    BY <1>1, <1>8 DEF TypeOK, StealJob, Goto, Take
  <2>4. \A w \in Workers, p \in Priorities : local[w][p] = <<>> => local'[w][p] = <<>>
    <3>1. CASE UNCHANGED local
      BY <3>1
    <3>2. CASE \E u \in scan[Main] :
                 /\ local[u][prio[Main]] # <<>>
                 /\ local' = [local EXCEPT ![u][prio[Main]] = Tail(local[u][prio[Main]])]
      BY <1>1, <2>1, <2>2, <3>2 DEF TypeOK
    <3> QED BY <1>8, <3>1, <3>2 DEF StealJob
  <2> QED BY <2>3, <2>4
<1> QED BY <1>2, <1>3, <1>4, <1>5, <1>6, <1>7, <1>8 DEF MainWaits

\* So what is known of the hands of the others stays true.
LEMMA OthersKeep ==
  ASSUME NEW v \in Workers, InHand(v), Searched(v), TypeOK,
         pc'[v] = pc[v], prio'[v] = prio[v], job'[v] = job[v], at'[v] = at[v],
         buffer'[v] = buffer[v], split'[v] = split[v], held'[v] = held[v],
         \A p \in Priorities : /\ local[v][p] = <<>> => local'[v][p] = <<>>
                               /\ rest[v][p] = None => rest'[v][p] = None
  PROVE  InHand(v)' /\ Searched(v)'
<1>1. InHand(v)'
  BY DEF InHand
<1>2. /\ prio[v] \in Priorities
      /\ held[v] # NotHeld => held[v].prio \in Priorities
      /\ \A p \in Priorities : 0 .. p - 1 \subseteq Priorities
  BY HeldParts, Constants DEF InHand
<1>3. \A p \in Priorities : OwnEmpty(v, p) => OwnEmpty(v, p)'
  BY DEF OwnEmpty
<1>4. Searched(v)'
  BY <1>2, <1>3 DEF Searched
<1> QED BY <1>1, <1>4

LEMMA MainKeeps ==
  ASSUME SchedInv, NEW w \in Workers, OnlyWorker(w)
  PROVE  /\ MainInHand' /\ ExchangeFree'
         /\ \A v \in Workers : v # w => InHand(v)' /\ Searched(v)'
<1>1. Main \in Threads \ {w} /\ Io \in Threads \ {w}
  BY Constants
<1>2. prio[Main] \in Nat /\ TypeOK
  <2>1. TypeOK
    BY DEF SchedInv
  <2>2. prio[Main] \in 0 .. Lowest + 1
    BY <1>1, <2>1 DEF TypeOK
  <2> QED BY <2>1, <2>2, Constants
<1>3. MainInHand'
  BY <1>1 DEF SchedInv, MainInHand, OnlyWorker
<1>4. ExchangeFree'
  <2>1. prio[Main] \in Priorities \/ ~(job[Main] # None \/ pc[Main] = "stealJob")
    BY <1>2, Constants DEF SchedInv, MainInHand
  <2> QED BY <1>1, <2>1 DEF SchedInv, ExchangeFree, OnlyWorker
<1>5. ASSUME NEW v \in Workers, v # w
      PROVE  InHand(v)' /\ Searched(v)'
  <2>1. v \in Threads \ {w} /\ v \in Workers \ {w}
    BY <1>5, Constants
  <2> QED BY <1>2, <2>1, OthersKeep DEF SchedInv, OnlyWorker
<1> QED BY <1>3, <1>4, <1>5

----------------------------------------------------------------------------
(* How many threads are active *)

LEMMA ActiveStep ==
  ASSUME SchedInv, NEW w \in Workers, Worker(w)
  PROVE  active' = Cardinality(Awake') /\ active' \in 0 .. Cardinality(Workers)
<1>1. TypeOK /\ active = Cardinality(Awake) /\ w \in Threads /\ IsFiniteSet(Workers)
  BY Constants DEF SchedInv
<1>2. /\ Awake \subseteq Workers /\ IsFiniteSet(Awake)
      /\ Awake' \subseteq Workers /\ IsFiniteSet(Awake')
  BY <1>1, FS_Subset DEF Awake
<1>3. Cardinality(Awake') \in Nat /\ Cardinality(Awake') <= Cardinality(Workers)
      /\ Cardinality(Workers) \in Nat
  BY <1>1, <1>2, FS_Subset, FS_CardinalityType
<1>4. \A v \in Workers \ {w} : pc'[v] = pc[v]
  BY WorkerActsAlone, Constants DEF OnlyWorker
<1>5. active' = Cardinality(Awake')
  <2>1. CASE StartThread(w) \/ Woken(w)
    <3>1. w \notin Awake /\ Awake' = Awake \cup {w} /\ active' = active + 1
      BY <1>1, <1>4, <2>1 DEF StartThread, Woken, Goto, Awake, TypeOK
    <3> QED BY <1>1, <1>2, <3>1, FS_AddElement
  <2>2. CASE NothingFound(w) /\ prio[w] = Lowest
    <3>1. w \in Awake /\ Awake' = Awake \ {w} /\ active' = active - 1
      <4>1. /\ pc[w] = "stealJob" /\ pc' = [pc EXCEPT ![w] = "wait"] /\ active' = active - 1
            /\ pc \in [Threads -> Points]
        <5>1. ~(prio[w] < Lowest)
          BY <2>2, Constants
        <5>2. pc \in [Threads -> Points]
          BY <1>1 DEF TypeOK
        <5> QED BY <2>2, <5>1, <5>2 DEF NothingFound, Goto
      <4> QED BY <1>1, <1>4, <4>1 DEF Awake
    <3> QED BY <1>1, <1>2, <3>1, FS_RemoveElement
  <2>3. CASE ~(StartThread(w) \/ Woken(w)) /\ ~(NothingFound(w) /\ prio[w] = Lowest)
    <3>1. UNCHANGED active /\ (w \in Awake <=> w \in Awake')
      <4>1. prio[w] \in 0 .. Lowest
        BY Constants DEF SchedInv, InHand
      <4>8. /\ pc \in [Threads -> Points]
            /\ w \in Awake <=> pc[w] \notin {"start", "wait", "woken"}
            /\ w \in Awake' <=> pc'[w] \notin {"start", "wait", "woken"}
        BY <1>1 DEF TypeOK, Awake
      <4>2. CASE \/ SelectFromExchange(w) \/ SelectFromLocal(w) \/ WakeForRemainder(w)
                 \/ KeepRemainder(w) \/ NoBatchToSteal(w) \/ StealJob(w, "run")
                 \/ WaitForWork(w) \/ QueueJobs(w) \/ TakeFirst(w) \/ JobEnds(w) \/ JobYields(w)
                 \/ PushBack(w)
        <5>1. CASE SelectFromExchange(w) \/ SelectFromLocal(w) \/ StealJob(w, "run") \/ TakeFirst(w)
          BY <1>1, <4>8, <5>1 DEF Goto, Take, SelectFromExchange, SelectFromLocal,
             StealJob, TakeFirst
        <5>2. CASE WakeForRemainder(w) \/ KeepRemainder(w) \/ NoBatchToSteal(w) \/ WaitForWork(w)
          BY <1>1, <4>8, <5>2 DEF Goto, WakeForRemainder, KeepRemainder,
             NoBatchToSteal, WaitForWork, WakeAdditional
        <5>3. CASE QueueJobs(w) \/ JobEnds(w) \/ JobYields(w) \/ PushBack(w)
          BY <1>1, <4>8, <5>3 DEF Goto, QueueJobs, JobEnds, JobYields, PushBack,
             WakeAdditional
        <5> QED BY <4>2, <5>1, <5>2, <5>3
      <4>3. CASE SelectFromOwnBatch(w)
        BY <1>1, <4>8, <4>3 DEF Goto, SelectFromOwnBatch, Split
      <4>4. CASE PullGlobal(w)
        BY <1>1, <4>8, <4>4 DEF Goto, PullGlobal, Split
      <4>5. CASE PullGlobalDone(w)
        BY <1>1, <4>8, <4>5 DEF Goto, PullGlobalDone
      <4>6. CASE StealBatch(w)
        BY <1>1, <4>8, <4>6 DEF Goto, StealBatch, Split
      <4>7. CASE NothingFound(w)
        <5>1. prio[w] < Lowest
          BY <2>3, <4>1, <4>7, Constants
        <5> QED BY <1>1, <4>8, <4>7, <5>1 DEF Goto, NothingFound
      <4> QED BY <2>3, <4>2, <4>3, <4>4, <4>5, <4>6, <4>7 DEF Worker
    <3>2. Awake' = Awake
      BY <1>4, <3>1 DEF Awake
    <3> QED BY <1>1, <3>1, <3>2
  <2> QED BY <2>1, <2>2, <2>3
<1> QED BY <1>3, <1>5

----------------------------------------------------------------------------
(* Types and hands, one step of a worker after the other *)

\* A batch that can be found has jobs left.
LEMMA FoundHasJobs ==
  ASSUME SchedInv
  PROVE  /\ \A w \in Workers, p \in Priorities : rest[w][p] # None =>
              rest[w][p] \in Batches /\ index[rest[w][p]] < Size[rest[w][p]]
         /\ \A w \in Workers : split[w] # None =>
              split[w] \in Batches /\ index[split[w]] < Size[split[w]]
         /\ \A p \in Priorities : global[p] # <<>> =>
              Head(global[p]) \in Batches /\ index[Head(global[p])] < Size[Head(global[p])]
<1>1. TypeOK /\ \A x \in BatchSpots : \A b \in BatchesAt(x) : index[b] < Size[b]
  BY DEF SchedInv, BatchesApart
<1>2. ASSUME NEW w \in Workers, NEW p \in Priorities, rest[w][p] # None
      PROVE  rest[w][p] \in Batches /\ index[rest[w][p]] < Size[rest[w][p]]
  <2>1. rest[w][p] \in BatchesAt(RestOf(w, p)) /\ RestOf(w, p) \in BatchSpots
    BY <1>2 DEF BatchesAt, RestOf, BatchSpots
  <2> QED BY <1>1, <1>2, <2>1 DEF TypeOK
<1>3. ASSUME NEW w \in Workers, split[w] # None
      PROVE  split[w] \in Batches /\ index[split[w]] < Size[split[w]]
  <2>1. split[w] \in BatchesAt(SplitOf(w)) /\ SplitOf(w) \in BatchSpots
    BY <1>3 DEF BatchesAt, SplitOf, BatchSpots
  <2> QED BY <1>1, <1>3, <2>1 DEF TypeOK
<1>4. ASSUME NEW p \in Priorities, global[p] # <<>>
      PROVE  Head(global[p]) \in Batches /\ index[Head(global[p])] < Size[Head(global[p])]
  <2>1. global[p] \in Seq(Batches) /\ Head(global[p]) = global[p][1] /\ 1 \in DOMAIN global[p]
    BY <1>1, <1>4 DEF TypeOK
  <2>2. global[p][1] \in BatchesAt(GlobalOf(p)) /\ GlobalOf(p) \in BatchSpots
    BY <2>1 DEF BatchesAt, GlobalOf, BatchSpots, Range
  <2> QED BY <1>1, <1>4, <2>1, <2>2 DEF TypeOK
<1> QED BY <1>2, <1>3, <1>4

\* What the next lemmas need of the state of a worker.
LEMMA WorkerFacts ==
  ASSUME SchedInv, NEW w \in Workers
  PROVE  /\ TypeOK /\ InHand(w) /\ Searched(w)
         /\ w \in Threads /\ prio[w] \in Priorities /\ prio[w] \in Nat /\ prio[w] <= Lowest
         /\ scan[w] \subseteq Workers
<1>1. TypeOK /\ InHand(w) /\ Searched(w) /\ w \in Threads
  BY Constants DEF SchedInv
<1>2. prio[w] \in Priorities /\ prio[w] \in Nat /\ prio[w] <= Lowest
  BY <1>1, Constants DEF InHand
<1>3. scan[w] \subseteq Workers
  BY <1>1 DEF TypeOK
<1> QED BY <1>1, <1>2, <1>3

LEMMA StartThreadKeeps ==
  ASSUME SchedInv, NEW w \in Workers, StartThread(w) \/ Woken(w)
  PROVE  TypeOK' /\ InHand(w)' /\ Searched(w)'
<1>1. /\ TypeOK /\ InHand(w) /\ Searched(w)
      /\ w \in Threads /\ prio[w] \in Priorities /\ prio[w] \in Nat
      /\ Lowest \in Nat /\ 0 \in Priorities
  BY WorkerFacts, Constants
<1>2. active' \in 0 .. Cardinality(Workers)
  BY ActiveStep DEF Worker
<1>3. {"exchange", "exited"} \subseteq Points
  BY DEF Points
<1>4. TypeOK'
  <2>1. CASE StartThread(w)
    BY <1>1, <1>2, <1>3, <2>1 DEF TypeOK, StartThread, Goto
  <2>2. CASE Woken(w)
    <3>1. pc' \in [Threads -> Points] /\ prio' \in [Threads -> 0 .. Lowest + 1]
      BY <1>1, <1>3, <2>2 DEF TypeOK, Woken, Goto
    <3>2. UNCHANGED <<submitted, queues, workPresent, exiting, jobVars, scan, job, at,
                      buffers, mainVars>>
      BY <2>2 DEF Woken
    <3> QED BY <1>1, <1>2, <3>1, <3>2 DEF TypeOK
  <2> QED BY <2>1, <2>2
<1>5. InHand(w)'
  <2>1. /\ pc[w] \in {"start", "woken"} /\ pc'[w] \in {"exchange", "exited"} /\ prio'[w] \in Priorities
        /\ UNCHANGED <<job, at, buffer, split, held, done, section>>
    <3>1. pc \in [Threads -> Points] /\ prio \in [Threads -> 0 .. Lowest + 1]
      BY <1>1 DEF TypeOK
    <3>2. CASE StartThread(w)
      BY <1>1, <3>1, <3>2 DEF StartThread, Goto
    <3>3. CASE Woken(w)
      BY <1>1, <3>1, <3>3 DEF Woken, Goto
    <3> QED BY <3>2, <3>3
  <2> QED BY <1>1, <2>1 DEF InHand
<1>6. Searched(w)'
  <2>1. CASE StartThread(w)
    <3>1. pc'[w] = "exchange" /\ prio' = prio /\ local' = local /\ rest' = rest
      BY <1>1, <2>1 DEF TypeOK, StartThread, Goto
    <3> QED BY <1>1, <3>1 DEF Searched, OwnEmpty
  <2>2. CASE Woken(w)
    <3>1. /\ pc[w] = "woken" /\ pc'[w] \in {"exchange", "exited"} /\ prio'[w] = 0
          /\ local' = local /\ rest' = rest
      BY <1>1, <2>2 DEF TypeOK, Woken, Goto
    <3> QED BY <1>1, <3>1 DEF Searched, OwnEmpty
  <2> QED BY <2>1, <2>2
<1> QED BY <1>4, <1>5, <1>6

LEMMA SelectFromExchangeKeeps ==
  ASSUME SchedInv, NEW w \in Workers, SelectFromExchange(w)
  PROVE  TypeOK' /\ InHand(w)' /\ Searched(w)'
<1>1. /\ TypeOK /\ InHand(w) /\ Searched(w) /\ w \in Threads /\ prio[w] \in Priorities
  BY WorkerFacts
<1>2. /\ exchange[prio[w]] \in Jobs \cup {None}
      /\ exchange[prio[w]] # None => section[exchange[prio[w]]] \in Nat
                                     /\ section[exchange[prio[w]]] < Sections[exchange[prio[w]][1]]
  BY <1>1 DEF TypeOK
<1>3. {"run", "local"} \subseteq Points
  BY DEF Points
<1>4. TypeOK'
  BY <1>1, <1>2, <1>3, ZenonT(60) DEF TypeOK, SelectFromExchange, Goto, Take
<1>5. InHand(w)'
  BY <1>1, <1>2 DEF TypeOK, InHand, SelectFromExchange, Goto, Take
<1>6. Searched(w)'
  <2>1. pc[w] = "exchange" /\ pc'[w] \in {"run", "local"} /\ UNCHANGED <<prio, local, rest, held>>
    BY <1>1 DEF TypeOK, SelectFromExchange, Goto, Take
  <2>2. \A p \in 0 .. prio[w] - 1 : OwnEmpty(w, p)
    BY <1>1 DEF Searched
  <2> QED BY <2>1, <2>2 DEF Searched, OwnEmpty
<1> QED BY <1>4, <1>5, <1>6

LEMMA SelectFromLocalKeeps ==
  ASSUME SchedInv, NEW w \in Workers, SelectFromLocal(w)
  PROVE  TypeOK' /\ InHand(w)' /\ Searched(w)'
<1> DEFINE p == prio[w]
<1> DEFINE jobs == local[w][p]
<1>1. /\ TypeOK /\ InHand(w) /\ Searched(w) /\ w \in Threads /\ p \in Priorities /\ p \in Nat
      /\ Priorities \subseteq Nat
  BY WorkerFacts, Constants
<1>2. jobs \in Seq(Jobs)
  BY <1>1 DEF TypeOK
<1>3. {"run", "own"} \subseteq Points
  BY DEF Points
<1>4. CASE jobs = <<>>
  <2>1. UNCHANGED <<local, job, at>> /\ Goto(w, "own") /\ pc[w] = "local"
    BY <1>4 DEF SelectFromLocal
  <2>2. TypeOK'
    BY <1>1, <1>3, <2>1 DEF TypeOK, SelectFromLocal, Goto
  <2>3. InHand(w)' /\ Searched(w)'
    BY <1>1, <1>4, <2>1 DEF TypeOK, InHand, Searched, OwnEmpty, SelectFromLocal, Goto
  <2> QED BY <2>2, <2>3
<1>5. CASE jobs # <<>>
  <2> DEFINE j == jobs[Len(jobs)]
  <2> DEFINE s == SubSeq(jobs, 1, Len(jobs) - 1)
  <2>1. j \in Jobs /\ s \in Seq(Jobs)
    BY <1>2, <1>5
  <2>2. section[j] \in Nat /\ section[j] < Sections[j[1]] /\ j # None
    BY <1>1, <2>1, Constants DEF TypeOK
  <2>3. /\ Take(w, j, "run") /\ local' = [local EXCEPT ![w][p] = s] /\ pc[w] = "local"
    BY <1>5 DEF SelectFromLocal
  <2> HIDE DEF j, s
  <2>4. TypeOK'
    BY <1>1, <1>3, <2>1, <2>2, <2>3 DEF TypeOK, SelectFromLocal, Goto, Take
  <2>5. InHand(w)'
    BY <1>1, <2>1, <2>2, <2>3 DEF TypeOK, InHand, SelectFromLocal, Goto, Take
  <2>6. Searched(w)'
    <3>1. pc'[w] = "run" /\ UNCHANGED <<prio, rest, held>>
      BY <1>1, <2>3 DEF TypeOK, SelectFromLocal, Goto, Take
    <3>2. \A q \in 0 .. prio[w] - 1 : OwnEmpty(w, q)
      BY <1>1 DEF Searched
    <3>3. \A q \in 0 .. prio[w] - 1 : q \in Priorities /\ q # p
      BY <1>1, Constants
    <3>4. local \in [Workers -> [Priorities -> Seq(Jobs)]]
      BY <1>1 DEF TypeOK
    <3>5. \A q \in 0 .. prio[w] - 1 : local'[w][q] = local[w][q]
      BY <2>3, <3>3, <3>4
    <3>6. \A q \in 0 .. prio[w] - 1 : OwnEmpty(w, q)'
      BY <3>1, <3>2, <3>5 DEF OwnEmpty
    <3> QED BY <3>1, <3>6 DEF Searched
  <2> QED BY <2>4, <2>5, <2>6
<1> QED BY <1>4, <1>5

LEMMA NoBatchToStealKeeps ==
  ASSUME SchedInv, NEW w \in Workers, NoBatchToSteal(w) \/ WaitForWork(w) \/ WakeForRemainder(w)
  PROVE  TypeOK' /\ InHand(w)' /\ Searched(w)'
<1>1. /\ TypeOK /\ InHand(w) /\ Searched(w) /\ w \in Threads
  BY WorkerFacts
<1>2. /\ pc' \in [Threads -> Points] /\ scan' \in [Threads -> SUBSET Workers]
      /\ workPresent' \in Nat
  <2>1. {"stealJob", "woken", "keep"} \subseteq Points
    BY DEF Points
  <2>2. pc' \in [Threads -> Points] /\ scan' \in [Threads -> SUBSET Workers]
    <3>1. /\ pc \in [Threads -> Points] /\ scan \in [Threads -> SUBSET Workers]
      BY <1>1 DEF TypeOK
    <3>2. CASE NoBatchToSteal(w)
      BY <1>1, <2>1, <3>1, <3>2 DEF NoBatchToSteal, Goto
    <3>3. CASE WaitForWork(w) \/ WakeForRemainder(w)
      BY <1>1, <2>1, <3>1, <3>3 DEF WaitForWork, WakeForRemainder, Goto
    <3> QED BY <3>2, <3>3
  <2>3. CASE NoBatchToSteal(w) \/ WaitForWork(w)
    <3>1. workPresent' = workPresent \/ (workPresent > 0 /\ workPresent' = workPresent - 1)
      BY <2>3 DEF NoBatchToSteal, WaitForWork
    <3>2. workPresent \in Nat
      BY <1>1 DEF TypeOK
    <3> QED BY <2>2, <3>1, <3>2
  <2>4. CASE WakeForRemainder(w)
    <3>1. split[w] # None
      BY <1>1, <2>4 DEF InHand, WakeForRemainder
    <3>2. index[split[w]] \in Nat /\ Size[split[w]] \in Nat
      BY <1>1, <3>1, FoundHasJobs, Constants DEF TypeOK
    <3>3. /\ workPresent \in Nat /\ Cardinality(Workers) - active \in Nat
      <4>1. workPresent \in Nat /\ active \in 0 .. Cardinality(Workers)
        BY <1>1 DEF TypeOK
      <4>2. Cardinality(Workers) \in Nat
        BY Constants, FS_CardinalityType
      <4> QED BY <4>1, <4>2
    <3>4. workPresent' \in Nat
      BY <2>4, <3>2, <3>3 DEF WakeForRemainder, WakeAdditional, Minimum
    <3> QED BY <2>2, <3>4
  <2> QED BY <2>2, <2>3, <2>4
<1>3. UNCHANGED <<submitted, queues, active, exiting, jobVars, prio, job, at, buffers, mainVars>>
  BY DEF NoBatchToSteal, WaitForWork, WakeForRemainder
<1>4. TypeOK'
  BY <1>1, <1>2, <1>3 DEF TypeOK
<1>5. InHand(w)' /\ Searched(w)'
  <2>1. /\ UNCHANGED <<rest, local, prio, job, at, buffer, split, held, done, section>>
        /\ \/ pc[w] = "stealBatch" /\ pc'[w] = "stealJob"
           \/ pc[w] = "wait" /\ pc'[w] = "woken"
           \/ pc[w] = "wakeMore" /\ pc'[w] = "keep"
    BY <1>1, <1>3 DEF TypeOK, NoBatchToSteal, WaitForWork, WakeForRemainder, Goto
  <2>2. InHand(w)'
    BY <1>1, <2>1 DEF InHand
  <2>3. Searched(w)'
    BY <1>1, <2>1 DEF Searched, OwnEmpty
  <2> QED BY <2>2, <2>3
<1> QED BY <1>4, <1>5

LEMMA KeepRemainderKeeps ==
  ASSUME SchedInv, NEW w \in Workers, KeepRemainder(w)
  PROVE  TypeOK' /\ InHand(w)' /\ Searched(w)'
<1>1. /\ TypeOK /\ InHand(w) /\ Searched(w) /\ w \in Threads /\ prio[w] \in Priorities
      /\ prio[w] \in Nat /\ Priorities = 0 .. Lowest /\ Lowest \in Nat
  BY WorkerFacts, Constants
<1>2. /\ pc' = [pc EXCEPT ![w] = "push"] /\ pc[w] = "keep"
      /\ rest' = [rest EXCEPT ![w][prio[w]] = split[w]] /\ split' = [split EXCEPT ![w] = None]
      /\ UNCHANGED <<submitted, global, index, local, exchange, counts, jobVars, search,
                     job, at, buffer, held, mainVars>>
  BY DEF KeepRemainder, Goto
<1>3. "push" \in Points
  BY DEF Points
<1>4. TypeOK'
  BY <1>1, <1>2, <1>3 DEF TypeOK
<1>5. InHand(w)'
  BY <1>1, <1>2 DEF TypeOK, InHand
<1>6. \A p \in Priorities : p < prio[w] => rest'[w][p] = rest[w][p]
  BY <1>1, <1>2 DEF TypeOK
<1>7. pc'[w] = "push" /\ prio' = prio /\ local' = local
  BY <1>1, <1>2 DEF TypeOK
<1>8. Searched(w)'
  BY <1>1, <1>2, <1>6, <1>7 DEF Searched, OwnEmpty
<1> QED BY <1>4, <1>5, <1>8

LEMMA NothingFoundKeeps ==
  ASSUME SchedInv, NEW w \in Workers, NothingFound(w)
  PROVE  TypeOK' /\ InHand(w)' /\ Searched(w)'
<1>1. /\ TypeOK /\ InHand(w) /\ Searched(w) /\ w \in Threads /\ prio[w] \in Priorities
      /\ prio[w] \in Nat /\ prio[w] <= Lowest /\ Priorities = 0 .. Lowest /\ Lowest \in Nat
  BY WorkerFacts, Constants
<1>2. /\ pc[w] = "stealJob"
      /\ \/ /\ prio[w] < Lowest /\ prio' = [prio EXCEPT ![w] = prio[w] + 1]
            /\ pc' = [pc EXCEPT ![w] = "exchange"]
         \/ prio[w] = Lowest /\ prio' = prio /\ pc' = [pc EXCEPT ![w] = "wait"]
      /\ UNCHANGED <<submitted, queues, workPresent, exiting, jobVars, scan, job, at,
                     buffers, mainVars>>
  BY <1>1 DEF NothingFound, Goto
<1>3. /\ active' \in 0 .. Cardinality(Workers)
      /\ {"exchange", "wait"} \subseteq Points
  BY ActiveStep DEF Worker, Points
<1>4. TypeOK'
  <2>1. /\ pc \in [Threads -> Points] /\ prio \in [Threads -> 0 .. Lowest + 1]
        /\ prio[w] < Lowest => prio[w] + 1 \in 0 .. Lowest + 1
    <3>1. pc \in [Threads -> Points] /\ prio \in [Threads -> 0 .. Lowest + 1]
      BY <1>1 DEF TypeOK
    <3>2. prio[w] < Lowest => prio[w] + 1 \in 0 .. Lowest + 1
      BY <1>1, Constants
    <3> QED BY <3>1, <3>2
  <2>2. pc' \in [Threads -> Points]
    BY <1>2, <1>3, <2>1
  <2>3. prio' \in [Threads -> 0 .. Lowest + 1]
    BY <1>2, <2>1
  <2> QED BY <1>1, <1>2, <1>3, <2>2, <2>3 DEF TypeOK
<1>7. \/ pc'[w] = "exchange" /\ prio'[w] = prio[w] + 1 /\ prio[w] < Lowest
      \/ pc'[w] = "wait" /\ prio'[w] = Lowest /\ prio[w] = Lowest
  BY <1>1, <1>2 DEF TypeOK
<1>5. InHand(w)'
  <2>1. prio'[w] \in Priorities
    BY <1>1, <1>7
  <2> QED BY <1>1, <1>2, <1>7, <2>1 DEF InHand
<1>6. \A p \in 0 .. prio[w] : OwnEmpty(w, p)
  BY <1>1, <1>2 DEF Searched, OwnEmpty
<1>8. local' = local /\ rest' = rest
  BY <1>2
<1>9. Searched(w)'
  BY <1>1, <1>6, <1>7, <1>8 DEF Searched, OwnEmpty
<1> QED BY <1>4, <1>5, <1>9

LEMMA StealJobKeeps ==
  ASSUME SchedInv, NEW w \in Workers, StealJob(w, "run")
  PROVE  TypeOK' /\ InHand(w)' /\ Searched(w)'
<1> DEFINE p == prio[w]
<1>1. /\ TypeOK /\ InHand(w) /\ Searched(w) /\ w \in Threads /\ p \in Priorities /\ p \in Nat
      /\ scan[w] \subseteq Workers /\ pc[w] = "stealJob" /\ Priorities \subseteq Nat
  BY WorkerFacts, Constants DEF StealJob
<1>2. UNCHANGED <<submitted, global, index, rest, exchange, counts, jobVars, prio,
                  buffers, mainVars>>
  BY DEF StealJob
<1>3. ASSUME NEW v \in scan[w], scan' = [scan EXCEPT ![w] = @ \ {v}],
             UNCHANGED <<pc, local, job, at>>
      PROVE  TypeOK' /\ InHand(w)' /\ Searched(w)'
  <2>1. TypeOK'
    BY <1>1, <1>2, <1>3 DEF TypeOK
  <2> QED BY <1>1, <1>2, <1>3, <2>1 DEF InHand, Searched, OwnEmpty
<1>4. ASSUME NEW v \in scan[w], local[v][p] # <<>>, Take(w, Head(local[v][p]), "run"),
             local' = [local EXCEPT ![v][p] = Tail(local[v][p])],
             scan' = [scan EXCEPT ![w] = {}]
      PROVE  TypeOK' /\ InHand(w)' /\ Searched(w)'
  <2> DEFINE j == Head(local[v][p])
  <2> DEFINE s == Tail(local[v][p])
  <2>1. local[v][p] \in Seq(Jobs)
    BY <1>1 DEF TypeOK
  <2>2. j \in Jobs /\ s \in Seq(Jobs)
    BY <1>4, <2>1
  <2>3. section[j] \in Nat /\ section[j] < Sections[j[1]] /\ j # None
    BY <1>1, <2>2, Constants DEF TypeOK
  <2>4. Take(w, j, "run") /\ local' = [local EXCEPT ![v][p] = s] /\ "run" \in Points
    BY <1>4 DEF Points
  <2> HIDE DEF j, s
  <2>5. TypeOK'
    <3>1. /\ pc' \in [Threads -> Points] /\ job' \in [Threads -> Jobs \cup {None}]
          /\ at' \in [Threads -> Nat] /\ scan' \in [Threads -> SUBSET Workers]
      <4>1. /\ pc \in [Threads -> Points] /\ job \in [Threads -> Jobs \cup {None}]
            /\ at \in [Threads -> Nat] /\ scan \in [Threads -> SUBSET Workers]
        BY <1>1 DEF TypeOK
      <4> QED BY <1>1, <1>4, <2>2, <2>3, <2>4, <4>1 DEF Take, Goto
    <3>2. local' \in [Workers -> [Priorities -> Seq(Jobs)]]
      BY <1>1, <2>2, <2>4 DEF TypeOK
    <3> QED BY <1>1, <1>2, <3>1, <3>2 DEF TypeOK
  <2>6. InHand(w)'
    BY <1>1, <1>2, <2>2, <2>3, <2>4 DEF TypeOK, InHand, Take, Goto
  <2>7. pc'[w] = "run" /\ prio' = prio /\ rest' = rest
    BY <1>1, <1>2, <2>4 DEF TypeOK, Take, Goto
  <2>8. \A q \in Priorities : q < p => local'[w][q] = local[w][q]
    BY <1>1, <2>4 DEF TypeOK
  <2>9. \A q \in 0 .. p - 1 : q \in Priorities /\ q < p
    BY <1>1, Constants
  <2> QED BY <1>1, <2>5, <2>6, <2>7, <2>8, <2>9 DEF Searched, OwnEmpty
<1> QED BY <1>3, <1>4 DEF StealJob

\* What a split leaves in the hands of the worker.
LEMMA SplitInHand ==
  ASSUME SchedInv, NEW w \in Workers, NEW b \in Batches, NEW n \in Nat, NEW s \in Seq(Jobs),
         NEW point \in {"push", "global"}, SplitsOff(w, b, n, s, point),
         pc[w] \in {"own", "global", "stealBatch"},
         UNCHANGED <<prio, job, at, held>>
  PROVE  /\ buffer' \in [Workers -> Seq(Jobs)] /\ \A v \in Workers : Len(buffer'[v]) <= LocalSize
         /\ index' \in [Batches -> Nat] /\ \A c \in Batches : index'[c] <= Size[c]
         /\ split' \in [Workers -> Batches \cup {None}]
         /\ pc' \in [Threads -> Points] /\ pc'[w] \in {"wakeMore", point}
         /\ InHand(w)'
<1>1. /\ TypeOK /\ InHand(w) /\ w \in Threads
      /\ LocalSize \in Nat /\ b # None
      /\ buffer[w] \in Seq(Jobs) /\ index[b] \in Nat
  BY WorkerFacts, Constants DEF TypeOK
<1>2. /\ n >= 1 /\ Len(s) = n /\ Len(buffer[w]) + n <= LocalSize /\ index[b] + n <= Size[b]
      /\ buffer' = [buffer EXCEPT ![w] = buffer[w] \o s]
      /\ index' = [index EXCEPT ![b] = index[b] + n]
      /\ \/ split' = [split EXCEPT ![w] = b] /\ pc' = [pc EXCEPT ![w] = "wakeMore"]
         \/ split' = [split EXCEPT ![w] = None] /\ pc' = [pc EXCEPT ![w] = point]
  BY DEF SplitsOff, Goto
<1>3. buffer[w] \o s \in Seq(Jobs) /\ Len(buffer[w] \o s) = Len(buffer[w]) + n
      /\ buffer[w] \o s # <<>>
  <2>1. /\ buffer[w] \o s \in Seq(Jobs) /\ Len(buffer[w] \o s) = Len(buffer[w]) + Len(s)
        /\ Len(buffer[w]) \in Nat
    BY <1>1, ConcatProperties
  <2> DEFINE t == buffer[w] \o s
  <2>2. Len(t) >= 1
    BY <1>2, <2>1
  <2> HIDE DEF t
  <2>3. t # <<>>
    BY <2>2
  <2> QED BY <1>2, <2>1, <2>3 DEF t
<1>4. {"wakeMore", point} \subseteq Points
  BY DEF Points
<1>5. /\ buffer \in [Workers -> Seq(Jobs)] /\ \A v \in Workers : Len(buffer[v]) <= LocalSize
      /\ index \in [Batches -> Nat] /\ \A c \in Batches : index[c] <= Size[c]
      /\ split \in [Workers -> Batches \cup {None}]
      /\ pc \in [Threads -> Points]
  BY <1>1 DEF TypeOK
<1> DEFINE t == buffer[w] \o s
<1> HIDE DEF t
<1>6. buffer' = [buffer EXCEPT ![w] = t] /\ t \in Seq(Jobs) /\ Len(t) <= LocalSize /\ t # <<>>
  BY <1>2, <1>3 DEF t
<1>7. buffer' \in [Workers -> Seq(Jobs)] /\ \A v \in Workers : Len(buffer'[v]) <= LocalSize
  BY <1>5, <1>6
<1>8. index' \in [Batches -> Nat] /\ \A c \in Batches : index'[c] <= Size[c]
  BY <1>1, <1>2, <1>5
<1>9. split' \in [Workers -> Batches \cup {None}] /\ pc' \in [Threads -> Points]
  BY <1>1, <1>2, <1>4, <1>5
<1>10. /\ buffer'[w] # <<>>
       /\ \/ pc'[w] = "wakeMore" /\ split'[w] # None
          \/ pc'[w] = point /\ split'[w] = None
  BY <1>1, <1>2, <1>5, <1>6
<1>11. InHand(w)'
  BY <1>1, <1>10 DEF InHand
<1> QED BY <1>7, <1>8, <1>9, <1>10, <1>11

LEMMA SelectFromOwnBatchKeeps ==
  ASSUME SchedInv, NEW w \in Workers, SelectFromOwnBatch(w)
  PROVE  TypeOK' /\ InHand(w)' /\ Searched(w)'
<1> DEFINE p == prio[w]
<1> DEFINE b == rest[w][p]
<1>1. /\ TypeOK /\ InHand(w) /\ Searched(w) /\ w \in Threads /\ p \in Priorities /\ p \in Nat
      /\ pc[w] = "own" /\ Priorities = 0 .. Lowest /\ Lowest \in Nat
  BY WorkerFacts, Constants DEF SelectFromOwnBatch
<1>2. UNCHANGED <<submitted, global, local, exchange, counts, jobVars, search, job, at,
                  held, mainVars>>
  BY DEF SelectFromOwnBatch
<1>3. CASE b = None
  <2>1. UNCHANGED <<rest, index, buffer, split>> /\ pc' = [pc EXCEPT ![w] = "global"]
    BY <1>3 DEF SelectFromOwnBatch, Goto
  <2>2. "global" \in Points
    BY DEF Points
  <2>3. TypeOK'
    BY <1>1, <1>2, <2>1, <2>2 DEF TypeOK
  <2>4. pc'[w] = "global"
    BY <1>1, <2>1 DEF TypeOK
  <2>5. InHand(w)'
    BY <1>1, <1>2, <2>1, <2>4 DEF InHand
  <2>6. Searched(w)'
    BY <1>1, <1>2, <1>3, <2>1, <2>4 DEF InHand, Searched, OwnEmpty
  <2> QED BY <2>3, <2>5, <2>6
<1>4. CASE b # None
  <2>1. Split(w, b, "push") /\ rest' = [rest EXCEPT ![w][p] = None]
    BY <1>4 DEF SelectFromOwnBatch
  <2>2. b \in Batches /\ index[b] < Size[b]
    BY <1>1, <1>4, FoundHasJobs
  <2>3. buffer[w] = <<>> /\ Len(buffer[w]) < LocalSize
    BY <1>1, Constants DEF InHand
  <2> HIDE DEF b
  <2>4. PICK n \in Nat, s \in Seq(Jobs) : SplitsOff(w, b, n, s, "push")
    BY <1>1, <2>1, <2>2, <2>3, SplitFacts
  <2>5. /\ buffer' \in [Workers -> Seq(Jobs)] /\ \A v \in Workers : Len(buffer'[v]) <= LocalSize
        /\ index' \in [Batches -> Nat] /\ \A c \in Batches : index'[c] <= Size[c]
        /\ split' \in [Workers -> Batches \cup {None}]
        /\ pc' \in [Threads -> Points] /\ pc'[w] \in {"wakeMore", "push"}
        /\ InHand(w)'
    BY <1>1, <1>2, <2>2, <2>4, SplitInHand
  <2>6. rest' \in [Workers -> [Priorities -> Batches \cup {None}]]
    BY <1>1, <2>1 DEF TypeOK
  <2>7. TypeOK'
    BY <1>1, <1>2, <2>5, <2>6 DEF TypeOK
  <2>8. rest'[w][p] = None /\ \A q \in Priorities : rest[w][q] = None => rest'[w][q] = None
    BY <1>1, <2>1 DEF TypeOK
  <2>9. \A q \in 0 .. p - 1 : q \in Priorities
    BY <1>1
  <2>10. local[w][p] = <<>>
    BY <1>1 DEF Searched
  <2>11. Searched(w)'
    BY <1>1, <1>2, <2>5, <2>8, <2>9, <2>10 DEF Searched, OwnEmpty
  <2> QED BY <2>5, <2>7, <2>11
<1> QED BY <1>3, <1>4

LEMMA PullGlobalKeeps ==
  ASSUME SchedInv, NEW w \in Workers, PullGlobal(w)
  PROVE  TypeOK' /\ InHand(w)' /\ Searched(w)'
<1> DEFINE p == prio[w]
<1> DEFINE b == Head(global[p])
<1>1. /\ TypeOK /\ InHand(w) /\ Searched(w) /\ w \in Threads /\ p \in Priorities /\ p \in Nat
      /\ pc[w] = "global" /\ global[p] # <<>> /\ Len(buffer[w]) < LocalSize
      /\ Split(w, b, "global") /\ global' = [global EXCEPT ![p] = Tail(@)]
  BY WorkerFacts DEF PullGlobal
<1>2. UNCHANGED <<submitted, rest, local, exchange, counts, jobVars, search, job, at,
                  held, mainVars>>
  BY DEF PullGlobal
<1>3. b \in Batches /\ index[b] < Size[b]
  BY <1>1, FoundHasJobs
<1> HIDE DEF b
<1>4. PICK n \in Nat, s \in Seq(Jobs) : SplitsOff(w, b, n, s, "global")
  BY <1>1, <1>3, SplitFacts
<1>5. /\ buffer' \in [Workers -> Seq(Jobs)] /\ \A v \in Workers : Len(buffer'[v]) <= LocalSize
      /\ index' \in [Batches -> Nat] /\ \A c \in Batches : index'[c] <= Size[c]
      /\ split' \in [Workers -> Batches \cup {None}]
      /\ pc' \in [Threads -> Points] /\ pc'[w] \in {"wakeMore", "global"}
      /\ InHand(w)'
  BY <1>1, <1>2, <1>3, <1>4, SplitInHand
<1>6. global' \in [Priorities -> Seq(Batches)]
  <2>1. global \in [Priorities -> Seq(Batches)] /\ Tail(global[p]) \in Seq(Batches)
    BY <1>1 DEF TypeOK
  <2> QED BY <1>1, <2>1
<1>7. TypeOK'
  BY <1>1, <1>2, <1>5, <1>6 DEF TypeOK
<1>8. Searched(w)'
  BY <1>1, <1>2, <1>5 DEF Searched, OwnEmpty
<1> QED BY <1>5, <1>7, <1>8

LEMMA StealBatchKeeps ==
  ASSUME SchedInv, NEW w \in Workers, StealBatch(w)
  PROVE  TypeOK' /\ InHand(w)' /\ Searched(w)'
<1> DEFINE p == prio[w]
<1>1. /\ TypeOK /\ InHand(w) /\ Searched(w) /\ w \in Threads /\ p \in Priorities /\ p \in Nat
      /\ pc[w] = "stealBatch" /\ scan[w] \subseteq Workers
      /\ Priorities = 0 .. Lowest /\ Lowest \in Nat
  BY WorkerFacts, Constants DEF StealBatch
<1>2. UNCHANGED <<submitted, global, local, exchange, counts, jobVars, prio, job, at,
                  held, mainVars>>
  BY DEF StealBatch
<1>3. ASSUME NEW v \in scan[w], scan' = [scan EXCEPT ![w] = @ \ {v}],
             UNCHANGED <<pc, rest, index, buffer, split>>
      PROVE  TypeOK' /\ InHand(w)' /\ Searched(w)'
  <2>1. TypeOK'
    BY <1>1, <1>2, <1>3 DEF TypeOK
  <2> QED BY <1>1, <1>2, <1>3, <2>1 DEF InHand, Searched, OwnEmpty
<1>4. ASSUME NEW v \in scan[w], rest[v][p] # None, Split(w, rest[v][p], "push"),
             rest' = [rest EXCEPT ![v][p] = None], scan' = [scan EXCEPT ![w] = {}]
      PROVE  TypeOK' /\ InHand(w)' /\ Searched(w)'
  <2> DEFINE b == rest[v][p]
  <2>2. b \in Batches /\ index[b] < Size[b] /\ v \in Workers
    BY <1>1, <1>4, FoundHasJobs
  <2>3. buffer[w] = <<>> /\ Len(buffer[w]) < LocalSize /\ Split(w, b, "push")
    BY <1>1, <1>4, Constants DEF InHand
  <2> HIDE DEF b
  <2>4. PICK n \in Nat, s \in Seq(Jobs) : SplitsOff(w, b, n, s, "push")
    BY <1>1, <2>2, <2>3, SplitFacts
  <2>5. /\ buffer' \in [Workers -> Seq(Jobs)] /\ \A u \in Workers : Len(buffer'[u]) <= LocalSize
        /\ index' \in [Batches -> Nat] /\ \A c \in Batches : index'[c] <= Size[c]
        /\ split' \in [Workers -> Batches \cup {None}]
        /\ pc' \in [Threads -> Points] /\ pc'[w] \in {"wakeMore", "push"}
        /\ InHand(w)'
    BY <1>1, <1>2, <2>2, <2>4, SplitInHand
  <2>6. /\ rest' \in [Workers -> [Priorities -> Batches \cup {None}]]
        /\ scan' \in [Threads -> SUBSET Workers]
    BY <1>1, <1>4, <2>2 DEF TypeOK
  <2>7. TypeOK'
    BY <1>1, <1>2, <2>5, <2>6 DEF TypeOK
  <2>8. \A q \in Priorities : rest[w][q] = None => rest'[w][q] = None
    BY <1>1, <1>4, <2>2 DEF TypeOK
  <2>9. \A q \in 0 .. p - 1 : q \in Priorities
    BY <1>1
  <2>10. local[w][p] = <<>> /\ rest[w][p] = None
    BY <1>1 DEF Searched
  <2>11. Searched(w)'
    BY <1>1, <1>2, <2>5, <2>8, <2>9, <2>10 DEF Searched, OwnEmpty
  <2> QED BY <2>5, <2>7, <2>11
<1> QED BY <1>3, <1>4 DEF StealBatch

LEMMA PullGlobalDoneKeeps ==
  ASSUME SchedInv, NEW w \in Workers, PullGlobalDone(w)
  PROVE  TypeOK' /\ InHand(w)' /\ Searched(w)'
<1> DEFINE p == prio[w]
<1>1. /\ TypeOK /\ InHand(w) /\ Searched(w) /\ w \in Threads /\ p \in Priorities /\ p \in Nat
      /\ pc[w] = "global" /\ Priorities = 0 .. Lowest /\ Lowest \in Nat
  BY WorkerFacts, Constants DEF PullGlobalDone
<1>2. /\ UNCHANGED <<submitted, queues, counts, jobVars, at, buffer, split, mainVars>>
      /\ {"push", "stealBatch", "run"} \subseteq Points
  BY DEF PullGlobalDone, Points
<1>3. CASE buffer[w] # <<>>
  <2>1. pc' = [pc EXCEPT ![w] = "push"] /\ UNCHANGED <<search, job, held>>
    BY <1>3 DEF PullGlobalDone, Goto
  <2>2. TypeOK' /\ pc'[w] = "push"
    BY <1>1, <1>2, <2>1 DEF TypeOK
  <2> QED BY <1>1, <1>2, <1>3, <2>1, <2>2 DEF InHand, Searched, OwnEmpty
<1>4. CASE buffer[w] = <<>> /\ held[w] = NotHeld
  <2>1. /\ pc' = [pc EXCEPT ![w] = "stealBatch"] /\ scan' = [scan EXCEPT ![w] = Workers \ {w}]
        /\ UNCHANGED <<prio, job, held>>
    BY <1>4 DEF PullGlobalDone, Goto
  <2>2. TypeOK' /\ pc'[w] = "stealBatch"
    BY <1>1, <1>2, <2>1 DEF TypeOK
  <2> QED BY <1>1, <1>2, <1>4, <2>1, <2>2 DEF InHand, Searched, OwnEmpty
<1>5. CASE buffer[w] = <<>> /\ held[w] # NotHeld
  <2>1. /\ held[w].job \in Jobs /\ held[w].prio \in Priorities /\ p < held[w].prio
        /\ at[w] < Sections[held[w].job[1]] /\ held[w].job # None
        /\ \A q \in 0 .. held[w].prio - 1 : OwnEmpty(w, q)
    BY <1>1, <1>5, HeldParts, Constants DEF InHand, Searched
  <2>2. prio' = [prio EXCEPT ![w] = p + 1] /\ scan' = scan
    BY <1>5 DEF PullGlobalDone
  <2>3. p + 1 \in Priorities /\ p + 1 \in 0 .. Lowest + 1 /\ p + 1 <= held[w].prio
    BY <1>1, <2>1
  <2>4. prio' \in [Threads -> 0 .. Lowest + 1] /\ prio'[w] = p + 1
    BY <1>1, <2>2, <2>3 DEF TypeOK
  <2>5. \A q \in 0 .. p : OwnEmpty(w, q)
    BY <1>1, <2>1
  <2>6. CASE p + 1 < held[w].prio
    <3>1. UNCHANGED <<pc, job, held>>
      BY <1>5, <2>6 DEF PullGlobalDone
    <3>2. TypeOK'
      BY <1>1, <1>2, <2>2, <2>4, <3>1 DEF TypeOK
    <3>3. OwnEmpty(w, p + 1)
      BY <1>1, <2>1, <2>6
    <3>4. InHand(w)'
      BY <1>1, <1>2, <2>3, <2>4, <2>6, <3>1 DEF InHand
    <3>5. Searched(w)'
      BY <1>1, <1>2, <2>1, <2>4, <2>5, <3>1, <3>3 DEF Searched, OwnEmpty
    <3> QED BY <3>2, <3>4, <3>5
  <2>7. CASE p + 1 = held[w].prio
    <3>1. /\ job' = [job EXCEPT ![w] = held[w].job] /\ held' = [held EXCEPT ![w] = NotHeld]
          /\ pc' = [pc EXCEPT ![w] = "run"]
      BY <1>1, <1>5, <2>7 DEF PullGlobalDone, Goto
    <3>2. /\ job' \in [Threads -> Jobs \cup {None}] /\ pc' \in [Threads -> Points]
          /\ held' \in [Workers -> [job : Jobs, prio : Priorities] \cup {NotHeld}]
          /\ job'[w] = held[w].job /\ held'[w] = NotHeld /\ pc'[w] = "run"
      BY <1>1, <1>2, <2>1, <3>1 DEF TypeOK
    <3>3. TypeOK'
      BY <1>1, <1>2, <2>2, <2>4, <3>2 DEF TypeOK
    <3>4. InHand(w)'
      BY <1>1, <1>2, <1>5, <2>1, <2>3, <2>4, <3>2 DEF InHand
    <3>5. Searched(w)'
      BY <1>1, <1>2, <2>4, <2>5, <3>2 DEF Searched, OwnEmpty
    <3> QED BY <3>3, <3>4, <3>5
  <2> QED BY <1>1, <2>1, <2>3, <2>6, <2>7
<1> QED BY <1>3, <1>4, <1>5

\* The own queue is empty when the split jobs are queued, so there is room for
\* them (jobs.c:247-256).
LEMMA RoomForMore ==
  ASSUME SchedInv, NEW w \in Workers, pc[w] = "push"
  PROVE  /\ local[w][prio[w]] = <<>> /\ buffer[w] \in Seq(Jobs) /\ buffer[w] # <<>>
         /\ Head(buffer[w]) \in Jobs /\ Tail(buffer[w]) \in Seq(Jobs)
         /\ Len(Tail(buffer[w])) = Len(buffer[w]) - 1 /\ Len(buffer[w]) >= 1
         /\ Len(local[w][prio[w]]) < LocalSize - Len(Tail(buffer[w]))
<1>1. local[w][prio[w]] = <<>> /\ buffer[w] # <<>> /\ TypeOK
  BY WorkerFacts DEF Searched, InHand
<1>2. buffer[w] \in Seq(Jobs) /\ Len(buffer[w]) <= LocalSize /\ LocalSize \in Nat
  BY <1>1, Constants DEF TypeOK
<1>3. /\ Head(buffer[w]) \in Jobs /\ Tail(buffer[w]) \in Seq(Jobs)
      /\ Len(Tail(buffer[w])) = Len(buffer[w]) - 1 /\ Len(buffer[w]) >= 1
  BY <1>1, <1>2
<1> QED BY <1>1, <1>2, <1>3

\* So nothing is dropped.
LEMMA QueueJobsEffect ==
  ASSUME SchedInv, NEW w \in Workers, QueueJobs(w)
  PROVE  /\ local' = [local EXCEPT ![w][prio[w]] = Tail(buffer[w])]
         /\ buffer' = [buffer EXCEPT ![w] = <<Head(buffer[w])>>]
<1>1. /\ pc[w] = "push" /\ TypeOK /\ prio[w] \in Priorities
  BY WorkerFacts DEF QueueJobs
<1>2. /\ local[w][prio[w]] = <<>> /\ Tail(buffer[w]) \in Seq(Jobs)
      /\ Len(local[w][prio[w]]) < LocalSize - Len(Tail(buffer[w]))
  BY <1>1, RoomForMore
<1>3. local[w][prio[w]] \o Tail(buffer[w]) = Tail(buffer[w])
  BY <1>2
<1>4. CASE Tail(buffer[w]) # <<>>
  BY <1>2, <1>3, <1>4 DEF QueueJobs
<1>5. CASE Tail(buffer[w]) = <<>>
  <2>1. local' = local
    BY <1>5 DEF QueueJobs
  <2>2. local = [local EXCEPT ![w][prio[w]] = <<>>]
    BY <1>1, <1>2 DEF TypeOK
  <2> QED BY <1>5, <2>1, <2>2 DEF QueueJobs
<1> QED BY <1>4, <1>5

LEMMA QueueJobsKeeps ==
  ASSUME SchedInv, NEW w \in Workers, QueueJobs(w)
  PROVE  TypeOK' /\ InHand(w)' /\ Searched(w)'
<1> DEFINE p == prio[w]
<1> DEFINE j == Head(buffer[w])
<1> DEFINE more == Tail(buffer[w])
<1>1. /\ TypeOK /\ InHand(w) /\ Searched(w) /\ w \in Threads /\ p \in Priorities /\ p \in Nat
      /\ pc[w] = "push" /\ Priorities = 0 .. Lowest /\ Lowest \in Nat
      /\ LocalSize \in Nat /\ LocalSize >= 1
  BY WorkerFacts, Constants DEF QueueJobs
<1>2. /\ j \in Jobs /\ more \in Seq(Jobs) /\ Len(buffer[w]) - 1 \in Nat
  BY <1>1, RoomForMore
<1>3. /\ local' = [local EXCEPT ![w][p] = more]
      /\ buffer' = [buffer EXCEPT ![w] = <<j>>]
  BY QueueJobsEffect
<1>4. /\ UNCHANGED <<submitted, global, index, rest, exchange, active, exiting, jobVars,
                     search, job, at, split, held, mainVars>>
      /\ \/ held[w] = NotHeld /\ pc' = [pc EXCEPT ![w] = "take"]
         \/ held[w] # NotHeld /\ pc' = [pc EXCEPT ![w] = "pushback"]
  BY DEF QueueJobs, Goto
<1>5. workPresent' \in Nat
  <2>1. /\ workPresent \in Nat /\ Cardinality(Workers) - active \in Nat
    <3>1. workPresent \in Nat /\ active \in 0 .. Cardinality(Workers)
      BY <1>1 DEF TypeOK
    <3>2. Cardinality(Workers) \in Nat
      BY Constants, FS_CardinalityType
    <3> QED BY <3>1, <3>2
  <2>2. WakeAdditional(Len(buffer[w]) - 1)
    BY DEF QueueJobs
  <2> QED BY <1>2, <2>1, <2>2 DEF WakeAdditional, Minimum
<1> HIDE DEF j, more
<1>6. /\ local' \in [Workers -> [Priorities -> Seq(Jobs)]]
      /\ buffer' \in [Workers -> Seq(Jobs)] /\ \A v \in Workers : Len(buffer'[v]) <= LocalSize
      /\ Len(buffer'[w]) = 1
  <2>1. <<j>> \in Seq(Jobs) /\ Len(<<j>>) = 1
    BY <1>2
  <2>2. local' \in [Workers -> [Priorities -> Seq(Jobs)]]
    BY <1>1, <1>2, <1>3 DEF TypeOK
  <2> QED BY <1>1, <1>3, <2>1, <2>2 DEF TypeOK
<1>7. {"take", "pushback"} \subseteq Points
  BY DEF Points
<1>8. pc' \in [Threads -> Points] /\ pc'[w] = IF held[w] = NotHeld THEN "take" ELSE "pushback"
  BY <1>1, <1>4, <1>7, ZenonT(60) DEF TypeOK
<1>9. TypeOK'
  BY <1>1, <1>4, <1>5, <1>6, <1>8 DEF TypeOK
<1>10. InHand(w)'
  BY <1>1, <1>4, <1>6, <1>8 DEF InHand
<1>11. \A q \in Priorities : q < p => local'[w][q] = local[w][q]
  BY <1>1, <1>3 DEF TypeOK
<1>12. Searched(w)'
  BY <1>1, <1>4, <1>8, <1>11 DEF Searched, OwnEmpty
<1> QED BY <1>9, <1>10, <1>12

\* A job in hand has not been let go of and has not ended.
LEMMA CarriedIsAlive ==
  ASSUME SchedInv
  PROVE  /\ \A t \in Threads : job[t] # None => job[t] \notin lost /\ job[t] \notin done
         /\ \A w \in Workers : held[w].job # None =>
              held[w].job \notin lost /\ held[w].job \notin done
<1>1. /\ \A x, y \in JobSpots : x # y => JobsAt(x) \cap JobsAt(y) = {}
      /\ \A x \in JobSpots : \A j \in JobsAt(x) : j \notin lost
  BY DEF SchedInv, JobsApart
<1>2. AtEnd \in JobSpots /\ JobsAt(AtEnd) = done
  BY DEF AtEnd, JobsAt, JobSpots
<1>3. ASSUME NEW t \in Threads, job[t] # None
      PROVE  job[t] \notin lost /\ job[t] \notin done
  <2>1. RunBy(t) \in JobSpots /\ job[t] \in JobsAt(RunBy(t)) /\ RunBy(t) # AtEnd
    BY <1>3 DEF RunBy, JobsAt, JobSpots, AtEnd
  <2> QED BY <1>1, <1>2, <2>1
<1>4. ASSUME NEW w \in Workers, held[w].job # None
      PROVE  held[w].job \notin lost /\ held[w].job \notin done
  <2>1. HeldBy(w) \in JobSpots /\ held[w].job \in JobsAt(HeldBy(w)) /\ HeldBy(w) # AtEnd
    BY <1>4 DEF HeldBy, JobsAt, JobSpots, AtEnd
  <2> QED BY <1>1, <1>2, <2>1
<1> QED BY <1>3, <1>4

LEMMA TakeFirstKeeps ==
  ASSUME SchedInv, NEW w \in Workers, TakeFirst(w)
  PROVE  TypeOK' /\ InHand(w)' /\ Searched(w)'
<1> DEFINE j == Head(buffer[w])
<1>1. /\ TypeOK /\ InHand(w) /\ Searched(w) /\ w \in Threads /\ pc[w] = "take"
  BY WorkerFacts DEF TakeFirst
<1>2. buffer[w] \in Seq(Jobs) /\ Len(buffer[w]) = 1 /\ LocalSize \in Nat
  BY <1>1, Constants DEF InHand, TypeOK
<1>3. j \in Jobs
  BY <1>2
<1>4. section[j] \in Nat /\ section[j] < Sections[j[1]] /\ j # None
  BY <1>1, <1>3, Constants DEF TypeOK
<1>5. /\ job' = [job EXCEPT ![w] = j] /\ at' = [at EXCEPT ![w] = section[j]]
      /\ pc' = [pc EXCEPT ![w] = "run"] /\ buffer' = [buffer EXCEPT ![w] = <<>>]
      /\ UNCHANGED <<submitted, queues, counts, jobVars, search, split, held, mainVars>>
  BY DEF TakeFirst, Take, Goto
<1> HIDE DEF j
<1>6. /\ job' \in [Threads -> Jobs \cup {None}] /\ at' \in [Threads -> Nat]
      /\ pc' \in [Threads -> Points] /\ buffer' \in [Workers -> Seq(Jobs)]
      /\ \A v \in Workers : Len(buffer'[v]) <= LocalSize
      /\ job'[w] = j /\ at'[w] = section[j] /\ pc'[w] = "run" /\ buffer'[w] = <<>>
  <2>1. "run" \in Points /\ <<>> \in Seq(Jobs) /\ Len(<<>>) <= LocalSize
    BY <1>2 DEF Points
  <2> QED BY <1>1, <1>3, <1>4, <1>5, <2>1 DEF TypeOK
<1>7. TypeOK'
  BY <1>1, <1>5, <1>6 DEF TypeOK
<1>8. InHand(w)'
  BY <1>1, <1>4, <1>5, <1>6 DEF InHand
<1>9. Searched(w)'
  BY <1>1, <1>5, <1>6 DEF Searched, OwnEmpty
<1> QED BY <1>7, <1>8, <1>9

LEMMA JobEndsKeeps ==
  ASSUME SchedInv, NEW w \in Workers, JobEnds(w)
  PROVE  TypeOK' /\ InHand(w)' /\ Searched(w)'
<1>1. /\ TypeOK /\ InHand(w) /\ Searched(w) /\ w \in Threads /\ pc[w] = "run"
      /\ prio[w] \in Nat /\ 0 \in Priorities /\ Lowest \in Nat
  BY WorkerFacts, Constants DEF JobEnds
<1>2. job[w] \in Jobs /\ job[w] # None /\ job[w] \notin lost
  BY <1>1, CarriedIsAlive DEF InHand, TypeOK
<1>3. /\ done' = done \cup {job[w]} /\ job' = [job EXCEPT ![w] = None]
      /\ prio' = [prio EXCEPT ![w] = 0] /\ pc' = [pc EXCEPT ![w] = "exchange"]
      /\ UNCHANGED <<submitted, queues, counts, section, reached, scan, at, buffers, mainVars>>
  BY DEF JobEnds, Goto
<1>4. /\ done' \subseteq Jobs /\ lost \subseteq Jobs \ done'
      /\ job' \in [Threads -> Jobs \cup {None}] /\ pc' \in [Threads -> Points]
      /\ prio' \in [Threads -> 0 .. Lowest + 1]
      /\ job'[w] = None /\ prio'[w] = 0 /\ pc'[w] = "exchange"
  BY <1>1, <1>2, <1>3 DEF TypeOK, Points
<1>5. TypeOK'
  BY <1>1, <1>3, <1>4 DEF TypeOK
<1>6. InHand(w)'
  BY <1>1, <1>3, <1>4 DEF InHand
<1>7. Searched(w)'
  BY <1>1, <1>3, <1>4 DEF Searched, OwnEmpty
<1> QED BY <1>5, <1>6, <1>7

LEMMA JobYieldsKeeps ==
  ASSUME SchedInv, NEW w \in Workers, JobYields(w)
  PROVE  TypeOK' /\ InHand(w)' /\ Searched(w)'
<1>1. /\ TypeOK /\ InHand(w) /\ Searched(w) /\ w \in Threads /\ pc[w] = "run"
      /\ prio[w] \in Nat /\ prio[w] \in Priorities /\ 0 \in Priorities /\ Lowest \in Nat
  BY WorkerFacts, Constants DEF JobYields
<1>2. job[w] \in Jobs /\ job[w] # None /\ at[w] \in Nat
  BY <1>1 DEF InHand, TypeOK
<1>3. /\ prio[w] > 0 /\ at[w] + 1 < Sections[job[w][1]]
  <2>1. Sections[job[w][1]] \in Nat
    BY <1>2, JobParts, Constants
  <2> QED BY <1>1, <1>2, <2>1 DEF JobYields, Ends
<1> DEFINE h == [job |-> job[w], prio |-> prio[w]]
<1>4. /\ at' = [at EXCEPT ![w] = at[w] + 1] /\ reached' = [reached EXCEPT ![job[w]] = at[w] + 1]
      /\ held' = [held EXCEPT ![w] = h] /\ job' = [job EXCEPT ![w] = None]
      /\ prio' = [prio EXCEPT ![w] = 0] /\ pc' = [pc EXCEPT ![w] = "global"]
      /\ UNCHANGED <<submitted, queues, counts, section, done, scan, buffer, split, mainVars>>
  BY DEF JobYields, Goto
<1>5. /\ at' \in [Threads -> Nat] /\ reached' \in [Jobs -> Nat]
      /\ job' \in [Threads -> Jobs \cup {None}] /\ pc' \in [Threads -> Points]
      /\ prio' \in [Threads -> 0 .. Lowest + 1]
      /\ job'[w] = None /\ prio'[w] = 0 /\ pc'[w] = "global" /\ at'[w] = at[w] + 1
  <2>1. /\ at \in [Threads -> Nat] /\ reached \in [Jobs -> Nat]
        /\ job \in [Threads -> Jobs \cup {None}] /\ pc \in [Threads -> Points]
        /\ prio \in [Threads -> 0 .. Lowest + 1]
    BY <1>1 DEF TypeOK
  <2>2. at' \in [Threads -> Nat] /\ reached' \in [Jobs -> Nat] /\ at'[w] = at[w] + 1
    BY <1>1, <1>2, <1>4, <2>1
  <2>3. job' \in [Threads -> Jobs \cup {None}] /\ job'[w] = None
    BY <1>1, <1>4, <2>1
  <2>4. prio' \in [Threads -> 0 .. Lowest + 1] /\ prio'[w] = 0
    BY <1>1, <1>4, <2>1
  <2>5. pc' \in [Threads -> Points] /\ pc'[w] = "global"
    BY <1>1, <1>4, <2>1 DEF Points
  <2> QED BY <2>2, <2>3, <2>4, <2>5
<1>6. /\ held' \in [Workers -> [job : Jobs, prio : Priorities] \cup {NotHeld}]
      /\ held'[w].job = job[w] /\ held'[w].prio = prio[w]
  <2>1. h \in [job : Jobs, prio : Priorities]
    BY <1>1, <1>2
  <2> QED BY <1>1, <1>4, <2>1 DEF TypeOK
<1>7. TypeOK'
  BY <1>1, <1>4, <1>5, <1>6 DEF TypeOK
<1>8. InHand(w)'
  BY <1>1, <1>3, <1>4, <1>5, <1>6 DEF InHand
<1>9. OwnEmpty(w, 0) /\ \A q \in 0 .. prio[w] - 1 : OwnEmpty(w, q)
  BY <1>1, <1>3 DEF Searched
<1>10. Searched(w)'
  BY <1>4, <1>5, <1>6, <1>9 DEF Searched, OwnEmpty
<1> QED BY <1>7, <1>8, <1>10

LEMMA PushBackKeeps ==
  ASSUME SchedInv, NEW w \in Workers, PushBack(w)
  PROVE  TypeOK' /\ InHand(w)' /\ Searched(w)'
<1> DEFINE j == held[w].job
<1> DEFINE p == held[w].prio
<1>1. /\ TypeOK /\ InHand(w) /\ Searched(w) /\ w \in Threads /\ pc[w] = "pushback"
      /\ prio[w] \in Nat /\ Priorities = 0 .. Lowest /\ Lowest \in Nat
  BY WorkerFacts, Constants DEF PushBack
<1>2. held[w] # NotHeld
  BY <1>1 DEF InHand
<1>3. /\ j \in Jobs /\ p \in Priorities /\ j # None
      /\ prio[w] < p /\ at[w] < Sections[j[1]] /\ at[w] \in Nat
      /\ j \notin done
  BY <1>1, <1>2, HeldParts, Constants, CarriedIsAlive DEF InHand, TypeOK
<1>4. /\ section' = [section EXCEPT ![j] = at[w]]
      /\ held' = [held EXCEPT ![w] = NotHeld] /\ pc' = [pc EXCEPT ![w] = "take"]
      /\ UNCHANGED <<submitted, global, index, rest, exchange, counts, done, reached, search,
                     job, at, buffer, split, waitsFor, inProgress>>
      /\ \/ local' = [local EXCEPT ![w][p] = Append(local[w][p], j)] /\ lost' = lost
         \/ local' = local /\ lost' = lost \cup {j}
  <2>1. local[w][p] = local[w][held[w].prio]
    OBVIOUS
  <2> QED BY DEF PushBack, Goto
<1>5. local[w][p] \in Seq(Jobs)
  <2>1. local \in [Workers -> [Priorities -> Seq(Jobs)]] /\ p \in Priorities
    BY <1>1, <1>3 DEF TypeOK
  <2> QED BY <2>1
<1>6. Append(local[w][p], j) \in Seq(Jobs)
  BY <1>3, <1>5
<1> DEFINE s == Append(local[w][p], j)
<1> HIDE DEF s, j, p
<1>7. \/ local' = [local EXCEPT ![w][p] = s] /\ lost' = lost
      \/ local' = local /\ lost' = lost \cup {j}
  BY <1>4 DEF s
<1>8. s \in Seq(Jobs)
  BY <1>6 DEF s
<1>9. local' \in [Workers -> [Priorities -> Seq(Jobs)]] /\ lost' \subseteq Jobs \ done
  <2>1. local \in [Workers -> [Priorities -> Seq(Jobs)]] /\ lost \subseteq Jobs \ done
    BY <1>1 DEF TypeOK
  <2>2. local' \in [Workers -> [Priorities -> Seq(Jobs)]]
    <3>1. p \in Priorities
      BY <1>3
    <3>2. local' = [local EXCEPT ![w][p] = s] \/ local' = local
      BY <1>7
    <3>3. [local[w] EXCEPT ![p] = s] \in [Priorities -> Seq(Jobs)]
      BY <1>8, <2>1, <3>1
    <3>4. [local EXCEPT ![w][p] = s] = [local EXCEPT ![w] = [local[w] EXCEPT ![p] = s]]
      BY <2>1
    <3> QED BY <2>1, <3>2, <3>3, <3>4
  <2>3. lost' = lost \/ lost' = lost \cup {j}
    BY <1>7
  <2> QED BY <1>3, <2>1, <2>2, <2>3
<1>10. /\ section' \in [Jobs -> Nat] /\ \A i \in Jobs : section'[i] < Sections[i[1]]
       /\ held' \in [Workers -> [job : Jobs, prio : Priorities] \cup {NotHeld}]
       /\ pc' \in [Threads -> Points] /\ held'[w] = NotHeld /\ pc'[w] = "take"
  BY <1>1, <1>3, <1>4 DEF TypeOK, Points
<1>11. TypeOK'
  BY <1>1, <1>4, <1>9, <1>10 DEF TypeOK
<1>12. InHand(w)'
  BY <1>1, <1>4, <1>10 DEF InHand
<1>13. \A q \in Priorities : q < prio[w] => local'[w][q] = local[w][q]
  <2>1. SUFFICES ASSUME NEW q \in Priorities, q < prio[w], NEW l,
                        l = [local EXCEPT ![w][p] = s]
                 PROVE  l[w][q] = local[w][q]
    BY <1>7
  <2>2. local \in [Workers -> [Priorities -> Seq(Jobs)]]
    BY <1>1 DEF TypeOK
  <2>3. q # p
    BY <1>1, <1>3, <2>1
  <2>4. l[w] = [local[w] EXCEPT ![p] = s]
    BY <2>1, <2>2
  <2>5. local[w] \in [Priorities -> Seq(Jobs)]
    BY <2>2
  <2> QED BY <2>3, <2>4, <2>5
<1>14. /\ pc'[w] = "take" /\ prio' = prio /\ rest' = rest
       /\ \A q \in 0 .. prio[w] - 1 : q \in Priorities /\ q < prio[w]
  BY <1>4, <1>10, WorkerFacts, Constants
<1>15. \A q \in 0 .. prio[w] - 1 : OwnEmpty(w, q)'
  BY <1>1, <1>13, <1>14 DEF Searched, OwnEmpty
<1>16. Searched(w)'
  BY <1>14, <1>15 DEF Searched
<1> QED BY <1>11, <1>12, <1>16

\* Every step of a worker keeps the types and what is known of its hands.
LEMMA WorkerStep ==
  ASSUME SchedInv, NEW w \in Workers, Worker(w)
  PROVE  /\ TypeOK' /\ MainInHand' /\ ExchangeFree'
         /\ \A v \in Workers : InHand(v)' /\ Searched(v)'
<1>1. TypeOK' /\ InHand(w)' /\ Searched(w)'
  BY StartThreadKeeps, SelectFromExchangeKeeps, SelectFromLocalKeeps, NoBatchToStealKeeps,
     KeepRemainderKeeps, NothingFoundKeeps, StealJobKeeps, SelectFromOwnBatchKeeps,
     PullGlobalKeeps, StealBatchKeeps, PullGlobalDoneKeeps, QueueJobsKeeps, TakeFirstKeeps,
     JobEndsKeeps, JobYieldsKeeps, PushBackKeeps DEF Worker
<1> QED BY <1>1, WorkerActsAlone, MainKeeps

----------------------------------------------------------------------------
(* Types and hands, the steps of the main thread and of the io thread *)

LEMMA MainFacts ==
  ASSUME SchedInv
  PROVE  /\ TypeOK /\ MainInHand /\ ExchangeFree
         /\ Main \in Threads /\ Io \in Threads /\ Main # Io
         /\ prio[Main] \in 0 .. Lowest + 1 /\ prio[Main] \in Nat
         /\ MainLowest \in Nat /\ MainLowest <= Lowest /\ Lowest \in Nat
         /\ prio[Main] <= MainLowest => prio[Main] \in Priorities
         /\ scan[Main] \subseteq Workers /\ job[Main] \in Jobs \cup {None}
<1>1. /\ TypeOK /\ MainInHand /\ ExchangeFree /\ Main \in Threads /\ Io \in Threads /\ Main # Io
      /\ MainLowest \in Nat /\ MainLowest <= Lowest /\ Lowest \in Nat
  BY Constants DEF SchedInv
<1>2. /\ prio[Main] \in 0 .. Lowest + 1 /\ scan[Main] \subseteq Workers
      /\ job[Main] \in Jobs \cup {None}
  BY <1>1 DEF TypeOK
<1> QED BY <1>1, <1>2, Constants

LEMMA SubmitKeeps ==
  ASSUME SchedInv, NEW t \in {Main, Io}, SubmitPush(t) \/ SubmitPost(t)
  PROVE  TypeOK' /\ MainInHand' /\ ExchangeFree'
<1>1. /\ TypeOK /\ MainInHand /\ ExchangeFree /\ t \in Threads /\ Main \in Threads
      /\ Io \in Threads /\ Main # Io
  BY MainFacts
<1>2. CASE SubmitPush(t)
  <2>1. PICK b \in Batches : /\ submitted' = submitted \cup {b}
                             /\ global' = [global EXCEPT ![Priority[b]] = Append(@, b)]
    BY <1>2 DEF SubmitPush, Batches
  <2>2. /\ pc[t] = "ready" /\ pc' = [pc EXCEPT ![t] = "post"]
        /\ UNCHANGED <<index, rest, local, exchange, counts, jobVars, search, job, at,
                       buffers, mainVars>>
    BY <1>2 DEF SubmitPush, Goto
  <2>3. global' \in [Priorities -> Seq(Batches)] /\ submitted' \subseteq Batches
    <3>1. Priority[b] \in Priorities /\ global[Priority[b]] \in Seq(Batches)
      BY <1>1, Constants DEF TypeOK
    <3>2. Append(global[Priority[b]], b) \in Seq(Batches)
      BY <3>1
    <3> QED BY <1>1, <2>1, <3>1, <3>2 DEF TypeOK
  <2>4. /\ pc' \in [Threads -> Points] /\ pc'[t] = "post"
        /\ \A u \in Threads \ {t} : pc'[u] = pc[u]
    BY <1>1, <2>2 DEF TypeOK, Points
  <2>5. TypeOK'
    BY <1>1, <2>2, <2>3, <2>4 DEF TypeOK
  <2>6. MainInHand' /\ ExchangeFree'
    BY <1>1, <2>2, <2>4 DEF MainInHand, ExchangeFree
  <2> QED BY <2>5, <2>6
<1>3. CASE SubmitPost(t)
  <2>1. /\ pc[t] = "post" /\ pc' = [pc EXCEPT ![t] = "ready"] /\ workPresent' = workPresent + 1
        /\ UNCHANGED <<submitted, queues, active, exiting, jobVars, search, job, at,
                       buffers, mainVars>>
    BY <1>3 DEF SubmitPost, Goto
  <2>2. /\ pc' \in [Threads -> Points] /\ pc'[t] = "ready" /\ workPresent' \in Nat
        /\ \A u \in Threads \ {t} : pc'[u] = pc[u]
    BY <1>1, <2>1 DEF TypeOK, Points
  <2>3. TypeOK'
    BY <1>1, <2>1, <2>2 DEF TypeOK
  <2>4. MainInHand' /\ ExchangeFree'
    BY <1>1, <2>1, <2>2 DEF MainInHand, ExchangeFree
  <2> QED BY <2>3, <2>4
<1> QED BY <1>2, <1>3

LEMMA FenceStepKeeps ==
  ASSUME SchedInv,
         \/ \E fence \in {"frame", "all"} : BeginWait(fence)
         \/ FenceTest \/ MainNothingFound \/ AnnounceExit \/ JoinWorkers
  PROVE  TypeOK' /\ MainInHand' /\ ExchangeFree'
<1>1. /\ TypeOK /\ MainInHand /\ ExchangeFree /\ Main \in Threads /\ Io \in Threads
      /\ Main # Io /\ prio[Main] \in Nat /\ MainLowest \in Nat /\ MainLowest <= Lowest
      /\ Lowest \in Nat
  BY MainFacts
<1>2. ASSUME NEW fence \in {"frame", "all"}, BeginWait(fence)
      PROVE  TypeOK' /\ MainInHand' /\ ExchangeFree'
  <2>1. /\ pc[Main] = "ready" /\ pc' = [pc EXCEPT ![Main] = "fence"] /\ waitsFor' = fence
        /\ UNCHANGED <<submitted, queues, counts, jobVars, search, job, at, buffers,
                       inProgress, lost>>
    BY <1>2 DEF BeginWait, Goto
  <2>2. pc' \in [Threads -> Points] /\ pc'[Main] = "fence" /\ pc'[Io] = pc[Io]
    BY <1>1, <2>1 DEF TypeOK, Points
  <2>3. TypeOK'
    BY <1>1, <2>1, <2>2 DEF TypeOK
  <2> QED BY <1>1, <2>1, <2>2, <2>3 DEF MainInHand, ExchangeFree
<1>3. CASE FenceTest
  <2>1. /\ pc[Main] = "fence"
        /\ \/ /\ job[Main] = None /\ pc' = [pc EXCEPT ![Main] = "exchange"]
              /\ prio' = [prio EXCEPT ![Main] = 0]
           \/ /\ job[Main] # None /\ pc' = [pc EXCEPT ![Main] = "run"] /\ prio' = prio
        /\ UNCHANGED <<submitted, queues, counts, jobVars, scan, job, at, buffers, mainVars>>
    BY <1>3 DEF FenceTest, Goto
  <2>2. pc' \in [Threads -> Points] /\ prio' \in [Threads -> 0 .. Lowest + 1]
        /\ pc'[Io] = pc[Io]
        /\ \/ job[Main] = None /\ pc'[Main] = "exchange" /\ prio'[Main] = 0
           \/ job[Main] # None /\ pc'[Main] = "run" /\ prio'[Main] = prio[Main]
    <3>1. /\ pc \in [Threads -> Points] /\ prio \in [Threads -> 0 .. Lowest + 1]
          /\ {"exchange", "run"} \subseteq Points /\ 0 \in 0 .. Lowest + 1
      BY <1>1 DEF TypeOK, Points
    <3>2. CASE job[Main] = None
      BY <1>1, <2>1, <3>1, <3>2
    <3>3. CASE job[Main] # None
      BY <1>1, <2>1, <3>1, <3>3
    <3> QED BY <3>2, <3>3
  <2>3. TypeOK'
    BY <1>1, <2>1, <2>2 DEF TypeOK
  <2> QED BY <1>1, <2>1, <2>2, <2>3 DEF MainInHand, ExchangeFree
<1>4. CASE MainNothingFound
  <2>1. /\ pc[Main] = "stealJob" /\ prio' = [prio EXCEPT ![Main] = prio[Main] + 1]
        /\ \/ prio[Main] < MainLowest /\ pc' = [pc EXCEPT ![Main] = "exchange"]
           \/ ~(prio[Main] < MainLowest) /\ pc' = [pc EXCEPT ![Main] = "fence"]
        /\ UNCHANGED <<submitted, queues, counts, jobVars, scan, job, at, buffers, mainVars>>
    BY <1>4 DEF MainNothingFound, Goto
  <2>2. prio[Main] <= MainLowest /\ job[Main] = None
    BY <1>1, <2>1 DEF MainInHand
  <2>3. /\ pc' \in [Threads -> Points] /\ pc'[Io] = pc[Io]
        /\ \/ prio[Main] < MainLowest /\ pc'[Main] = "exchange"
           \/ ~(prio[Main] < MainLowest) /\ pc'[Main] = "fence"
    BY <1>1, <2>1 DEF TypeOK, Points
  <2>4. prio' \in [Threads -> 0 .. Lowest + 1] /\ prio'[Main] = prio[Main] + 1
    <3>1. prio[Main] + 1 \in 0 .. Lowest + 1
      BY <1>1, <2>2
    <3> QED BY <1>1, <2>1, <3>1 DEF TypeOK
  <2>5. TypeOK'
    BY <1>1, <2>1, <2>3, <2>4 DEF TypeOK
  <2>6. MainInHand'
    BY <1>1, <2>1, <2>2, <2>3, <2>4 DEF MainInHand
  <2> QED BY <2>1, <2>2, <2>3, <2>5, <2>6 DEF ExchangeFree
<1>5. CASE AnnounceExit
  <2>1. /\ pc[Main] = "exit" /\ pc' = [pc EXCEPT ![Main] = "join"] /\ exiting' = TRUE
        /\ workPresent' = workPresent + Cardinality(Workers)
        /\ UNCHANGED <<submitted, queues, active, jobVars, search, job, at, buffers, mainVars>>
    BY <1>5 DEF AnnounceExit, Goto
  <2>2. Cardinality(Workers) \in Nat /\ workPresent \in Nat
    BY <1>1, Constants, FS_CardinalityType DEF TypeOK
  <2>3. pc' \in [Threads -> Points] /\ pc'[Main] = "join" /\ pc'[Io] = pc[Io]
        /\ workPresent' \in Nat /\ exiting' \in BOOLEAN
    BY <1>1, <2>1, <2>2 DEF TypeOK, Points
  <2>4. TypeOK'
    BY <1>1, <2>1, <2>3 DEF TypeOK
  <2> QED BY <1>1, <2>1, <2>3, <2>4 DEF MainInHand, ExchangeFree
<1>6. CASE JoinWorkers
  <2>1. /\ pc[Main] = "join" /\ pc' = [pc EXCEPT ![Main] = "over"]
        /\ UNCHANGED <<submitted, queues, counts, jobVars, search, job, at, buffers, mainVars>>
    BY <1>6 DEF JoinWorkers, Goto
  <2>2. pc' \in [Threads -> Points] /\ pc'[Main] = "over" /\ pc'[Io] = pc[Io]
    BY <1>1, <2>1 DEF TypeOK, Points
  <2>3. TypeOK'
    BY <1>1, <2>1, <2>2 DEF TypeOK
  <2> QED BY <1>1, <2>1, <2>2, <2>3 DEF MainInHand, ExchangeFree
<1> QED BY <1>2, <1>3, <1>4, <1>5, <1>6

LEMMA MainTakesKeeps ==
  ASSUME SchedInv, NEW j \in Jobs,
         pc[Main] \in {"exchange", "stealJob"}, Take(Main, j, "fence"),
         \/ pc[Main] = "exchange" /\ exchange' = [exchange EXCEPT ![prio[Main]] = None]
         \/ pc[Main] = "stealJob" /\ UNCHANGED exchange,
         local' \in [Workers -> [Priorities -> Seq(Jobs)]],
         scan' \in [Threads -> SUBSET Workers],
         UNCHANGED <<submitted, global, index, rest, counts, jobVars, prio, buffers, mainVars>>
  PROVE  TypeOK' /\ MainInHand' /\ ExchangeFree'
<1>1. /\ TypeOK /\ MainInHand /\ ExchangeFree /\ Main \in Threads /\ Io \in Threads
      /\ Main # Io /\ prio[Main] \in Priorities /\ prio[Main] <= MainLowest /\ j # None
  BY MainFacts, Constants DEF MainInHand
<1>2. /\ job' = [job EXCEPT ![Main] = j] /\ at' = [at EXCEPT ![Main] = section[j]]
      /\ pc' = [pc EXCEPT ![Main] = "fence"]
  BY DEF Take, Goto
<1>3. section[j] \in Nat /\ section[j] < Sections[j[1]]
  BY <1>1 DEF TypeOK
<1>4. /\ job' \in [Threads -> Jobs \cup {None}] /\ at' \in [Threads -> Nat]
      /\ pc' \in [Threads -> Points] /\ pc'[Main] = "fence" /\ pc'[Io] = pc[Io]
      /\ job'[Main] = j /\ job'[Io] = job[Io] /\ at'[Main] = section[j]
  BY <1>1, <1>2, <1>3 DEF TypeOK, Points
<1>5. exchange' \in [Priorities -> Jobs \cup {None}] /\ exchange'[prio[Main]] = None
  <2>1. exchange \in [Priorities -> Jobs \cup {None}]
    BY <1>1 DEF TypeOK
  <2> QED BY <1>1, <2>1 DEF ExchangeFree
<1>6. TypeOK'
  BY <1>1, <1>4, <1>5 DEF TypeOK
<1>7. MainInHand'
  BY <1>1, <1>3, <1>4 DEF MainInHand
<1>8. ExchangeFree'
  BY <1>5 DEF ExchangeFree
<1> QED BY <1>6, <1>7, <1>8

LEMMA MainSelectKeeps ==
  ASSUME SchedInv, MainSelectFromExchange
  PROVE  TypeOK' /\ MainInHand' /\ ExchangeFree'
<1>1. /\ TypeOK /\ MainInHand /\ ExchangeFree /\ Main \in Threads /\ Io \in Threads
      /\ Main # Io /\ prio[Main] \in Priorities /\ pc[Main] = "exchange"
  BY MainFacts DEF MainInHand, MainSelectFromExchange
<1>2. exchange' = [exchange EXCEPT ![prio[Main]] = None]
      /\ UNCHANGED <<submitted, global, index, rest, local, counts, jobVars, prio, buffers, mainVars>>
  BY DEF MainSelectFromExchange
<1>3. CASE exchange[prio[Main]] = None
  <2>1. /\ scan' = [scan EXCEPT ![Main] = Workers] /\ pc' = [pc EXCEPT ![Main] = "stealJob"]
        /\ job' = job /\ at' = at
    BY <1>3 DEF MainSelectFromExchange, Goto
  <2>2. /\ scan' \in [Threads -> SUBSET Workers] /\ pc' \in [Threads -> Points]
        /\ pc'[Main] = "stealJob" /\ pc'[Io] = pc[Io]
    BY <1>1, <2>1 DEF TypeOK, Points
  <2>3. exchange' \in [Priorities -> Jobs \cup {None}] /\ exchange'[prio[Main]] = None
    <3>1. exchange \in [Priorities -> Jobs \cup {None}]
      BY <1>1 DEF TypeOK
    <3> QED BY <1>1, <1>2, <3>1
  <2>4. TypeOK'
    BY <1>1, <1>2, <2>1, <2>2, <2>3 DEF TypeOK
  <2>5. MainInHand' /\ ExchangeFree'
    BY <1>1, <1>2, <2>1, <2>2, <2>3 DEF MainInHand, ExchangeFree
  <2> QED BY <2>4, <2>5
<1>4. CASE exchange[prio[Main]] # None
  <2> DEFINE j == exchange[prio[Main]]
  <2>1. Take(Main, j, "fence") /\ scan' = scan
    BY <1>4 DEF MainSelectFromExchange
  <2>2. j \in Jobs
    BY <1>1, <1>4 DEF TypeOK
  <2>3. local' \in [Workers -> [Priorities -> Seq(Jobs)]] /\ scan' \in [Threads -> SUBSET Workers]
    BY <1>1, <1>2, <2>1 DEF TypeOK
  <2> HIDE DEF j
  <2> QED BY <1>1, <1>2, <2>1, <2>2, <2>3, MainTakesKeeps
<1> QED BY <1>3, <1>4

LEMMA MainStealKeeps ==
  ASSUME SchedInv, StealJob(Main, "fence")
  PROVE  TypeOK' /\ MainInHand' /\ ExchangeFree'
<1> DEFINE p == prio[Main]
<1>1. /\ TypeOK /\ MainInHand /\ ExchangeFree /\ Main \in Threads /\ Io \in Threads
      /\ Main # Io /\ p \in Priorities /\ pc[Main] = "stealJob" /\ scan[Main] \subseteq Workers
  BY MainFacts DEF MainInHand, StealJob
<1>2. UNCHANGED <<submitted, global, index, rest, exchange, counts, jobVars, prio, buffers, mainVars>>
  BY DEF StealJob
<1>3. ASSUME NEW v \in scan[Main], scan' = [scan EXCEPT ![Main] = @ \ {v}],
             UNCHANGED <<pc, local, job, at>>
      PROVE  TypeOK' /\ MainInHand' /\ ExchangeFree'
  <2>1. scan' \in [Threads -> SUBSET Workers]
    BY <1>1, <1>3 DEF TypeOK
  <2>2. TypeOK'
    BY <1>1, <1>2, <1>3, <2>1 DEF TypeOK
  <2> QED BY <1>1, <1>2, <1>3, <2>2 DEF MainInHand, ExchangeFree
<1>4. ASSUME NEW v \in scan[Main], local[v][p] # <<>>, Take(Main, Head(local[v][p]), "fence"),
             local' = [local EXCEPT ![v][p] = Tail(local[v][p])],
             scan' = [scan EXCEPT ![Main] = {}]
      PROVE  TypeOK' /\ MainInHand' /\ ExchangeFree'
  <2> DEFINE j == Head(local[v][p])
  <2> DEFINE s == Tail(local[v][p])
  <2>1. local[v][p] \in Seq(Jobs)
    BY <1>1 DEF TypeOK
  <2>2. j \in Jobs /\ s \in Seq(Jobs)
    BY <1>4, <2>1
  <2>3. Take(Main, j, "fence") /\ local' = [local EXCEPT ![v][p] = s]
    BY <1>4
  <2> HIDE DEF j, s
  <2>4. local' \in [Workers -> [Priorities -> Seq(Jobs)]] /\ scan' \in [Threads -> SUBSET Workers]
    <3>1. local \in [Workers -> [Priorities -> Seq(Jobs)]] /\ scan \in [Threads -> SUBSET Workers]
      BY <1>1 DEF TypeOK
    <3>2. [local[v] EXCEPT ![p] = s] \in [Priorities -> Seq(Jobs)]
      BY <1>1, <2>2, <3>1
    <3> QED BY <1>1, <1>4, <2>3, <3>1, <3>2
  <2> QED BY <1>1, <1>2, <2>2, <2>3, <2>4, MainTakesKeeps
<1> QED BY <1>3, <1>4 DEF StealJob

LEMMA MainRunKeeps ==
  ASSUME SchedInv, MainRun
  PROVE  TypeOK' /\ MainInHand' /\ ExchangeFree'
<1> DEFINE j == job[Main]
<1>1. /\ TypeOK /\ MainInHand /\ ExchangeFree /\ Main \in Threads /\ Io \in Threads
      /\ Main # Io /\ pc[Main] = "run" /\ prio[Main] \in Nat
  BY MainFacts DEF MainRun
<1>2. j \in Jobs /\ j # None /\ j \notin lost
  BY <1>1, CarriedIsAlive DEF MainInHand, TypeOK
<1>3. section[j] \in Nat /\ Sections[j[1]] \in Nat /\ section[j] < Sections[j[1]]
  BY <1>1, <1>2, JobParts, Constants DEF TypeOK
<1>4. /\ pc' = [pc EXCEPT ![Main] = "fence"]
      /\ UNCHANGED <<submitted, queues, counts, section, search, buffers, waitsFor, lost>>
  BY DEF MainRun, Goto
<1>5. \/ /\ done' = done \cup {j} /\ job' = [job EXCEPT ![Main] = None] /\ inProgress' = FALSE
         /\ at' = at /\ reached' = reached
      \/ /\ section[j] + 1 < Sections[j[1]] /\ at' = [at EXCEPT ![Main] = section[j] + 1]
         /\ reached' = [reached EXCEPT ![j] = section[j] + 1] /\ inProgress' = TRUE
         /\ done' = done /\ job' = job
  BY <1>3 DEF MainRun
<1> HIDE DEF j
<1>6. pc' \in [Threads -> Points] /\ pc'[Main] = "fence" /\ pc'[Io] = pc[Io]
  BY <1>1, <1>4 DEF TypeOK, Points
<1>7. /\ done' \subseteq Jobs /\ lost \subseteq Jobs \ done' /\ job' \in [Threads -> Jobs \cup {None}]
      /\ at' \in [Threads -> Nat] /\ reached' \in [Jobs -> Nat] /\ inProgress' \in BOOLEAN
  <2>1. /\ done \subseteq Jobs /\ lost \subseteq Jobs \ done /\ job \in [Threads -> Jobs \cup {None}]
        /\ at \in [Threads -> Nat] /\ reached \in [Jobs -> Nat]
    BY <1>1 DEF TypeOK
  <2>2. section[j] + 1 \in Nat
    BY <1>3
  <2> QED BY <1>1, <1>2, <1>5, <2>1, <2>2
<1>8. TypeOK'
  BY <1>1, <1>4, <1>6, <1>7 DEF TypeOK
<1>9. MainInHand'
  <2>1. \/ job'[Main] = None /\ inProgress' = FALSE
        \/ job'[Main] = job[Main] /\ at'[Main] = section[j] + 1 /\ section[j] + 1 < Sections[j[1]]
    BY <1>1, <1>5 DEF TypeOK
  <2>2. job'[Io] = job[Io] /\ job[Main] = j
    BY <1>1, <1>5 DEF TypeOK, j
  <2> QED BY <1>1, <1>2, <1>4, <1>6, <2>1, <2>2 DEF MainInHand
<1>10. ExchangeFree'
  <2>1. exchange[prio[Main]] = None
    BY <1>1, <1>2 DEF ExchangeFree, j
  <2> QED BY <1>4, <2>1 DEF ExchangeFree
<1> QED BY <1>8, <1>9, <1>10

LEMMA FenceDoneKeeps ==
  ASSUME SchedInv, FenceDone
  PROVE  TypeOK' /\ MainInHand' /\ ExchangeFree'
<1> DEFINE j == job[Main]
<1>1. /\ TypeOK /\ MainInHand /\ ExchangeFree /\ Main \in Threads /\ Io \in Threads
      /\ Main # Io /\ pc[Main] = "fence" /\ prio[Main] \in Nat /\ j \in Jobs \cup {None}
  BY MainFacts DEF FenceDone
<1>2. j # None => j \in Jobs /\ j \notin done
  BY <1>1, CarriedIsAlive
<1>3. inProgress => /\ j # None /\ prio[Main] \in Priorities
                    /\ at[Main] \in Nat /\ at[Main] < Sections[j[1]]
  BY <1>1, MainFacts DEF MainInHand, TypeOK
<1>4. /\ \/ pc' = [pc EXCEPT ![Main] = "ready"]
         \/ pc' = [pc EXCEPT ![Main] = "exit"]
      /\ \/ /\ inProgress /\ section' = [section EXCEPT ![j] = at[Main]]
            /\ exchange' = [exchange EXCEPT ![prio[Main]] = j] /\ lost' = lost
         \/ section' = section /\ exchange' = exchange /\ lost' = lost \cup ({j} \ {None})
      /\ job' = [job EXCEPT ![Main] = None] /\ inProgress' = FALSE
      /\ UNCHANGED <<submitted, global, index, rest, local, counts, done, reached, search, at,
                     buffers, waitsFor>>
  BY DEF FenceDone, Goto
<1> HIDE DEF j
<1>5. /\ pc' \in [Threads -> Points] /\ pc'[Main] \in {"ready", "exit"} /\ pc'[Io] = pc[Io]
      /\ job' \in [Threads -> Jobs \cup {None}] /\ job'[Main] = None /\ job'[Io] = job[Io]
  BY <1>1, <1>4 DEF TypeOK, Points
<1>6. /\ section' \in [Jobs -> Nat] /\ \A i \in Jobs : section'[i] < Sections[i[1]]
      /\ exchange' \in [Priorities -> Jobs \cup {None}] /\ lost' \subseteq Jobs \ done
  <2>1. /\ section \in [Jobs -> Nat] /\ \A i \in Jobs : section[i] < Sections[i[1]]
        /\ exchange \in [Priorities -> Jobs \cup {None}] /\ lost \subseteq Jobs \ done
    BY <1>1 DEF TypeOK
  <2>2. CASE lost' = lost
    BY <1>2, <1>3, <1>4, <2>1, <2>2
  <2>3. CASE section' = section /\ exchange' = exchange /\ lost' = lost \cup ({j} \ {None})
    BY <1>1, <1>2, <2>1, <2>3
  <2> QED BY <1>4, <2>2, <2>3
<1>7. TypeOK'
  BY <1>1, <1>4, <1>5, <1>6 DEF TypeOK
<1>8. MainInHand' /\ ExchangeFree'
  BY <1>1, <1>4, <1>5 DEF MainInHand, ExchangeFree
<1> QED BY <1>7, <1>8

\* Every step keeps the types and what is known of everybody's hands.
LEMMA HandsStep ==
  ASSUME SchedInv, [Next]_vars
  PROVE  /\ TypeOK' /\ MainInHand' /\ ExchangeFree'
         /\ \A v \in Workers : InHand(v)' /\ Searched(v)'
         /\ active' = Cardinality(Awake')
<1>1. CASE UNCHANGED vars
  <2>1. /\ TypeOK /\ MainInHand /\ ExchangeFree /\ active = Cardinality(Awake)
        /\ \A v \in Workers : InHand(v) /\ Searched(v)
    BY DEF SchedInv
  <2>2. TypeOK' /\ MainInHand' /\ ExchangeFree' /\ active' = Cardinality(Awake')
    BY <1>1, <2>1 DEF vars, TypeOK, MainInHand, ExchangeFree, Awake
  <2>3. \A v \in Workers : InHand(v)' /\ Searched(v)'
    BY <1>1, <2>1 DEF vars, InHand, Searched, OwnEmpty
  <2> QED BY <2>2, <2>3
<1>2. ASSUME NEW w \in Workers, Worker(w)
      PROVE  /\ TypeOK' /\ MainInHand' /\ ExchangeFree'
             /\ \A v \in Workers : InHand(v)' /\ Searched(v)'
             /\ active' = Cardinality(Awake')
  BY <1>2, WorkerStep, ActiveStep
<1>3. ASSUME \/ MainWaits \/ \E fence \in {"frame", "all"} : BeginWait(fence)
             \/ \E t \in {Main, Io} : SubmitPush(t) \/ SubmitPost(t)
      PROVE  /\ TypeOK' /\ MainInHand' /\ ExchangeFree'
             /\ \A v \in Workers : InHand(v)' /\ Searched(v)'
             /\ active' = Cardinality(Awake')
  <2>1. TypeOK' /\ MainInHand' /\ ExchangeFree'
    BY <1>3, SubmitKeeps, FenceStepKeeps, MainSelectKeeps, MainStealKeeps, MainRunKeeps,
       FenceDoneKeeps DEF MainWaits
  <2>2. /\ \A w \in Workers :
              /\ pc'[w] = pc[w] /\ prio'[w] = prio[w] /\ job'[w] = job[w] /\ at'[w] = at[w]
              /\ \A p \in Priorities : local[w][p] = <<>> => local'[w][p] = <<>>
        /\ UNCHANGED <<buffer, split, held, rest, index, active>>
    BY <1>3, WorkersLeftAlone
  <2>3. ASSUME NEW v \in Workers
        PROVE  InHand(v)' /\ Searched(v)'
    <3>1. TypeOK /\ InHand(v) /\ Searched(v)
      BY DEF SchedInv
    <3> QED BY <2>2, <3>1, OthersKeep
  <2>4. Awake' = Awake /\ active' = active
    BY <2>2 DEF Awake
  <2> QED BY <2>1, <2>3, <2>4 DEF SchedInv
<1> QED BY <1>1, <1>2, <1>3 DEF Next, Over

----------------------------------------------------------------------------
(* Sequences without repetition *)

LEMMA SeqDomain ==
  ASSUME NEW S, NEW s \in Seq(S)
  PROVE  DOMAIN s = 1 .. Len(s) /\ Len(s) \in Nat
OBVIOUS

LEMMA RangeMembers ==
  ASSUME NEW S, NEW s \in Seq(S)
  PROVE  \A x : x \in Range(s) <=> \E i \in 1 .. Len(s) : s[i] = x
<1>1. \A x : x \in Range(s) <=> \E i \in DOMAIN s : s[i] = x
  BY Zenon DEF Range
<1> QED BY <1>1, SeqDomain

LEMMA RangeIn ==
  ASSUME NEW S, NEW s \in Seq(S)
  PROVE  Range(s) \subseteq S
<1>1. \A i \in 1 .. Len(s) : s[i] \in S
  OBVIOUS
<1>2. \A x : x \in Range(s) <=> \E i \in 1 .. Len(s) : s[i] = x
  BY RangeMembers
<1> QED BY <1>1, <1>2

LEMMA ShortSeqs ==
  /\ Range(<<>>) = {} /\ Once(<<>>)
  /\ \A x : Range(<<x>>) = {x} /\ Once(<<x>>)
<1>1. Range(<<>>) = {} /\ Once(<<>>)
  BY DEF Range, Once
<1>2. ASSUME NEW x
      PROVE  Range(<<x>>) = {x} /\ Once(<<x>>)
  <2>1. DOMAIN <<x>> = {1} /\ <<x>>[1] = x
    OBVIOUS
  <2> QED BY <2>1 DEF Range, Once
<1> QED BY <1>1, <1>2

\* The oldest entry, which is stolen.
LEMMA OnceTail ==
  ASSUME NEW S, NEW s \in Seq(S), s # <<>>
  PROVE  /\ Head(s) \in S /\ Tail(s) \in Seq(S) /\ Range(s) = {Head(s)} \cup Range(Tail(s))
         /\ Once(s) => Once(Tail(s)) /\ Head(s) \notin Range(Tail(s))
                       /\ Range(Tail(s)) = Range(s) \ {Head(s)}
<1> DEFINE t == Tail(s)
<1>1. /\ Len(s) \in Nat /\ Len(s) >= 1 /\ Head(s) = s[1] /\ Head(s) \in S
      /\ t \in Seq(S) /\ Len(t) = Len(s) - 1 /\ \A i \in 1 .. Len(t) : t[i] = s[i + 1]
  OBVIOUS
<1> HIDE DEF t
<1>2. \A x : x \in Range(t) <=> \E i \in 2 .. Len(s) : s[i] = x
  <2>1. ASSUME NEW i \in 1 .. Len(t)
        PROVE  i + 1 \in 2 .. Len(s) /\ t[i] = s[i + 1]
    BY <1>1
  <2>2. ASSUME NEW i \in 2 .. Len(s)
        PROVE  i - 1 \in 1 .. Len(t) /\ t[i - 1] = s[i]
    BY <1>1
  <2>3. \A x : x \in Range(t) <=> \E i \in 1 .. Len(t) : t[i] = x
    BY <1>1, RangeMembers
  <2> QED BY <2>1, <2>2, <2>3
<1>3. Range(s) = {Head(s)} \cup Range(t)
  <2>1. \A i \in 1 .. Len(s) : i = 1 \/ i \in 2 .. Len(s)
    BY <1>1
  <2>2. 1 \in 1 .. Len(s) /\ 2 .. Len(s) \subseteq 1 .. Len(s)
    BY <1>1
  <2>3. \A x : x \in Range(s) <=> \E i \in 1 .. Len(s) : s[i] = x
    BY RangeMembers
  <2> QED BY <1>1, <1>2, <2>1, <2>2, <2>3
<1>4. ASSUME Once(s)
      PROVE  Once(t) /\ Head(s) \notin Range(t)
  <2>1. DOMAIN s = 1 .. Len(s) /\ DOMAIN t = 1 .. Len(t)
    BY <1>1
  <2>2. Once(t)
    <3>1. \A i \in 1 .. Len(t) : i + 1 \in 1 .. Len(s)
      BY <1>1
    <3>2. \A i, k \in 1 .. Len(t) : t[i] = t[k] => i + 1 = k + 1
      BY <1>1, <1>4, <2>1, <3>1 DEF Once
    <3> QED BY <2>1, <3>2 DEF Once
  <2>3. Head(s) \notin Range(t)
    BY <1>1, <1>2, <1>4, <2>1 DEF Once
  <2> QED BY <2>2, <2>3
<1> QED BY <1>1, <1>3, <1>4 DEF t

\* The newest entry, which its owner takes.
LEMMA OnceFront ==
  ASSUME NEW S, NEW s \in Seq(S), s # <<>>, Once(s)
  PROVE  /\ s[Len(s)] \in Range(s) /\ SubSeq(s, 1, Len(s) - 1) \in Seq(S)
         /\ Once(SubSeq(s, 1, Len(s) - 1))
         /\ Range(SubSeq(s, 1, Len(s) - 1)) = Range(s) \ {s[Len(s)]}
<1> DEFINE t == SubSeq(s, 1, Len(s) - 1)
<1>1. Len(s) \in Nat /\ Len(s) >= 1 /\ DOMAIN s = 1 .. Len(s)
  OBVIOUS
<1>2. t \in Seq(S) /\ Len(t) = Len(s) - 1 /\ \A i \in 1 .. Len(t) : t[i] = s[i]
  BY <1>1
<1> HIDE DEF t
<1>3. DOMAIN t = 1 .. Len(t) /\ \A i \in 1 .. Len(t) : i \in 1 .. Len(s) /\ i # Len(s)
  <2>1. Len(s) \in Nat /\ Len(t) = Len(s) - 1
    BY <1>1, <1>2
  <2>2. \A i \in 1 .. Len(t) : i \in 1 .. Len(s) /\ i # Len(s)
    BY <2>1
  <2> QED BY <1>2, <2>2, SeqDomain
<1>4. Once(t)
  BY <1>1, <1>2, <1>3 DEF Once
<1>5. \A x : x \in Range(t) <=> \E i \in 1 .. Len(t) : s[i] = x
  <2>1. \A x : x \in Range(t) <=> \E i \in 1 .. Len(t) : t[i] = x
    BY <1>2, RangeMembers
  <2> QED BY <1>2, <2>1
<1>6. \A x : x \in Range(s) <=> \E i \in 1 .. Len(s) : s[i] = x
  BY RangeMembers
<1>7. \A i \in 1 .. Len(s) : i = Len(s) \/ i \in 1 .. Len(t)
  <2>1. Len(s) \in Nat /\ Len(t) = Len(s) - 1
    BY <1>1, <1>2
  <2> QED BY <2>1
<1>8. Len(s) \in 1 .. Len(s) /\ s[Len(s)] \in Range(s)
  BY <1>1, <1>6
<1>9. \A i \in 1 .. Len(s) : s[i] = s[Len(s)] => i = Len(s)
  BY <1>1, <1>8 DEF Once
<1>10. Range(t) = Range(s) \ {s[Len(s)]}
  BY <1>3, <1>5, <1>6, <1>7, <1>8, <1>9
<1> QED BY <1>2, <1>4, <1>8, <1>10 DEF t

LEMMA OnceConcat ==
  ASSUME NEW S, NEW s \in Seq(S), NEW t \in Seq(S)
  PROVE  /\ s \o t \in Seq(S) /\ Range(s \o t) = Range(s) \cup Range(t)
         /\ Once(s) /\ Once(t) /\ Range(s) \cap Range(t) = {} => Once(s \o t)
<1> DEFINE u == s \o t
<1>1. /\ u \in Seq(S) /\ Len(u) = Len(s) + Len(t) /\ Len(s) \in Nat /\ Len(t) \in Nat
      /\ \A i \in 1 .. Len(u) : u[i] = IF i <= Len(s) THEN s[i] ELSE t[i - Len(s)]
  BY ConcatProperties
<1> HIDE DEF u
<1>6. Len(u) = Len(s) + Len(t) /\ Len(s) \in Nat /\ Len(t) \in Nat
  BY <1>1
<1>2. /\ \A i \in 1 .. Len(u) : \/ i \in 1 .. Len(s) /\ u[i] = s[i]
                                \/ /\ i - Len(s) \in 1 .. Len(t) /\ u[i] = t[i - Len(s)]
                                   /\ ~(i \in 1 .. Len(s))
      /\ \A i \in 1 .. Len(s) : i \in 1 .. Len(u) /\ u[i] = s[i]
      /\ \A i \in 1 .. Len(t) : i + Len(s) \in 1 .. Len(u) /\ u[i + Len(s)] = t[i]
  <2>1. ASSUME NEW i \in 1 .. Len(u), i <= Len(s)
        PROVE  i \in 1 .. Len(s) /\ u[i] = s[i]
    BY <1>1, <1>6, <2>1
  <2>2. ASSUME NEW i \in 1 .. Len(u), ~(i <= Len(s))
        PROVE  i - Len(s) \in 1 .. Len(t) /\ u[i] = t[i - Len(s)] /\ ~(i \in 1 .. Len(s))
    BY <1>1, <1>6, <2>2
  <2>3. ASSUME NEW i \in 1 .. Len(s)
        PROVE  i \in 1 .. Len(u) /\ u[i] = s[i]
    <3>1. i \in 1 .. Len(u) /\ i <= Len(s)
      BY <1>6
    <3> QED BY <1>1, <3>1
  <2>4. ASSUME NEW i \in 1 .. Len(t)
        PROVE  i + Len(s) \in 1 .. Len(u) /\ u[i + Len(s)] = t[i]
    <3>1. i + Len(s) \in 1 .. Len(u) /\ ~(i + Len(s) <= Len(s)) /\ i + Len(s) - Len(s) = i
      BY <1>6
    <3> QED BY <1>1, <3>1
  <2> QED BY <2>1, <2>2, <2>3, <2>4
<1>3. /\ \A x : x \in Range(s) <=> \E i \in 1 .. Len(s) : s[i] = x
      /\ \A x : x \in Range(t) <=> \E i \in 1 .. Len(t) : t[i] = x
      /\ \A x : x \in Range(u) <=> \E i \in 1 .. Len(u) : u[i] = x
  <2>1. \A x : x \in Range(s) <=> \E i \in 1 .. Len(s) : s[i] = x
    BY RangeMembers
  <2>2. \A x : x \in Range(t) <=> \E i \in 1 .. Len(t) : t[i] = x
    BY RangeMembers
  <2>3. \A x : x \in Range(u) <=> \E i \in 1 .. Len(u) : u[i] = x
    BY <1>1, RangeMembers
  <2> QED BY <2>1, <2>2, <2>3
<1>4. Range(u) = Range(s) \cup Range(t)
  <2>1. ASSUME NEW x \in Range(u)
        PROVE  x \in Range(s) \cup Range(t)
    <3>1. PICK i \in 1 .. Len(u) : u[i] = x
      BY <1>3
    <3>2. CASE i \in 1 .. Len(s) /\ u[i] = s[i]
      BY <1>3, <3>1, <3>2
    <3>3. CASE i - Len(s) \in 1 .. Len(t) /\ u[i] = t[i - Len(s)]
      BY <1>3, <3>1, <3>3
    <3> QED BY <1>2, <3>2, <3>3
  <2>2. ASSUME NEW x \in Range(s)
        PROVE  x \in Range(u)
    <3>1. PICK i \in 1 .. Len(s) : s[i] = x
      BY <1>3
    <3>2. i \in 1 .. Len(u) /\ u[i] = x
      BY <1>2, <3>1
    <3> QED BY <1>3, <3>2
  <2>3. ASSUME NEW x \in Range(t)
        PROVE  x \in Range(u)
    <3>1. PICK i \in 1 .. Len(t) : t[i] = x
      BY <1>3
    <3>2. i + Len(s) \in 1 .. Len(u) /\ u[i + Len(s)] = x
      BY <1>2, <3>1
    <3> QED BY <1>3, <3>2
  <2> QED BY <2>1, <2>2, <2>3
<1>5. ASSUME Once(s), Once(t), Range(s) \cap Range(t) = {}
      PROVE  Once(u)
  <2>1. DOMAIN s = 1 .. Len(s) /\ DOMAIN t = 1 .. Len(t) /\ DOMAIN u = 1 .. Len(u)
    BY <1>1
  <2>2. SUFFICES ASSUME NEW i \in 1 .. Len(u), NEW k \in 1 .. Len(u), u[i] = u[k]
                 PROVE  i = k
    BY <2>1 DEF Once
  <2>3. CASE i \in 1 .. Len(s) /\ k \in 1 .. Len(s)
    BY <1>2, <1>5, <2>1, <2>2, <2>3 DEF Once
  <2>4. CASE ~(i \in 1 .. Len(s)) /\ ~(k \in 1 .. Len(s))
    <3>1. t[i - Len(s)] = t[k - Len(s)] /\ i - Len(s) \in DOMAIN t /\ k - Len(s) \in DOMAIN t
      BY <1>2, <2>1, <2>2, <2>4
    <3>2. i - Len(s) = k - Len(s)
      BY <1>5, <3>1 DEF Once
    <3> QED BY <1>1, <3>2
  <2>5. CASE ~(i \in 1 .. Len(s) <=> k \in 1 .. Len(s))
    BY <1>2, <1>3, <1>5, <2>2, <2>5
  <2> QED BY <2>3, <2>4, <2>5
<1> QED BY <1>1, <1>4, <1>5 DEF u

LEMMA OnceAppend ==
  ASSUME NEW S, NEW s \in Seq(S), NEW x \in S
  PROVE  /\ Append(s, x) \in Seq(S) /\ Range(Append(s, x)) = Range(s) \cup {x}
         /\ Once(s) /\ x \notin Range(s) => Once(Append(s, x))
<1>1. Append(s, x) = s \o <<x>> /\ <<x>> \in Seq(S)
  OBVIOUS
<1>2. Range(<<x>>) = {x} /\ Once(<<x>>)
  BY ShortSeqs
<1>3. /\ s \o <<x>> \in Seq(S) /\ Range(s \o <<x>>) = Range(s) \cup Range(<<x>>)
      /\ Once(s) /\ Once(<<x>>) /\ Range(s) \cap Range(<<x>>) = {} => Once(s \o <<x>>)
  BY <1>1, OnceConcat
<1> QED BY <1>1, <1>2, <1>3

----------------------------------------------------------------------------
(* Where batches are *)

LEMMA BatchSpotFacts ==
  /\ \A p \in Priorities : /\ GlobalOf(p) \in BatchSpots /\ BatchesAt(GlobalOf(p)) = Range(global[p])
                           /\ BatchesAt(GlobalOf(p))' = Range(global'[p])
  /\ \A w \in Workers, p \in Priorities :
       /\ RestOf(w, p) \in BatchSpots /\ BatchesAt(RestOf(w, p)) = {rest[w][p]} \ {None}
       /\ BatchesAt(RestOf(w, p))' = {rest'[w][p]} \ {None}
  /\ \A w \in Workers : /\ SplitOf(w) \in BatchSpots /\ BatchesAt(SplitOf(w)) = {split[w]} \ {None}
                        /\ BatchesAt(SplitOf(w))' = {split'[w]} \ {None}
BY DEF BatchSpots, BatchesAt, GlobalOf, RestOf, SplitOf

LEMMA BatchesIn ==
  ASSUME TypeOK, NEW x \in BatchSpots
  PROVE  BatchesAt(x) \subseteq Batches
<1>1. ASSUME NEW p \in Priorities
      PROVE  Range(global[p]) \subseteq Batches
  BY RangeIn DEF TypeOK
<1>2. CASE \E p \in Priorities : x = GlobalOf(p)
  BY <1>1, <1>2, BatchSpotFacts
<1>3. CASE \E w \in Workers, p \in Priorities : x = RestOf(w, p)
  BY <1>3, BatchSpotFacts DEF TypeOK
<1>4. CASE \E w \in Workers : x = SplitOf(w)
  BY <1>4, BatchSpotFacts DEF TypeOK
<1> QED BY <1>2, <1>3, <1>4 DEF BatchSpots

\* Nothing changes but in the spots of X.
BatchesOnlyAt(X) ==
  /\ \A p \in Priorities : GlobalOf(p) \in X \/ global'[p] = global[p]
  /\ \A w \in Workers, p \in Priorities : RestOf(w, p) \in X \/ rest'[w][p] = rest[w][p]
  /\ \A w \in Workers : SplitOf(w) \in X \/ split'[w] = split[w]

LEMMA BatchesStay ==
  ASSUME NEW X, BatchesOnlyAt(X), NEW x \in BatchSpots, x \notin X
  PROVE  BatchesAt(x)' = BatchesAt(x)
<1>1. CASE \E p \in Priorities : x = GlobalOf(p)
  <2>1. PICK p \in Priorities : x = GlobalOf(p)
    BY <1>1
  <2>2. global'[p] = global[p]
    BY <2>1 DEF BatchesOnlyAt
  <2> QED BY <2>1, <2>2, BatchSpotFacts DEF BatchesAt, GlobalOf
<1>2. CASE \E w \in Workers, p \in Priorities : x = RestOf(w, p)
  <2>1. PICK w \in Workers, p \in Priorities : x = RestOf(w, p)
    BY <1>2
  <2>2. rest'[w][p] = rest[w][p]
    BY <2>1 DEF BatchesOnlyAt
  <2> QED BY <2>1, <2>2 DEF BatchesAt, RestOf
<1>3. CASE \E w \in Workers : x = SplitOf(w)
  <2>1. PICK w \in Workers : x = SplitOf(w)
    BY <1>3
  <2>2. split'[w] = split[w]
    BY <2>1 DEF BatchesOnlyAt
  <2> QED BY <2>1, <2>2 DEF BatchesAt, SplitOf
<1> QED BY <1>1, <1>2, <1>3 DEF BatchSpots

LEMMA NoBatchMoves ==
  ASSUME BatchesApart, BatchesOnlyAt({}), UNCHANGED <<submitted, index>>
  PROVE  BatchesApart'
<1>1. \A x \in BatchSpots : BatchesAt(x)' = BatchesAt(x)
  BY BatchesStay
<1>2. BatchSpots' = BatchSpots
  BY DEF BatchSpots, GlobalOf, RestOf, SplitOf
<1> QED BY <1>1, <1>2 DEF BatchesApart

\* Batch b leaves x, for y or for good.
LEMMA BatchMoves ==
  ASSUME TypeOK, BatchesApart, NEW b, NEW x \in BatchSpots, NEW y \in BatchSpots, x # y,
         b \in BatchesAt(x), BatchesOnlyAt({x, y}), BatchesAt(x)' = BatchesAt(x) \ {b},
         BatchesAt(y)' \subseteq BatchesAt(y) \cup {b},
         \A c \in Batches \ {b} : index'[c] = index[c],
         b \in BatchesAt(y)' => index'[b] < Size[b],
         submitted' = submitted
  PROVE  BatchesApart'
<1>1. \A z \in BatchSpots : z # x /\ z # y => BatchesAt(z)' = BatchesAt(z)
  BY BatchesStay
<1>2. /\ \A z, u \in BatchSpots : z # u => BatchesAt(z) \cap BatchesAt(u) = {}
      /\ \A z \in BatchSpots : \A c \in BatchesAt(z) : c \in submitted /\ index[c] < Size[c]
  BY DEF BatchesApart
<1>3. \A z \in BatchSpots : z # x => b \notin BatchesAt(z)
  BY <1>2
<1>4. \A z \in BatchSpots : z # y => BatchesAt(z)' = BatchesAt(z) \ {b}
  BY <1>1, <1>3
<1>5. \A z, u \in BatchSpots : z # u => BatchesAt(z)' \cap BatchesAt(u)' = {}
  <2>1. \A z \in BatchSpots : z # y => BatchesAt(z)' \cap BatchesAt(y)' = {}
    BY <1>2, <1>4
  <2>2. \A z, u \in BatchSpots : z # y /\ u # y /\ z # u => BatchesAt(z)' \cap BatchesAt(u)' = {}
    BY <1>2, <1>4
  <2> QED BY <2>1, <2>2
<1>6. ASSUME NEW z \in BatchSpots, NEW c \in BatchesAt(z)'
      PROVE  c \in submitted' /\ index'[c] < Size[c]
  <2>1. b \in submitted
    BY <1>2
  <2>2. CASE c = b
    <3>1. z = y
      BY <1>4, <1>6, <2>2
    <3> QED BY <1>6, <2>1, <2>2, <3>1
  <2>3. CASE c # b
    <3>1. c \in BatchesAt(z)
      BY <1>4, <1>6, <2>3
    <3>2. c \in Batches
      BY <3>1, BatchesIn
    <3> QED BY <1>2, <2>3, <3>1, <3>2
  <2> QED BY <2>2, <2>3
<1>7. BatchSpots' = BatchSpots
  BY DEF BatchSpots, GlobalOf, RestOf, SplitOf
<1>8. \A c \in Batches \ submitted' : index'[c] = 0
  BY <1>2 DEF BatchesApart
<1> QED BY <1>5, <1>6, <1>7, <1>8 DEF BatchesApart

\* Batch b is new.
LEMMA BatchEnters ==
  ASSUME TypeOK, BatchesApart, NEW b \in Batches \ submitted, NEW x \in BatchSpots,
         BatchesOnlyAt({x}), BatchesAt(x)' = BatchesAt(x) \cup {b},
         index[b] < Size[b], index' = index, submitted' = submitted \cup {b}
  PROVE  BatchesApart'
<1>1. \A z \in BatchSpots : z # x => BatchesAt(z)' = BatchesAt(z)
  BY BatchesStay
<1>2. /\ \A z, u \in BatchSpots : z # u => BatchesAt(z) \cap BatchesAt(u) = {}
      /\ \A z \in BatchSpots : \A c \in BatchesAt(z) : c \in submitted /\ index[c] < Size[c]
  BY DEF BatchesApart
<1>3. \A z \in BatchSpots : b \notin BatchesAt(z)
  BY <1>2
<1>4. \A z, u \in BatchSpots : z # u => BatchesAt(z)' \cap BatchesAt(u)' = {}
  BY <1>1, <1>2, <1>3
<1>5. \A z \in BatchSpots : \A c \in BatchesAt(z)' : c \in submitted' /\ index'[c] < Size[c]
  BY <1>1, <1>2
<1>6. BatchSpots' = BatchSpots
  BY DEF BatchSpots, GlobalOf, RestOf, SplitOf
<1>7. \A c \in Batches \ submitted' : index'[c] = 0
  BY DEF BatchesApart
<1> QED BY <1>4, <1>5, <1>6, <1>7 DEF BatchesApart

\* Worker w splits jobs off batch b, which it has found at x.
SplitsFrom(w, x, b, n, s, point) ==
  /\ SplitsOff(w, b, n, s, point) /\ split[w] = None
  /\ x # SplitOf(w) /\ b \in BatchesAt(x) /\ BatchesAt(x)' = BatchesAt(x) \ {b}
  /\ BatchesOnlyAt({x, SplitOf(w)})

SplitStep(w) ==
  \E x \in BatchSpots, b \in Batches, n \in Nat, s \in Seq(Jobs), point \in {"push", "global"} :
    SplitsFrom(w, x, b, n, s, point)

\* A batch is found in the own spot, or in that of another worker.
LEMMA RestSplits ==
  ASSUME SchedInv, NEW w \in Workers, NEW v \in Workers,
         pc[w] \in {"own", "stealBatch"}, rest[v][prio[w]] # None,
         Split(w, rest[v][prio[w]], "push"), rest' = [rest EXCEPT ![v][prio[w]] = None],
         UNCHANGED global
  PROVE  SplitStep(w)
<1>1. PICK p \in Priorities : p = prio[w]
  BY WorkerFacts
<1>2. PICK b \in Batches : b = rest[v][p] /\ index[b] < Size[b]
  BY <1>1, FoundHasJobs
<1>3. /\ TypeOK /\ buffer[w] = <<>> /\ Len(buffer[w]) < LocalSize /\ split[w] = None
      /\ Split(w, b, "push")
  BY <1>1, <1>2, WorkerFacts, Constants DEF InHand
<1>4. PICK n \in Nat, s \in Seq(Jobs) : SplitsOff(w, b, n, s, "push")
  BY <1>2, <1>3, SplitFacts
<1>5. BatchesAt(RestOf(v, p)) = {b} /\ BatchesAt(RestOf(v, p))' = {} /\ RestOf(v, p) \in BatchSpots
  <2>1. rest'[v][p] = None
    BY <1>1, <1>3 DEF TypeOK
  <2> QED BY <1>2, <2>1, BatchSpotFacts, Constants
<1>6. RestOf(v, p) # SplitOf(w)
  BY DEF RestOf, SplitOf
<1>7. BatchesOnlyAt({RestOf(v, p), SplitOf(w)})
  <2>1. \A u \in Workers, q \in Priorities : RestOf(u, q) = RestOf(v, p) \/ rest'[u][q] = rest[u][q]
    BY <1>1, <1>3 DEF TypeOK, RestOf
  <2>2. \A u \in Workers : u = w \/ split'[u] = split[u]
    BY <1>3, <1>4 DEF SplitsOff, TypeOK
  <2> QED BY <2>1, <2>2 DEF BatchesOnlyAt
<1>8. SplitsFrom(w, RestOf(v, p), b, n, s, "push")
  BY <1>3, <1>4, <1>5, <1>6, <1>7 DEF SplitsFrom
<1> QED BY <1>5, <1>8 DEF SplitStep

LEMMA SplitSteps ==
  ASSUME SchedInv, NEW w \in Workers, SelectFromOwnBatch(w) \/ PullGlobal(w) \/ StealBatch(w)
  PROVE  /\ UNCHANGED <<submitted, local, exchange, job, at, held, jobVars, mainVars, exiting>>
         /\ UNCHANGED <<global, rest, index, buffer, split>> \/ SplitStep(w)
<1>1. UNCHANGED <<submitted, local, exchange, job, at, held, jobVars, mainVars, exiting>>
  BY DEF SelectFromOwnBatch, PullGlobal, StealBatch
<1>2. CASE SelectFromOwnBatch(w)
  <2>1. CASE rest[w][prio[w]] = None
    BY <1>2, <2>1 DEF SelectFromOwnBatch
  <2>2. CASE rest[w][prio[w]] # None
    <3>1. /\ pc[w] = "own" /\ Split(w, rest[w][prio[w]], "push") /\ UNCHANGED global
          /\ rest' = [rest EXCEPT ![w][prio[w]] = None]
      BY <1>2, <2>2 DEF SelectFromOwnBatch
    <3> QED BY <2>2, <3>1, <1>1, RestSplits
  <2> QED BY <2>1, <2>2, <1>1
<1>3. CASE StealBatch(w)
  <2>1. pc[w] = "stealBatch" /\ UNCHANGED global /\ scan[w] \subseteq Workers
    BY <1>3, WorkerFacts DEF StealBatch
  <2>2. CASE UNCHANGED <<rest, index, buffer, split>>
    BY <1>1, <2>1, <2>2
  <2>3. CASE \E v \in scan[w] : /\ rest[v][prio[w]] # None /\ Split(w, rest[v][prio[w]], "push")
                                /\ rest' = [rest EXCEPT ![v][prio[w]] = None]
    BY <1>1, <2>1, <2>3, RestSplits
  <2> QED BY <1>3, <2>2, <2>3 DEF StealBatch
<1>4. CASE PullGlobal(w)
  <2>1. PICK p \in Priorities : p = prio[w]
    BY WorkerFacts
  <2>2. /\ pc[w] = "global" /\ global[p] # <<>> /\ Len(buffer[w]) < LocalSize /\ TypeOK
        /\ Split(w, Head(global[p]), "global") /\ global' = [global EXCEPT ![p] = Tail(global[p])]
        /\ UNCHANGED rest /\ split[w] = None
    BY <1>4, <2>1, WorkerFacts DEF PullGlobal, InHand
  <2>3. PICK b \in Batches : b = Head(global[p]) /\ index[b] < Size[b]
    BY <2>2, FoundHasJobs
  <2>4. PICK n \in Nat, s \in Seq(Jobs) : SplitsOff(w, b, n, s, "global")
    BY <2>2, <2>3, SplitFacts
  <2>5. /\ GlobalOf(p) \in BatchSpots /\ b \in BatchesAt(GlobalOf(p))
        /\ BatchesAt(GlobalOf(p))' = BatchesAt(GlobalOf(p)) \ {b}
    <3>1. global[p] \in Seq(Batches) /\ Once(global[p]) /\ global'[p] = Tail(global[p])
      BY <2>2 DEF TypeOK, SchedInv, NoRepeats
    <3>2. /\ Range(global[p]) = {b} \cup Range(Tail(global[p]))
          /\ Range(Tail(global[p])) = Range(global[p]) \ {b}
      BY <2>2, <2>3, <3>1, OnceTail
    <3> QED BY <3>1, <3>2, BatchSpotFacts
  <2>6. GlobalOf(p) # SplitOf(w)
    BY DEF GlobalOf, SplitOf
  <2>7. BatchesOnlyAt({GlobalOf(p), SplitOf(w)})
    <3>1. \A q \in Priorities : GlobalOf(q) = GlobalOf(p) \/ global'[q] = global[q]
      BY <2>2 DEF TypeOK, GlobalOf
    <3>2. \A u \in Workers : u = w \/ split'[u] = split[u]
      BY <2>2, <2>4 DEF SplitsOff, TypeOK
    <3> QED BY <2>2, <3>1, <3>2 DEF BatchesOnlyAt
  <2>8. SplitsFrom(w, GlobalOf(p), b, n, s, "global")
    BY <2>2, <2>4, <2>5, <2>6, <2>7 DEF SplitsFrom
  <2> QED BY <1>1, <2>5, <2>8 DEF SplitStep
<1> QED BY <1>2, <1>3, <1>4

\* Every step keeps the batches apart.
LEMMA BatchesStep ==
  ASSUME SchedInv, [Next]_vars
  PROVE  BatchesApart'
<1>1. TypeOK /\ BatchesApart
  BY DEF SchedInv
<1>2. ASSUME NEW w \in Workers, SelectFromOwnBatch(w) \/ PullGlobal(w) \/ StealBatch(w)
      PROVE  BatchesApart'
  <2>1. CASE UNCHANGED <<global, rest, index, buffer, split>>
    <3>1. BatchesOnlyAt({})
      BY <2>1 DEF BatchesOnlyAt
    <3> QED BY <1>1, <1>2, <2>1, <3>1, SplitSteps, NoBatchMoves
  <2>2. CASE SplitStep(w)
    <3>1. PICK x \in BatchSpots, b \in Batches, n \in Nat, s \in Seq(Jobs), point \in {"push", "global"} :
            SplitsFrom(w, x, b, n, s, point)
      BY <2>2 DEF SplitStep
    <3>2. /\ x # SplitOf(w) /\ b \in BatchesAt(x) /\ BatchesAt(x)' = BatchesAt(x) \ {b}
          /\ BatchesOnlyAt({x, SplitOf(w)})
      BY <3>1 DEF SplitsFrom
    <3>3. /\ \A c \in Batches \ {b} : index'[c] = index[c] /\ index'[b] = index[b] + n
          /\ \/ index[b] + n < Size[b] /\ split'[w] = b
             \/ split'[w] = None
      BY <1>1, <3>1 DEF SplitsFrom, SplitsOff, TypeOK
    <3>4. submitted' = submitted
      BY <1>2, SplitSteps
    <3>5. SplitOf(w) \in BatchSpots /\ BatchesAt(SplitOf(w))' = {split'[w]} \ {None}
      BY BatchSpotFacts
    <3>6. index'[b] = index[b] + n
      BY <1>1, <3>1 DEF SplitsFrom, SplitsOff, TypeOK
    <3> QED BY <1>1, <3>2, <3>3, <3>4, <3>5, <3>6, BatchMoves
  <2> QED BY <1>2, <2>1, <2>2, SplitSteps
<1>3. ASSUME NEW w \in Workers, KeepRemainder(w)
      PROVE  BatchesApart'
  <2>1. PICK p \in Priorities : p = prio[w]
    BY WorkerFacts
  <2>2. /\ rest' = [rest EXCEPT ![w][p] = split[w]] /\ split' = [split EXCEPT ![w] = None]
        /\ UNCHANGED <<global, index, submitted>> /\ split[w] # None /\ rest[w][p] = None
    BY <1>3, <2>1, WorkerFacts DEF KeepRemainder, InHand, Searched
  <2>3. rest'[w][p] = split[w] /\ split'[w] = None
    BY <1>1, <2>2 DEF TypeOK
  <2>4. BatchesOnlyAt({SplitOf(w), RestOf(w, p)})
    <3>1. \A u \in Workers, q \in Priorities : RestOf(u, q) = RestOf(w, p) \/ rest'[u][q] = rest[u][q]
      BY <1>1, <2>2 DEF TypeOK, RestOf
    <3>2. \A u \in Workers : u = w \/ split'[u] = split[u]
      BY <1>1, <2>2 DEF TypeOK
    <3> QED BY <2>2, <3>1, <3>2 DEF BatchesOnlyAt
  <2>5. /\ SplitOf(w) \in BatchSpots /\ RestOf(w, p) \in BatchSpots
        /\ BatchesAt(SplitOf(w)) = {split[w]} /\ BatchesAt(SplitOf(w))' = {}
        /\ BatchesAt(RestOf(w, p)) = {} /\ BatchesAt(RestOf(w, p))' = {split[w]}
    BY <2>2, <2>3, BatchSpotFacts
  <2>6. SplitOf(w) # RestOf(w, p)
    BY DEF RestOf, SplitOf
  <2>7. index[split[w]] < Size[split[w]]
    BY <2>2, FoundHasJobs
  <2> QED BY <1>1, <2>2, <2>4, <2>5, <2>6, <2>7, BatchMoves
<1>4. ASSUME NEW t \in {Main, Io}, SubmitPush(t)
      PROVE  BatchesApart'
  <2>1. PICK b \in Batches \ submitted :
          /\ submitted' = submitted \cup {b}
          /\ global' = [global EXCEPT ![Priority[b]] = Append(@, b)]
    BY <1>4 DEF SubmitPush, Batches
  <2>2. PICK p \in Priorities : p = Priority[b]
    BY Constants
  <2>3. UNCHANGED <<index, rest, split>> /\ index[b] < Size[b]
    <3>1. UNCHANGED <<index, rest, split>>
      BY <1>4 DEF SubmitPush
    <3>2. index[b] = 0 /\ Size[b] >= 1 /\ Size[b] \in Nat
      BY <1>1, Constants DEF BatchesApart
    <3> QED BY <3>1, <3>2
  <2>4. BatchesOnlyAt({GlobalOf(p)})
    <3>1. \A q \in Priorities : GlobalOf(q) = GlobalOf(p) \/ global'[q] = global[q]
      BY <1>1, <2>1, <2>2 DEF TypeOK, GlobalOf
    <3> QED BY <2>3, <3>1 DEF BatchesOnlyAt
  <2>5. GlobalOf(p) \in BatchSpots /\ BatchesAt(GlobalOf(p))' = BatchesAt(GlobalOf(p)) \cup {b}
    <3>1. global[p] \in Seq(Batches) /\ global'[p] = Append(global[p], b)
      BY <1>1, <2>1, <2>2 DEF TypeOK
    <3>2. Range(global'[p]) = Range(global[p]) \cup {b}
      BY <3>1, OnceAppend
    <3> QED BY <3>2, BatchSpotFacts
  <2> QED BY <1>1, <2>1, <2>3, <2>4, <2>5, BatchEnters
<1>5. CASE UNCHANGED <<global, rest, split, index, submitted>>
  <2>1. BatchesOnlyAt({})
    BY <1>5 DEF BatchesOnlyAt
  <2> QED BY <1>1, <1>5, <2>1, NoBatchMoves
<1>6. ASSUME NEW w \in Workers, Worker(w),
             ~(SelectFromOwnBatch(w) \/ PullGlobal(w) \/ StealBatch(w) \/ KeepRemainder(w))
      PROVE  UNCHANGED <<global, rest, split, index, submitted>>
  BY <1>6 DEF Worker, StartThread, SelectFromExchange, SelectFromLocal, WakeForRemainder,
     PullGlobalDone, NoBatchToSteal, StealJob, NothingFound, WaitForWork, Woken, QueueJobs,
     TakeFirst, JobEnds, JobYields, PushBack
<1>7. ASSUME \/ MainWaits \/ \E t \in {Main, Io} : SubmitPost(t)
             \/ \E fence \in {"frame", "all"} : BeginWait(fence)
             \/ UNCHANGED vars
      PROVE  UNCHANGED <<global, rest, split, index, submitted>>
  BY <1>7 DEF MainWaits, SubmitPost, BeginWait, FenceTest, MainSelectFromExchange, StealJob,
     MainNothingFound, MainRun, FenceDone, AnnounceExit, JoinWorkers, vars
<1> QED BY <1>2, <1>3, <1>4, <1>5, <1>6, <1>7 DEF Next, Over

----------------------------------------------------------------------------
(* Where jobs are *)

LEMMA JobSpotFacts ==
  /\ \A t \in Threads : /\ RunBy(t) \in JobSpots /\ JobsAt(RunBy(t)) = {job[t]} \ {None}
                        /\ JobsAt(RunBy(t))' = {job'[t]} \ {None}
  /\ \A w \in Workers :
       /\ HeldBy(w) \in JobSpots /\ JobsAt(HeldBy(w)) = {held[w].job} \ {None}
       /\ JobsAt(HeldBy(w))' = {held'[w].job} \ {None}
       /\ BufferOf(w) \in JobSpots /\ JobsAt(BufferOf(w)) = Range(buffer[w])
       /\ JobsAt(BufferOf(w))' = Range(buffer'[w])
  /\ \A w \in Workers, p \in Priorities :
       /\ LocalOf(w, p) \in JobSpots /\ JobsAt(LocalOf(w, p)) = Range(local[w][p])
       /\ JobsAt(LocalOf(w, p))' = Range(local'[w][p])
  /\ \A p \in Priorities :
       /\ ExchangeOf(p) \in JobSpots /\ JobsAt(ExchangeOf(p)) = {exchange[p]} \ {None}
       /\ JobsAt(ExchangeOf(p))' = {exchange'[p]} \ {None}
  /\ AtEnd \in JobSpots /\ JobsAt(AtEnd) = done /\ JobsAt(AtEnd)' = done'
BY DEF JobSpots, JobsAt, RunBy, HeldBy, BufferOf, LocalOf, ExchangeOf, AtEnd

LEMMA JobsIn ==
  ASSUME TypeOK, NEW x \in JobSpots
  PROVE  JobsAt(x) \subseteq Jobs
<1>1. ASSUME NEW w \in Workers, NEW p \in Priorities
      PROVE  Range(local[w][p]) \subseteq Jobs
  BY RangeIn DEF TypeOK
<1>2. ASSUME NEW w \in Workers
      PROVE  Range(buffer[w]) \subseteq Jobs /\ {held[w].job} \ {None} \subseteq Jobs
  <2>1. Range(buffer[w]) \subseteq Jobs
    BY RangeIn DEF TypeOK
  <2>2. {held[w].job} \ {None} \subseteq Jobs
    BY HeldParts, Constants
  <2> QED BY <2>1, <2>2
<1>3. /\ \A t \in Threads : {job[t]} \ {None} \subseteq Jobs
      /\ \A p \in Priorities : {exchange[p]} \ {None} \subseteq Jobs
      /\ done \subseteq Jobs
  BY DEF TypeOK
<1>4. CASE \E t \in Threads : x = RunBy(t)
  BY <1>3, <1>4, JobSpotFacts
<1>5. CASE \E w \in Workers : x = HeldBy(w) \/ x = BufferOf(w)
  BY <1>2, <1>5, JobSpotFacts
<1>6. CASE \E w \in Workers, p \in Priorities : x = LocalOf(w, p)
  BY <1>1, <1>6, JobSpotFacts
<1>7. CASE (\E p \in Priorities : x = ExchangeOf(p)) \/ x = AtEnd
  BY <1>3, <1>7, JobSpotFacts
<1> QED BY <1>4, <1>5, <1>6, <1>7 DEF JobSpots

\* Nothing changes but in the spots of X.
JobsOnlyAt(X) ==
  /\ \A t \in Threads : RunBy(t) \in X \/ job'[t] = job[t]
  /\ \A w \in Workers : HeldBy(w) \in X \/ held'[w] = held[w]
  /\ \A w \in Workers : BufferOf(w) \in X \/ buffer'[w] = buffer[w]
  /\ \A w \in Workers, p \in Priorities : LocalOf(w, p) \in X \/ local'[w][p] = local[w][p]
  /\ \A p \in Priorities : ExchangeOf(p) \in X \/ exchange'[p] = exchange[p]
  /\ AtEnd \in X \/ done' = done

LEMMA JobsStay ==
  ASSUME NEW X, JobsOnlyAt(X), NEW x \in JobSpots, x \notin X
  PROVE  JobsAt(x)' = JobsAt(x)
<1>1. CASE \E t \in Threads : x = RunBy(t)
  <2>1. PICK t \in Threads : x = RunBy(t) /\ job'[t] = job[t]
    BY <1>1 DEF JobsOnlyAt
  <2> QED BY <2>1 DEF JobsAt, RunBy
<1>2. CASE \E w \in Workers : x = HeldBy(w)
  <2>1. PICK w \in Workers : x = HeldBy(w) /\ held'[w] = held[w]
    BY <1>2 DEF JobsOnlyAt
  <2> QED BY <2>1 DEF JobsAt, HeldBy
<1>3. CASE \E w \in Workers : x = BufferOf(w)
  <2>1. PICK w \in Workers : x = BufferOf(w) /\ buffer'[w] = buffer[w]
    BY <1>3 DEF JobsOnlyAt
  <2> QED BY <2>1 DEF JobsAt, BufferOf
<1>4. CASE \E w \in Workers, p \in Priorities : x = LocalOf(w, p)
  <2>1. PICK w \in Workers, p \in Priorities : x = LocalOf(w, p) /\ local'[w][p] = local[w][p]
    BY <1>4 DEF JobsOnlyAt
  <2> QED BY <2>1 DEF JobsAt, LocalOf
<1>5. CASE \E p \in Priorities : x = ExchangeOf(p)
  <2>1. PICK p \in Priorities : x = ExchangeOf(p) /\ exchange'[p] = exchange[p]
    BY <1>5 DEF JobsOnlyAt
  <2> QED BY <2>1 DEF JobsAt, ExchangeOf
<1>6. CASE x = AtEnd
  <2>1. done' = done
    BY <1>6 DEF JobsOnlyAt
  <2> QED BY <1>6, <2>1 DEF JobsAt, AtEnd
<1> QED BY <1>1, <1>2, <1>3, <1>4, <1>5, <1>6 DEF JobSpots

LEMMA JobSpotsFixed == JobSpots' = JobSpots
BY DEF JobSpots, RunBy, HeldBy, BufferOf, LocalOf, ExchangeOf, AtEnd

LEMMA NoJobMoves ==
  ASSUME JobsApart, JobsOnlyAt({}), UNCHANGED <<index, lost>>
  PROVE  JobsApart'
<1>1. \A x \in JobSpots : JobsAt(x)' = JobsAt(x)
  BY JobsStay
<1> QED BY <1>1, JobSpotsFixed DEF JobsApart

\* The jobs of D leave x for y.
LEMMA JobsMove ==
  ASSUME JobsApart, NEW D, NEW x \in JobSpots, NEW y \in JobSpots, x # y,
         D \subseteq JobsAt(x), JobsOnlyAt({x, y}), JobsAt(x)' = JobsAt(x) \ D,
         JobsAt(y)' = JobsAt(y) \cup D, UNCHANGED <<index, lost>>
  PROVE  JobsApart'
<1>1. \A z \in JobSpots : z # x /\ z # y => JobsAt(z)' = JobsAt(z)
  BY JobsStay
<1>2. /\ \A z, u \in JobSpots : z # u => JobsAt(z) \cap JobsAt(u) = {}
      /\ \A z \in JobSpots : \A j \in JobsAt(z) : j[2] <= index[j[1]] /\ j \notin lost
      /\ \A j \in Jobs : j[2] <= index[j[1]] => j \in lost \/ \E z \in JobSpots : j \in JobsAt(z)
      /\ \A j \in lost : j[2] <= index[j[1]]
  BY DEF JobsApart
<1>3. \A z \in JobSpots : z # y => JobsAt(z)' = JobsAt(z) \ D
  BY <1>1, <1>2
<1>4. \A z, u \in JobSpots : z # u => JobsAt(z)' \cap JobsAt(u)' = {}
  <2>1. \A z \in JobSpots : z # y => JobsAt(z)' \cap JobsAt(y)' = {}
    BY <1>2, <1>3
  <2>2. \A z, u \in JobSpots : z # y /\ u # y /\ z # u => JobsAt(z)' \cap JobsAt(u)' = {}
    BY <1>2, <1>3
  <2> QED BY <2>1, <2>2
<1>5. \A z \in JobSpots : \A j \in JobsAt(z)' : j[2] <= index'[j[1]] /\ j \notin lost'
  BY <1>2, <1>3
<1>6. ASSUME NEW j \in Jobs, j[2] <= index'[j[1]], j \notin lost'
      PROVE  \E z \in JobSpots : j \in JobsAt(z)'
  <2>1. PICK z \in JobSpots : j \in JobsAt(z)
    BY <1>2, <1>6
  <2> QED BY <1>3, <2>1
<1>7. \A j \in lost' : j[2] <= index'[j[1]]
  BY <1>2
<1> QED BY <1>4, <1>5, <1>6, <1>7, JobSpotsFixed DEF JobsApart

\* Job j leaves x for nowhere.
LEMMA JobLeaves ==
  ASSUME JobsApart, NEW j, NEW x \in JobSpots, j \in JobsAt(x), JobsOnlyAt({x}),
         JobsAt(x)' = JobsAt(x) \ {j}, index' = index, lost' = lost \cup {j}
  PROVE  JobsApart'
<1>1. \A z \in JobSpots : z # x => JobsAt(z)' = JobsAt(z)
  BY JobsStay
<1>2. /\ \A z, u \in JobSpots : z # u => JobsAt(z) \cap JobsAt(u) = {}
      /\ \A z \in JobSpots : \A i \in JobsAt(z) : i[2] <= index[i[1]] /\ i \notin lost
      /\ \A i \in Jobs : i[2] <= index[i[1]] => i \in lost \/ \E z \in JobSpots : i \in JobsAt(z)
      /\ \A i \in lost : i[2] <= index[i[1]]
  BY DEF JobsApart
<1>3. \A z \in JobSpots : JobsAt(z)' = JobsAt(z) \ {j}
  BY <1>1, <1>2
<1>4. \A z, u \in JobSpots : z # u => JobsAt(z)' \cap JobsAt(u)' = {}
  BY <1>2, <1>3
<1>5. \A z \in JobSpots : \A i \in JobsAt(z)' : i[2] <= index'[i[1]] /\ i \notin lost'
  BY <1>2, <1>3
<1>6. ASSUME NEW i \in Jobs, i[2] <= index'[i[1]], i \notin lost'
      PROVE  \E z \in JobSpots : i \in JobsAt(z)'
  <2>1. PICK z \in JobSpots : i \in JobsAt(z)
    BY <1>2, <1>6
  <2> QED BY <1>3, <1>6, <2>1
<1>7. \A i \in lost' : i[2] <= index'[i[1]]
  BY <1>2
<1> QED BY <1>4, <1>5, <1>6, <1>7, JobSpotsFixed DEF JobsApart

\* The next n jobs of batch b are split off into the spot x.
LEMMA JobsEnter ==
  ASSUME TypeOK, JobsApart, NEW b \in Batches, NEW n \in Nat, NEW D, NEW x \in JobSpots,
         \A j : j \in D <=> \E i \in 1 .. n : j = <<b, index[b] + i>>,
         JobsOnlyAt({x}), JobsAt(x)' = JobsAt(x) \cup D,
         index[b] + n <= Size[b],
         \A c \in Batches : index'[c] = IF c = b THEN index[b] + n ELSE index[c],
         lost' = lost
  PROVE  JobsApart'
<1>1. \A z \in JobSpots : z # x => JobsAt(z)' = JobsAt(z)
  BY JobsStay
<1>2. /\ \A z, u \in JobSpots : z # u => JobsAt(z) \cap JobsAt(u) = {}
      /\ \A z \in JobSpots : \A j \in JobsAt(z) : j[2] <= index[j[1]] /\ j \notin lost
      /\ \A j \in Jobs : j[2] <= index[j[1]] => j \in lost \/ \E z \in JobSpots : j \in JobsAt(z)
      /\ \A j \in lost : j[2] <= index[j[1]]
  BY DEF JobsApart
<1>3. index[b] \in Nat /\ index'[b] = index[b] + n /\ \A c \in Batches : index[c] \in Nat
  BY DEF TypeOK
<1>4. \A j \in D : j[1] = b /\ j[2] \in Nat /\ j[2] > index[b] /\ j[2] <= index'[b]
  BY <1>3
<1>5. \A j \in D : j \notin lost /\ \A z \in JobSpots : j \notin JobsAt(z)
  BY <1>2, <1>3, <1>4
<1>6. \A z, u \in JobSpots : z # u => JobsAt(z)' \cap JobsAt(u)' = {}
  BY <1>1, <1>2, <1>5
<1>7. \A j \in Jobs : j[2] <= index[j[1]] => j[2] <= index'[j[1]]
  <2>1. \A c \in Batches : index[c] <= index'[c] /\ index'[c] \in Nat
    BY <1>3
  <2> QED BY <1>3, <2>1, JobParts
<1>8. ASSUME NEW z \in JobSpots, NEW j \in JobsAt(z)'
      PROVE  j[2] <= index'[j[1]] /\ j \notin lost'
  <2>1. CASE j \in JobsAt(z)
    <3>1. j \in Jobs
      BY <2>1, JobsIn
    <3> QED BY <1>2, <1>7, <2>1, <3>1
  <2>2. CASE j \in D
    BY <1>4, <1>5, <2>2
  <2> QED BY <1>1, <1>8, <2>1, <2>2
<1>9. ASSUME NEW j \in Jobs, j[2] <= index'[j[1]], j \notin lost'
      PROVE  \E z \in JobSpots : j \in JobsAt(z)'
  <2>1. CASE j[2] <= index[j[1]]
    <3>1. PICK z \in JobSpots : j \in JobsAt(z)
      BY <1>2, <1>9, <2>1
    <3> QED BY <1>1, <3>1
  <2>2. CASE ~(j[2] <= index[j[1]])
    <3>1. j[1] \in Batches /\ j[2] \in Nat /\ j = <<j[1], j[2]>>
      BY JobParts
    <3>2. j[1] = b
      BY <1>3, <1>9, <2>2, <3>1
    <3>3. j[2] - index[b] \in 1 .. n /\ j = <<b, index[b] + (j[2] - index[b])>>
      BY <1>3, <1>9, <2>2, <3>1, <3>2
    <3> QED BY <3>3
  <2> QED BY <2>1, <2>2
<1>10. \A j \in lost' : j[2] <= index'[j[1]]
  <2>1. lost \subseteq Jobs
    BY DEF TypeOK
  <2> QED BY <1>2, <1>7, <2>1
<1> QED BY <1>6, <1>8, <1>9, <1>10, JobSpotsFixed DEF JobsApart

\* Thread t takes job j from x.
LEMMA JobTaken ==
  ASSUME JobsApart, NEW t \in Threads, NEW j \in Jobs, NEW x \in JobSpots, x # RunBy(t),
         job[t] = None, job'[t] = j, j \in JobsAt(x), JobsAt(x)' = JobsAt(x) \ {j},
         JobsOnlyAt({x, RunBy(t)}), UNCHANGED <<index, lost>>
  PROVE  JobsApart'
<1>1. /\ RunBy(t) \in JobSpots
      /\ JobsAt(RunBy(t))' = JobsAt(RunBy(t)) \cup {j} /\ {j} \subseteq JobsAt(x)
  BY JobSpotFacts, Constants
<1> QED BY <1>1, JobsMove

LEMMA FromExchangeApart ==
  ASSUME SchedInv, NEW t \in Threads, job[t] = None, NEW p \in Priorities, exchange[p] # None,
         exchange' = [exchange EXCEPT ![p] = None], job' = [job EXCEPT ![t] = exchange[p]],
         UNCHANGED <<index, held, buffer, local, global, done, lost>>
  PROVE  JobsApart' /\ NoRepeats'
<1>1. TypeOK /\ JobsApart /\ NoRepeats
  BY DEF SchedInv
<1>2. PICK j \in Jobs : j = exchange[p]
  BY <1>1 DEF TypeOK
<1>3. job'[t] = j /\ exchange'[p] = None
  BY <1>1, <1>2 DEF TypeOK
<1>4. /\ ExchangeOf(p) \in JobSpots /\ j \in JobsAt(ExchangeOf(p))
      /\ JobsAt(ExchangeOf(p))' = JobsAt(ExchangeOf(p)) \ {j}
  BY <1>2, <1>3, JobSpotFacts, Constants
<1>5. JobsOnlyAt({ExchangeOf(p), RunBy(t)})
  <2>1. \A u \in Threads : u = t \/ job'[u] = job[u]
    BY <1>1 DEF TypeOK
  <2>2. \A q \in Priorities : q = p \/ exchange'[q] = exchange[q]
    BY <1>1 DEF TypeOK
  <2> QED BY <2>1, <2>2 DEF JobsOnlyAt
<1>6. ExchangeOf(p) # RunBy(t)
  BY DEF ExchangeOf, RunBy
<1>7. JobsApart'
  BY <1>1, <1>3, <1>4, <1>5, <1>6, JobTaken
<1> QED BY <1>1, <1>7 DEF NoRepeats

\* From the queue of worker v the oldest job or the newest.
LEMMA FromLocalApart ==
  ASSUME SchedInv, NEW t \in Threads, job[t] = None, NEW v \in Workers, NEW p \in Priorities,
         NEW j \in Jobs, NEW s \in Seq(Jobs), j \in Range(local[v][p]), Once(s),
         Range(s) = Range(local[v][p]) \ {j},
         local' = [local EXCEPT ![v][p] = s], job' = [job EXCEPT ![t] = j],
         UNCHANGED <<index, held, buffer, exchange, global, done, lost>>
  PROVE  JobsApart' /\ NoRepeats'
<1>1. TypeOK /\ JobsApart /\ NoRepeats
  BY DEF SchedInv
<1>2. job'[t] = j /\ local'[v][p] = s
  BY <1>1 DEF TypeOK
<1>3. \A u \in Workers, q \in Priorities : (u = v /\ q = p) \/ local'[u][q] = local[u][q]
  BY <1>1 DEF TypeOK
<1>4. /\ LocalOf(v, p) \in JobSpots /\ j \in JobsAt(LocalOf(v, p))
      /\ JobsAt(LocalOf(v, p))' = JobsAt(LocalOf(v, p)) \ {j}
  BY <1>2, JobSpotFacts
<1>5. JobsOnlyAt({LocalOf(v, p), RunBy(t)})
  <2>1. \A u \in Threads : u = t \/ job'[u] = job[u]
    BY <1>1 DEF TypeOK
  <2> QED BY <1>3, <2>1 DEF JobsOnlyAt
<1>6. LocalOf(v, p) # RunBy(t)
  BY DEF LocalOf, RunBy
<1>7. JobsApart'
  BY <1>1, <1>2, <1>4, <1>5, <1>6, JobTaken
<1>8. NoRepeats'
  BY <1>1, <1>2, <1>3 DEF NoRepeats
<1> QED BY <1>7, <1>8

LEMMA StealApart ==
  ASSUME SchedInv, NEW t \in Threads, NEW point, StealJob(t, point), job[t] = None,
         prio[t] \in Priorities
  PROVE  JobsApart' /\ NoRepeats'
<1>1. /\ TypeOK /\ JobsApart /\ NoRepeats
      /\ UNCHANGED <<index, held, buffer, exchange, global, done, lost>>
      /\ scan[t] \subseteq Workers
  BY DEF SchedInv, StealJob, TypeOK
<1>2. CASE UNCHANGED <<local, job>>
  <2>1. JobsOnlyAt({})
    BY <1>1, <1>2 DEF JobsOnlyAt
  <2>2. JobsApart'
    BY <1>1, <2>1, NoJobMoves
  <2> QED BY <1>1, <1>2, <2>2 DEF NoRepeats
<1>3. ASSUME NEW v \in scan[t], local[v][prio[t]] # <<>>, Take(t, Head(local[v][prio[t]]), point),
             local' = [local EXCEPT ![v][prio[t]] = Tail(local[v][prio[t]])]
      PROVE  JobsApart' /\ NoRepeats'
  <2>1. PICK p \in Priorities : p = prio[t]
    OBVIOUS
  <2>2. /\ v \in Workers /\ local[v][p] \in Seq(Jobs) /\ local[v][p] # <<>> /\ Once(local[v][p])
    BY <1>1, <1>3, <2>1 DEF TypeOK, NoRepeats
  <2>3. /\ Head(local[v][p]) \in Jobs /\ Tail(local[v][p]) \in Seq(Jobs)
        /\ Head(local[v][p]) \in Range(local[v][p]) /\ Once(Tail(local[v][p]))
        /\ Range(Tail(local[v][p])) = Range(local[v][p]) \ {Head(local[v][p])}
    BY <2>2, OnceTail
  <2>4. /\ local' = [local EXCEPT ![v][p] = Tail(local[v][p])]
        /\ job' = [job EXCEPT ![t] = Head(local[v][p])]
    BY <1>3, <2>1 DEF Take
  <2> QED BY <1>1, <2>2, <2>3, <2>4, FromLocalApart
<1> QED BY <1>2, <1>3 DEF StealJob

LEMMA SelectApart ==
  ASSUME SchedInv, NEW w \in Workers, SelectFromExchange(w) \/ SelectFromLocal(w)
  PROVE  JobsApart' /\ NoRepeats'
<1>1. PICK p \in Priorities : p = prio[w]
  BY WorkerFacts
<1>2. /\ TypeOK /\ JobsApart /\ NoRepeats /\ w \in Threads /\ job[w] = None
      /\ UNCHANGED <<index, held, buffer, global, done, lost>>
  BY WorkerFacts DEF SchedInv, SelectFromExchange, SelectFromLocal, InHand
<1>3. CASE UNCHANGED <<local, job, exchange>>
  <2>1. JobsOnlyAt({})
    BY <1>2, <1>3 DEF JobsOnlyAt
  <2>2. JobsApart'
    BY <1>2, <2>1, NoJobMoves
  <2> QED BY <1>2, <1>3, <2>2 DEF NoRepeats
<1>4. CASE SelectFromExchange(w)
  <2>1. exchange' = [exchange EXCEPT ![p] = None] /\ UNCHANGED local
    BY <1>1, <1>4 DEF SelectFromExchange
  <2>2. CASE exchange[p] = None
    <3>1. job' = job /\ exchange' = exchange
      BY <1>1, <1>2, <1>4, <2>1, <2>2 DEF SelectFromExchange, TypeOK
    <3> QED BY <1>3, <2>1, <3>1
  <2>3. CASE exchange[p] # None
    <3>1. job' = [job EXCEPT ![w] = exchange[p]]
      BY <1>1, <1>4, <2>3 DEF SelectFromExchange, Take
    <3> QED BY <1>2, <2>1, <2>3, <3>1, FromExchangeApart
  <2> QED BY <2>2, <2>3
<1>5. CASE SelectFromLocal(w)
  <2>1. UNCHANGED exchange
    BY <1>5 DEF SelectFromLocal
  <2>2. CASE local[w][p] = <<>>
    <3>1. UNCHANGED <<local, job>>
      BY <1>1, <1>5, <2>2 DEF SelectFromLocal
    <3> QED BY <1>3, <2>1, <3>1
  <2>3. CASE local[w][p] # <<>>
    <3> DEFINE jobs == local[w][p]
    <3>1. /\ local' = [local EXCEPT ![w][p] = SubSeq(jobs, 1, Len(jobs) - 1)]
          /\ job' = [job EXCEPT ![w] = jobs[Len(jobs)]]
      BY <1>1, <1>5, <2>3 DEF SelectFromLocal, Take
    <3>2. jobs \in Seq(Jobs) /\ jobs # <<>> /\ Once(jobs)
      BY <1>2, <2>3 DEF TypeOK, NoRepeats
    <3>3. /\ jobs[Len(jobs)] \in Range(jobs) /\ SubSeq(jobs, 1, Len(jobs) - 1) \in Seq(Jobs)
          /\ Once(SubSeq(jobs, 1, Len(jobs) - 1))
          /\ Range(SubSeq(jobs, 1, Len(jobs) - 1)) = Range(jobs) \ {jobs[Len(jobs)]}
      BY <3>2, OnceFront
    <3>4. jobs[Len(jobs)] \in Jobs
      BY <3>2
    <3> QED BY <1>2, <2>1, <3>1, <3>3, <3>4, FromLocalApart
  <2> QED BY <2>2, <2>3
<1> QED BY <1>4, <1>5

LEMMA SplitApart ==
  ASSUME SchedInv, NEW w \in Workers, SelectFromOwnBatch(w) \/ PullGlobal(w) \/ StealBatch(w)
  PROVE  JobsApart' /\ NoRepeats'
<1>1. /\ TypeOK /\ JobsApart /\ NoRepeats /\ UNCHANGED <<local, exchange, job, held, done, lost>>
  BY SplitSteps DEF SchedInv
<1>2. \A p \in Priorities : Once(global'[p])
  <2>1. ASSUME NEW p \in Priorities, PullGlobal(w)
        PROVE  Once(global'[p])
    <3>1. PICK q \in Priorities : q = prio[w]
      BY WorkerFacts
    <3>2. global' = [global EXCEPT ![q] = Tail(global[q])] /\ global[q] # <<>>
      BY <2>1, <3>1 DEF PullGlobal
    <3>3. global[q] \in Seq(Batches) /\ Once(global[q]) /\ Once(global[p])
      BY <1>1 DEF TypeOK, NoRepeats
    <3>4. Once(Tail(global[q]))
      BY <3>2, <3>3, OnceTail
    <3>5. global'[p] = global[p] \/ global'[p] = Tail(global[q])
      BY <1>1, <3>2 DEF TypeOK
    <3> QED BY <3>3, <3>4, <3>5
  <2>2. CASE SelectFromOwnBatch(w) \/ StealBatch(w)
    <3>1. global' = global
      BY <2>2 DEF SelectFromOwnBatch, StealBatch
    <3> QED BY <1>1, <3>1 DEF NoRepeats
  <2> QED BY <2>1, <2>2
<1>3. CASE UNCHANGED <<buffer, index>>
  <2>1. JobsOnlyAt({})
    BY <1>1, <1>3 DEF JobsOnlyAt
  <2>2. JobsApart'
    BY <1>1, <1>3, <2>1, NoJobMoves
  <2>3. NoRepeats'
    BY <1>1, <1>2, <1>3 DEF NoRepeats
  <2> QED BY <2>2, <2>3
<1>4. CASE SplitStep(w)
  <2>1. PICK b \in Batches, n \in Nat, s \in Seq(Jobs), point \in {"push", "global"} :
          SplitsOff(w, b, n, s, point)
    BY <1>4 DEF SplitStep, SplitsFrom
  <2>2. /\ Len(s) = n /\ \A i \in 1 .. n : s[i] = <<b, index[b] + i>>
        /\ index[b] + n <= Size[b] /\ buffer' = [buffer EXCEPT ![w] = buffer[w] \o s]
        /\ index' = [index EXCEPT ![b] = index[b] + n]
    BY <2>1 DEF SplitsOff
  <2>3. /\ \A c \in Batches : index'[c] = IF c = b THEN index[b] + n ELSE index[c]
        /\ buffer'[w] = buffer[w] \o s /\ \A u \in Workers : u = w \/ buffer'[u] = buffer[u]
        /\ buffer[w] \in Seq(Jobs) /\ Once(buffer[w]) /\ index[b] \in Nat
    BY <1>1, <2>2 DEF TypeOK, NoRepeats
  <2>4. \A j : j \in Range(s) <=> \E i \in 1 .. n : j = <<b, index[b] + i>>
    <3>1. \A j : j \in Range(s) <=> \E i \in 1 .. Len(s) : s[i] = j
      BY RangeMembers
    <3> QED BY <2>2, <3>1
  <2>5. Once(s)
    <3>1. DOMAIN s = 1 .. n
      BY <2>2
    <3>2. \A i, k \in 1 .. n : <<b, index[b] + i>> = <<b, index[b] + k>> => i = k
      BY <2>3
    <3> QED BY <2>2, <3>1, <3>2 DEF Once
  <2>6. Range(buffer[w]) \cap Range(s) = {}
    <3>1. \A j \in Range(buffer[w]) : j[2] <= index[j[1]]
      BY <1>1, JobSpotFacts DEF JobsApart
    <3>2. \A j \in Range(s) : ~(j[2] <= index[j[1]])
      BY <2>3, <2>4
    <3> QED BY <3>1, <3>2
  <2>7. Range(buffer'[w]) = Range(buffer[w]) \cup Range(s) /\ Once(buffer'[w])
    BY <2>3, <2>5, <2>6, OnceConcat
  <2>8. BufferOf(w) \in JobSpots /\ JobsAt(BufferOf(w))' = JobsAt(BufferOf(w)) \cup Range(s)
    BY <2>7, JobSpotFacts
  <2>9. JobsOnlyAt({BufferOf(w)})
    BY <1>1, <2>3 DEF JobsOnlyAt
  <2>10. JobsApart'
    BY <1>1, <2>2, <2>3, <2>4, <2>8, <2>9, JobsEnter
  <2>11. NoRepeats'
    BY <1>1, <1>2, <2>3, <2>7 DEF NoRepeats
  <2> QED BY <2>10, <2>11
<1> QED BY <1>3, <1>4, SplitSteps

LEMMA ResumeApart ==
  ASSUME SchedInv, NEW w \in Workers, PullGlobalDone(w)
  PROVE  JobsApart' /\ NoRepeats'
<1>1. /\ TypeOK /\ JobsApart /\ NoRepeats /\ w \in Threads /\ job[w] = None
      /\ UNCHANGED <<index, local, buffer, exchange, global, done, lost>>
  BY WorkerFacts DEF SchedInv, PullGlobalDone, InHand
<1>2. NoRepeats'
  BY <1>1 DEF NoRepeats
<1>3. CASE UNCHANGED <<job, held>>
  <2>1. JobsOnlyAt({})
    BY <1>1, <1>3 DEF JobsOnlyAt
  <2> QED BY <1>1, <1>2, <2>1, NoJobMoves
<1>4. CASE ~(UNCHANGED <<job, held>>)
  <2>1. /\ held[w] # NotHeld /\ job' = [job EXCEPT ![w] = held[w].job]
        /\ held' = [held EXCEPT ![w] = NotHeld]
    BY <1>4 DEF PullGlobalDone
  <2>2. PICK j \in Jobs : j = held[w].job
    BY <1>1, <2>1, HeldParts
  <2>3. job'[w] = j /\ held'[w] = NotHeld
    BY <1>1, <2>1, <2>2 DEF TypeOK
  <2>4. /\ HeldBy(w) \in JobSpots /\ j \in JobsAt(HeldBy(w))
        /\ JobsAt(HeldBy(w))' = JobsAt(HeldBy(w)) \ {j}
    BY <2>2, <2>3, JobSpotFacts, Constants
  <2>5. HeldBy(w) # RunBy(w)
    BY DEF HeldBy, RunBy
  <2>6. JobsOnlyAt({HeldBy(w), RunBy(w)})
    <3>1. \A u \in Threads : u = w \/ job'[u] = job[u]
      BY <1>1, <2>1 DEF TypeOK
    <3>2. \A u \in Workers : u = w \/ held'[u] = held[u]
      BY <1>1, <2>1 DEF TypeOK
    <3> QED BY <1>1, <3>1, <3>2 DEF JobsOnlyAt
  <2> QED BY <1>1, <1>2, <2>3, <2>4, <2>5, <2>6, JobTaken
<1> QED BY <1>3, <1>4

LEMMA QueueJobsApart ==
  ASSUME SchedInv, NEW w \in Workers, QueueJobs(w)
  PROVE  JobsApart' /\ NoRepeats'
<1>1. PICK p \in Priorities : p = prio[w]
  BY WorkerFacts
<1> DEFINE s == Tail(buffer[w])
<1> DEFINE j == Head(buffer[w])
<1>2. /\ TypeOK /\ JobsApart /\ NoRepeats /\ pc[w] = "push"
      /\ UNCHANGED <<index, job, held, exchange, global, done, lost>>
  BY DEF SchedInv, QueueJobs
<1>3. /\ local' = [local EXCEPT ![w][p] = s] /\ buffer' = [buffer EXCEPT ![w] = <<j>>]
      /\ local[w][p] = <<>> /\ buffer[w] \in Seq(Jobs) /\ buffer[w] # <<>> /\ Once(buffer[w])
  BY <1>1, <1>2, QueueJobsEffect, RoomForMore DEF NoRepeats
<1>4. /\ j \in Jobs /\ s \in Seq(Jobs) /\ Once(s) /\ Range(s) = Range(buffer[w]) \ {j}
      /\ j \in Range(buffer[w])
  BY <1>3, OnceTail
<1> HIDE DEF s, j
<1>5. /\ local'[w][p] = s /\ buffer'[w] = <<j>>
      /\ \A u \in Workers, q \in Priorities : (u = w /\ q = p) \/ local'[u][q] = local[u][q]
      /\ \A u \in Workers : u = w \/ buffer'[u] = buffer[u]
  BY <1>2, <1>3 DEF TypeOK
<1>6. Range(<<j>>) = {j} /\ Once(<<j>>) /\ Range(<<>>) = {}
  BY ShortSeqs
<1>7. /\ BufferOf(w) \in JobSpots /\ LocalOf(w, p) \in JobSpots
      /\ Range(s) \subseteq JobsAt(BufferOf(w))
      /\ JobsAt(BufferOf(w))' = JobsAt(BufferOf(w)) \ Range(s)
      /\ JobsAt(LocalOf(w, p))' = JobsAt(LocalOf(w, p)) \cup Range(s)
  <2>1. JobsAt(BufferOf(w)) = Range(buffer[w]) /\ JobsAt(BufferOf(w))' = {j}
    BY <1>5, <1>6, JobSpotFacts
  <2>2. JobsAt(LocalOf(w, p)) = {} /\ JobsAt(LocalOf(w, p))' = Range(s)
    BY <1>3, <1>5, <1>6, JobSpotFacts
  <2> QED BY <1>4, <2>1, <2>2, JobSpotFacts
<1>8. BufferOf(w) # LocalOf(w, p)
  BY DEF BufferOf, LocalOf
<1>9. JobsOnlyAt({BufferOf(w), LocalOf(w, p)})
  BY <1>2, <1>5 DEF JobsOnlyAt
<1>10. JobsApart'
  BY <1>2, <1>7, <1>8, <1>9, JobsMove
<1>11. NoRepeats'
  BY <1>2, <1>4, <1>5, <1>6 DEF NoRepeats
<1> QED BY <1>10, <1>11

LEMMA TakeFirstApart ==
  ASSUME SchedInv, NEW w \in Workers, TakeFirst(w)
  PROVE  JobsApart' /\ NoRepeats'
<1>1. /\ TypeOK /\ JobsApart /\ NoRepeats /\ w \in Threads /\ job[w] = None
      /\ Len(buffer[w]) = 1
      /\ UNCHANGED <<index, local, held, exchange, global, done, lost>>
  BY WorkerFacts DEF SchedInv, TakeFirst, InHand
<1>2. PICK j \in Jobs : j = Head(buffer[w]) /\ buffer[w] = <<j>>
  <2>1. buffer[w] \in Seq(Jobs)
    BY <1>1 DEF TypeOK
  <2> QED BY <1>1, <2>1
<1>3. job' = [job EXCEPT ![w] = j] /\ buffer' = [buffer EXCEPT ![w] = <<>>]
  BY <1>2 DEF TakeFirst, Take
<1>4. /\ job'[w] = j /\ buffer'[w] = <<>>
      /\ \A u \in Threads : u = w \/ job'[u] = job[u]
      /\ \A u \in Workers : u = w \/ buffer'[u] = buffer[u]
  BY <1>1, <1>3 DEF TypeOK
<1>5. Range(<<j>>) = {j} /\ Range(<<>>) = {} /\ Once(<<>>)
  BY ShortSeqs
<1>6. /\ BufferOf(w) \in JobSpots /\ j \in JobsAt(BufferOf(w))
      /\ JobsAt(BufferOf(w))' = JobsAt(BufferOf(w)) \ {j}
  <2>1. Range(buffer[w]) = {j} /\ Range(buffer'[w]) = {}
    BY <1>2, <1>4, <1>5
  <2> QED BY <2>1, JobSpotFacts
<1>7. BufferOf(w) # RunBy(w)
  BY DEF BufferOf, RunBy
<1>8. JobsOnlyAt({BufferOf(w), RunBy(w)})
  BY <1>1, <1>4 DEF JobsOnlyAt
<1>9. JobsApart'
  BY <1>1, <1>4, <1>6, <1>7, <1>8, JobTaken
<1>10. NoRepeats'
  BY <1>1, <1>4, <1>5 DEF NoRepeats
<1> QED BY <1>9, <1>10

\* Thread t has run its job to the end.
LEMMA EndApart ==
  ASSUME SchedInv, NEW t \in Threads, job[t] # None, done' = done \cup {job[t]},
         job' = [job EXCEPT ![t] = None],
         UNCHANGED <<index, local, buffer, held, exchange, global, lost>>
  PROVE  JobsApart' /\ NoRepeats'
<1>1. TypeOK /\ JobsApart /\ NoRepeats
  BY DEF SchedInv
<1>2. PICK j \in Jobs : j = job[t]
  BY <1>1 DEF TypeOK
<1>3. job'[t] = None /\ \A u \in Threads : u = t \/ job'[u] = job[u]
  BY <1>1 DEF TypeOK
<1>4. /\ RunBy(t) \in JobSpots /\ AtEnd \in JobSpots /\ {j} \subseteq JobsAt(RunBy(t))
      /\ JobsAt(RunBy(t))' = JobsAt(RunBy(t)) \ {j} /\ JobsAt(AtEnd)' = JobsAt(AtEnd) \cup {j}
  BY <1>2, <1>3, JobSpotFacts
<1>5. RunBy(t) # AtEnd
  BY DEF RunBy, AtEnd
<1>6. JobsOnlyAt({RunBy(t), AtEnd})
  BY <1>3 DEF JobsOnlyAt
<1>7. JobsApart'
  BY <1>1, <1>4, <1>5, <1>6, JobsMove
<1> QED BY <1>1, <1>7 DEF NoRepeats

LEMMA YieldApart ==
  ASSUME SchedInv, NEW w \in Workers, JobYields(w)
  PROVE  JobsApart' /\ NoRepeats'
<1>1. /\ TypeOK /\ JobsApart /\ NoRepeats /\ w \in Threads /\ job[w] # None /\ held[w] = NotHeld
      /\ UNCHANGED <<index, local, buffer, exchange, global, done, lost>>
      /\ job' = [job EXCEPT ![w] = None]
      /\ held' = [held EXCEPT ![w] = [job |-> job[w], prio |-> prio[w]]]
  BY WorkerFacts DEF SchedInv, JobYields, InHand
<1>2. PICK j \in Jobs : j = job[w]
  BY <1>1 DEF TypeOK
<1>3. /\ job'[w] = None /\ held'[w].job = j
      /\ \A u \in Threads : u = w \/ job'[u] = job[u]
      /\ \A u \in Workers : u = w \/ held'[u] = held[u]
  BY <1>1, <1>2 DEF TypeOK
<1>4. /\ RunBy(w) \in JobSpots /\ HeldBy(w) \in JobSpots /\ {j} \subseteq JobsAt(RunBy(w))
      /\ JobsAt(RunBy(w))' = JobsAt(RunBy(w)) \ {j}
      /\ JobsAt(HeldBy(w))' = JobsAt(HeldBy(w)) \cup {j}
  BY <1>1, <1>2, <1>3, JobSpotFacts, Constants
<1>5. RunBy(w) # HeldBy(w)
  BY DEF RunBy, HeldBy
<1>6. JobsOnlyAt({RunBy(w), HeldBy(w)})
  BY <1>1, <1>3 DEF JobsOnlyAt
<1>7. JobsApart'
  BY <1>1, <1>4, <1>5, <1>6, JobsMove
<1> QED BY <1>1, <1>7 DEF NoRepeats

LEMMA PushBackApart ==
  ASSUME SchedInv, NEW w \in Workers, PushBack(w)
  PROVE  JobsApart' /\ NoRepeats'
<1>1. /\ TypeOK /\ JobsApart /\ NoRepeats /\ held[w] # NotHeld
      /\ UNCHANGED <<index, job, buffer, exchange, global, done>>
      /\ held' = [held EXCEPT ![w] = NotHeld]
  BY WorkerFacts DEF SchedInv, PushBack, InHand
<1>2. PICK j \in Jobs, p \in Priorities : j = held[w].job /\ p = held[w].prio
  BY <1>1, HeldParts
<1>3. held'[w].job = None /\ \A u \in Workers : u = w \/ held'[u] = held[u]
  BY <1>1, Constants DEF TypeOK
<1>4. /\ HeldBy(w) \in JobSpots /\ {j} \subseteq JobsAt(HeldBy(w)) /\ j \in JobsAt(HeldBy(w))
      /\ JobsAt(HeldBy(w))' = JobsAt(HeldBy(w)) \ {j}
  BY <1>2, <1>3, JobSpotFacts, Constants
<1>5. CASE local' = [local EXCEPT ![w][p] = Append(local[w][p], j)] /\ lost' = lost
  <2>1. local[w][p] \in Seq(Jobs) /\ Once(local[w][p])
    BY <1>1 DEF TypeOK, NoRepeats
  <2>2. j \notin Range(local[w][p])
    <3>1. /\ LocalOf(w, p) \in JobSpots /\ JobsAt(LocalOf(w, p)) = Range(local[w][p])
          /\ LocalOf(w, p) # HeldBy(w)
      BY JobSpotFacts DEF LocalOf, HeldBy
    <3> QED BY <1>1, <1>4, <3>1 DEF JobsApart
  <2> DEFINE s == Append(local[w][p], j)
  <2>3. s \in Seq(Jobs) /\ Range(s) = Range(local[w][p]) \cup {j} /\ Once(s)
    BY <2>1, <2>2, OnceAppend
  <2>4. local' = [local EXCEPT ![w][p] = s]
    BY <1>5
  <2> HIDE DEF s
  <2>5. /\ local'[w][p] = s
        /\ \A u \in Workers, q \in Priorities : (u = w /\ q = p) \/ local'[u][q] = local[u][q]
    BY <1>1, <2>4 DEF TypeOK
  <2>6. /\ LocalOf(w, p) \in JobSpots /\ LocalOf(w, p) # HeldBy(w)
        /\ JobsAt(LocalOf(w, p))' = JobsAt(LocalOf(w, p)) \cup {j}
    BY <2>3, <2>5, JobSpotFacts DEF LocalOf, HeldBy
  <2>7. JobsOnlyAt({HeldBy(w), LocalOf(w, p)})
    BY <1>1, <1>3, <2>5 DEF JobsOnlyAt
  <2>8. JobsApart'
    BY <1>1, <1>4, <1>5, <2>6, <2>7, JobsMove
  <2>9. NoRepeats'
    BY <1>1, <2>3, <2>5 DEF NoRepeats
  <2> QED BY <2>8, <2>9
<1>6. CASE local' = local /\ lost' = lost \cup {j}
  <2>1. JobsOnlyAt({HeldBy(w)})
    BY <1>1, <1>3, <1>6 DEF JobsOnlyAt
  <2>2. JobsApart'
    BY <1>1, <1>4, <1>6, <2>1, JobLeaves
  <2> QED BY <1>1, <1>6, <2>2 DEF NoRepeats
<1>7. \/ local' = [local EXCEPT ![w][p] = Append(local[w][p], j)] /\ lost' = lost
      \/ local' = local /\ lost' = lost \cup {j}
  BY <1>2 DEF PushBack
<1> QED BY <1>5, <1>6, <1>7

LEMMA FenceDoneApart ==
  ASSUME SchedInv, FenceDone
  PROVE  JobsApart' /\ NoRepeats'
<1>1. /\ TypeOK /\ JobsApart /\ NoRepeats /\ Main \in Threads
      /\ UNCHANGED <<index, local, buffer, held, global, done>>
      /\ job' = [job EXCEPT ![Main] = None]
  BY Constants DEF SchedInv, FenceDone
<1>2. NoRepeats'
  BY <1>1 DEF NoRepeats
<1>3. job'[Main] = None /\ \A u \in Threads : u = Main \/ job'[u] = job[u]
  BY <1>1 DEF TypeOK
<1>4. CASE inProgress
  <2>1. /\ job[Main] # None /\ prio[Main] \in Priorities /\ exchange[prio[Main]] = None
    BY <1>4, MainFacts DEF MainInHand, ExchangeFree
  <2>2. PICK j \in Jobs, p \in Priorities : j = job[Main] /\ p = prio[Main]
    BY <1>1, <2>1 DEF TypeOK
  <2>3. exchange' = [exchange EXCEPT ![p] = j] /\ lost' = lost
    BY <1>4, <2>2 DEF FenceDone
  <2>4. exchange'[p] = j /\ \A q \in Priorities : q = p \/ exchange'[q] = exchange[q]
    BY <1>1, <2>3 DEF TypeOK
  <2>5. /\ RunBy(Main) \in JobSpots /\ ExchangeOf(p) \in JobSpots
        /\ {j} \subseteq JobsAt(RunBy(Main))
        /\ JobsAt(RunBy(Main))' = JobsAt(RunBy(Main)) \ {j}
        /\ JobsAt(ExchangeOf(p))' = JobsAt(ExchangeOf(p)) \cup {j}
    BY <1>1, <1>3, <2>1, <2>2, <2>4, JobSpotFacts, Constants
  <2>6. RunBy(Main) # ExchangeOf(p)
    BY DEF RunBy, ExchangeOf
  <2>7. JobsOnlyAt({RunBy(Main), ExchangeOf(p)})
    BY <1>1, <1>3, <2>4 DEF JobsOnlyAt
  <2> QED BY <1>1, <1>2, <2>3, <2>5, <2>6, <2>7, JobsMove
<1>5. CASE ~inProgress
  <2>1. exchange' = exchange /\ lost' = lost \cup ({job[Main]} \ {None})
    BY <1>5 DEF FenceDone
  <2>2. CASE job[Main] = None
    <3>1. JobsOnlyAt({}) /\ lost' = lost
      BY <1>1, <1>3, <2>1, <2>2 DEF JobsOnlyAt
    <3> QED BY <1>1, <1>2, <3>1, NoJobMoves
  <2>3. CASE job[Main] # None
    <3>1. PICK j \in Jobs : j = job[Main]
      BY <1>1, <2>3 DEF TypeOK
    <3>2. lost' = lost \cup {j}
      BY <2>1, <3>1, Constants
    <3>3. /\ RunBy(Main) \in JobSpots /\ j \in JobsAt(RunBy(Main))
          /\ JobsAt(RunBy(Main))' = JobsAt(RunBy(Main)) \ {j}
      BY <1>1, <1>3, <2>3, <3>1, JobSpotFacts
    <3>4. JobsOnlyAt({RunBy(Main)})
      BY <1>1, <1>3, <2>1 DEF JobsOnlyAt
    <3> QED BY <1>1, <1>2, <3>2, <3>3, <3>4, JobLeaves
  <2> QED BY <2>2, <2>3
<1> QED BY <1>4, <1>5

\* Every step keeps the jobs apart.
LEMMA JobsStep ==
  ASSUME SchedInv, [Next]_vars
  PROVE  JobsApart' /\ NoRepeats'
<1>1. TypeOK /\ JobsApart /\ NoRepeats /\ BatchesApart
  BY DEF SchedInv
<1>2. ASSUME UNCHANGED <<index, lost, job, held, buffer, local, exchange, done>>
      PROVE  JobsApart' /\ (UNCHANGED global => NoRepeats')
  <2>1. JobsOnlyAt({})
    BY <1>2 DEF JobsOnlyAt
  <2>2. JobsApart'
    BY <1>1, <1>2, <2>1, NoJobMoves
  <2> QED BY <1>1, <1>2, <2>2 DEF NoRepeats
<1>3. ASSUME NEW w \in Workers, Worker(w)
      PROVE  JobsApart' /\ NoRepeats'
  <2>1. CASE \/ StartThread(w) \/ WakeForRemainder(w) \/ KeepRemainder(w) \/ NoBatchToSteal(w)
             \/ NothingFound(w) \/ WaitForWork(w) \/ Woken(w)
    BY <1>2, <2>1 DEF StartThread, WakeForRemainder, KeepRemainder, NoBatchToSteal, NothingFound,
       WaitForWork, Woken
  <2>2. CASE StealJob(w, "run")
    <3>1. w \in Threads /\ job[w] = None /\ prio[w] \in Priorities
      BY <2>2, WorkerFacts DEF InHand, StealJob
    <3> QED BY <2>2, <3>1, StealApart
  <2>3. CASE JobEnds(w)
    <3>1. w \in Threads /\ job[w] # None
      BY <2>3, WorkerFacts DEF InHand, JobEnds
    <3> QED BY <2>3, <3>1, EndApart DEF JobEnds
  <2> QED BY <1>3, <2>1, <2>2, <2>3, SelectApart, SplitApart, ResumeApart, QueueJobsApart,
       TakeFirstApart, YieldApart, PushBackApart DEF Worker
<1>4. CASE \/ FenceTest \/ MainNothingFound \/ AnnounceExit \/ JoinWorkers \/ UNCHANGED vars
           \/ \E fence \in {"frame", "all"} : BeginWait(fence)
           \/ \E t \in {Main, Io} : SubmitPost(t)
  BY <1>2, <1>4 DEF FenceTest, MainNothingFound, AnnounceExit, JoinWorkers, vars, BeginWait,
     SubmitPost
<1>5. ASSUME NEW t \in {Main, Io}, SubmitPush(t)
      PROVE  JobsApart' /\ NoRepeats'
  <2>1. UNCHANGED <<index, lost, job, held, buffer, local, exchange, done>>
    BY <1>5 DEF SubmitPush
  <2>2. PICK b \in Batches \ submitted : global' = [global EXCEPT ![Priority[b]] = Append(@, b)]
    BY <1>5 DEF SubmitPush, Batches
  <2>3. PICK q \in Priorities : q = Priority[b]
    BY Constants
  <2>4. global[q] \in Seq(Batches) /\ Once(global[q]) /\ b \notin Range(global[q])
    BY <1>1, BatchSpotFacts DEF TypeOK, NoRepeats, BatchesApart
  <2>5. Once(Append(global[q], b))
    BY <2>4, OnceAppend
  <2>6. \A p \in Priorities : global'[p] = global[p] \/ global'[p] = Append(global[q], b)
    BY <1>1, <2>2, <2>3 DEF TypeOK
  <2> QED BY <1>1, <1>2, <2>1, <2>5, <2>6 DEF NoRepeats
<1>6. CASE MainSelectFromExchange
  <2>1. /\ Main \in Threads /\ job[Main] = None /\ prio[Main] \in Priorities
        /\ UNCHANGED <<index, held, buffer, local, global, done, lost>>
        /\ exchange' = [exchange EXCEPT ![prio[Main]] = None]
    BY <1>6, MainFacts DEF MainInHand, MainSelectFromExchange
  <2>2. PICK p \in Priorities : p = prio[Main]
    BY <2>1
  <2>3. CASE exchange[p] = None
    <3>1. exchange' = exchange /\ job' = job
      BY <1>1, <1>6, <2>1, <2>2, <2>3 DEF MainSelectFromExchange, TypeOK
    <3> QED BY <1>2, <2>1, <3>1
  <2>4. CASE exchange[p] # None
    <3>1. job' = [job EXCEPT ![Main] = exchange[p]]
      BY <1>6, <2>2, <2>4 DEF MainSelectFromExchange, Take
    <3> QED BY <2>1, <2>2, <2>4, <3>1, FromExchangeApart
  <2> QED BY <2>3, <2>4
<1>7. CASE StealJob(Main, "fence")
  <2>1. Main \in Threads /\ job[Main] = None /\ prio[Main] \in Priorities
    BY <1>7, MainFacts DEF MainInHand, StealJob
  <2> QED BY <1>7, <2>1, StealApart
<1>8. CASE MainRun
  <2>1. Main \in Threads /\ job[Main] # None
    BY <1>8, MainFacts DEF MainInHand, MainRun
  <2>2. UNCHANGED <<index, local, buffer, held, exchange, global, lost>>
    BY <1>8 DEF MainRun
  <2>3. CASE done' = done \cup {job[Main]} /\ job' = [job EXCEPT ![Main] = None]
    BY <2>1, <2>2, <2>3, EndApart
  <2>4. CASE UNCHANGED <<done, job>>
    BY <1>2, <2>2, <2>4
  <2> QED BY <1>8, <2>3, <2>4 DEF MainRun
<1> QED BY <1>3, <1>4, <1>5, <1>6, <1>7, <1>8, FenceDoneApart DEF Next, MainWaits, Over

----------------------------------------------------------------------------
(* The section a job has reached *)

\* No job is in the hands of two.
LEMMA HandsApart ==
  ASSUME SchedInv
  PROVE  /\ \A t, u \in Threads : job[t] # None /\ job[t] = job[u] => t = u
         /\ \A t \in Threads, w \in Workers : job[t] # None => job[t] # held[w].job
         /\ \A v, w \in Workers : held[w].job # None /\ held[w].job = held[v].job => v = w
<1>1. \A x, y \in JobSpots : x # y => JobsAt(x) \cap JobsAt(y) = {}
  BY DEF SchedInv, JobsApart
<1>2. ASSUME NEW t \in Threads, NEW u \in Threads, job[t] # None, job[t] = job[u], t # u
      PROVE  FALSE
  <2>1. /\ RunBy(t) \in JobSpots /\ RunBy(u) \in JobSpots /\ RunBy(t) # RunBy(u)
        /\ job[t] \in JobsAt(RunBy(t)) /\ job[t] \in JobsAt(RunBy(u))
    BY <1>2, JobSpotFacts DEF RunBy
  <2> QED BY <1>1, <2>1
<1>3. ASSUME NEW t \in Threads, NEW w \in Workers, job[t] # None, job[t] = held[w].job
      PROVE  FALSE
  <2>1. /\ RunBy(t) \in JobSpots /\ HeldBy(w) \in JobSpots /\ RunBy(t) # HeldBy(w)
        /\ job[t] \in JobsAt(RunBy(t)) /\ job[t] \in JobsAt(HeldBy(w))
    BY <1>3, JobSpotFacts DEF RunBy, HeldBy
  <2> QED BY <1>1, <2>1
<1>4. ASSUME NEW v \in Workers, NEW w \in Workers, held[w].job # None, held[w].job = held[v].job,
             v # w
      PROVE  FALSE
  <2>1. /\ HeldBy(v) \in JobSpots /\ HeldBy(w) \in JobSpots /\ HeldBy(v) # HeldBy(w)
        /\ held[w].job \in JobsAt(HeldBy(v)) /\ held[w].job \in JobsAt(HeldBy(w))
    BY <1>4, JobSpotFacts DEF HeldBy
  <2> QED BY <1>1, <2>1
<1> QED BY <1>2, <1>3, <1>4

\* The section stored with a job that waits is the one it has reached.
LEMMA StoredIsReached ==
  ASSUME SchedInv, NEW x \in JobSpots, NEW j \in JobsAt(x),
         x[1] \in {"exchange", "local", "buffer"}
  PROVE  j \in Jobs /\ section[j] = reached[j]
<1>1. TypeOK /\ JobsApart /\ SectionsKept /\ j \in Jobs
  BY JobsIn DEF SchedInv
<1>2. x # AtEnd /\ (\A t \in Threads : x # RunBy(t)) /\ (\A w \in Workers : x # HeldBy(w))
  BY DEF AtEnd, RunBy, HeldBy
<1>3. \A y \in JobSpots : x # y => j \notin JobsAt(y)
  BY <1>1 DEF JobsApart
<1>4. j \notin done /\ j \notin lost
  BY <1>1, <1>2, <1>3, JobSpotFacts DEF JobsApart
<1>5. \A t \in Threads : job[t] # j
  BY <1>1, <1>2, <1>3, JobSpotFacts, Constants
<1>6. \A w \in Workers : held[w].job # j
  BY <1>1, <1>2, <1>3, JobSpotFacts, Constants
<1> QED BY <1>1, <1>4, <1>5, <1>6 DEF SectionsKept, Carried

\* Nobody takes, lets go of or runs a job.
LEMMA QuietSections ==
  ASSUME SectionsKept, UNCHANGED <<job, held, at, section, reached, done, lost, inProgress>>,
         \A w \in Workers : pc'[w] = "run" => pc[w] = "run"
  PROVE  SectionsKept'
BY DEF SectionsKept, Carried

\* Thread t takes job j.
LEMMA TakenSections ==
  ASSUME SchedInv, NEW t \in Threads, NEW j \in Jobs, job[t] = None, section[j] = reached[j],
         t \in Workers => held[t] = NotHeld,
         job' = [job EXCEPT ![t] = j], at' = [at EXCEPT ![t] = section[j]],
         \A w \in Workers : pc'[w] = "run" => pc[w] = "run" \/ w = t,
         UNCHANGED <<held, section, reached, done, lost, inProgress>>
  PROVE  SectionsKept'
<1>1. TypeOK /\ SectionsKept /\ MainInHand /\ Workers \subseteq Threads /\ Main \in Threads
  BY Constants DEF SchedInv
<1>2. /\ job'[t] = j /\ at'[t] = reached[j]
      /\ \A u \in Threads : u = t \/ (job'[u] = job[u] /\ at'[u] = at[u])
  BY <1>1 DEF TypeOK
<1>3. ASSUME NEW w \in Workers
      PROVE  /\ pc'[w] = "run" => at'[w] = reached'[job'[w]]
             /\ held'[w] # NotHeld => at'[w] = reached'[held'[w].job]
  BY <1>1, <1>2 DEF SectionsKept
<1>4. inProgress' => at'[Main] = reached'[job'[Main]]
  <2>1. inProgress => Main # t
    BY <1>1 DEF MainInHand
  <2> QED BY <1>1, <1>2, <2>1 DEF SectionsKept
<1>5. \A i \in Jobs : Carried(i) => Carried(i)'
  BY <1>2, Constants DEF Carried
<1> QED BY <1>1, <1>3, <1>4, <1>5 DEF SectionsKept

\* Thread t has run its job to the end.
LEMMA EndSections ==
  ASSUME SchedInv, NEW t \in Threads, job[t] # None, done' = done \cup {job[t]},
         job' = [job EXCEPT ![t] = None],
         \A w \in Workers : pc'[w] = "run" => pc[w] = "run" /\ w # t,
         inProgress' => inProgress /\ t # Main,
         UNCHANGED <<held, at, section, reached, lost>>
  PROVE  SectionsKept'
<1>1. TypeOK /\ SectionsKept /\ Workers \subseteq Threads /\ Main \in Threads
  BY Constants DEF SchedInv
<1>2. \A u \in Threads : u = t \/ job'[u] = job[u]
  BY <1>1 DEF TypeOK
<1>3. ASSUME NEW w \in Workers
      PROVE  /\ pc'[w] = "run" => at'[w] = reached'[job'[w]]
             /\ held'[w] # NotHeld => at'[w] = reached'[held'[w].job]
  BY <1>1, <1>2 DEF SectionsKept
<1>4. inProgress' => at'[Main] = reached'[job'[Main]]
  BY <1>1, <1>2 DEF SectionsKept
<1>5. \A i \in Jobs : Carried(i) => Carried(i)' \/ i \in done'
  BY <1>2 DEF Carried
<1> QED BY <1>1, <1>3, <1>4, <1>5 DEF SectionsKept

LEMMA ResumeSections ==
  ASSUME SchedInv, NEW w \in Workers, PullGlobalDone(w)
  PROVE  SectionsKept'
<1>1. /\ TypeOK /\ SectionsKept /\ MainInHand /\ Workers \subseteq Threads /\ Main \in Threads
      /\ w \in Threads /\ job[w] = None /\ Main \notin Workers
      /\ UNCHANGED <<at, section, reached, done, lost, inProgress>>
  BY WorkerFacts, Constants DEF SchedInv, PullGlobalDone, InHand
<1>2. CASE UNCHANGED <<job, held>>
  <2>1. \A v \in Workers : pc'[v] = "run" => pc[v] = "run"
    BY <1>1, <1>2 DEF PullGlobalDone, Goto, TypeOK
  <2> QED BY <1>1, <1>2, <2>1, QuietSections
<1>3. CASE ~(UNCHANGED <<job, held>>)
  <2>1. /\ held[w] # NotHeld /\ job' = [job EXCEPT ![w] = held[w].job]
        /\ held' = [held EXCEPT ![w] = NotHeld] /\ pc' = [pc EXCEPT ![w] = "run"]
    BY <1>3 DEF PullGlobalDone, Goto
  <2>2. PICK j \in Jobs : j = held[w].job
    BY <1>1, <2>1, HeldParts
  <2>3. /\ job'[w] = j /\ held'[w] = NotHeld /\ at[w] = reached[j]
        /\ \A u \in Threads : u = w \/ (job'[u] = job[u] /\ pc'[u] = pc[u])
        /\ \A u \in Workers : u = w \/ held'[u] = held[u]
    BY <1>1, <2>1, <2>2 DEF TypeOK, SectionsKept
  <2>4. ASSUME NEW v \in Workers
        PROVE  /\ pc'[v] = "run" => at'[v] = reached'[job'[v]]
               /\ held'[v] # NotHeld => at'[v] = reached'[held'[v].job]
    BY <1>1, <2>3 DEF SectionsKept
  <2>5. inProgress' => at'[Main] = reached'[job'[Main]]
    BY <1>1, <2>3 DEF SectionsKept
  <2>6. \A i \in Jobs : Carried(i) => Carried(i)'
    BY <1>1, <2>2, <2>3, Constants DEF Carried
  <2> QED BY <1>1, <2>4, <2>5, <2>6 DEF SectionsKept
<1> QED BY <1>2, <1>3

LEMMA YieldSections ==
  ASSUME SchedInv, NEW w \in Workers, JobYields(w)
  PROVE  SectionsKept'
<1>1. /\ TypeOK /\ SectionsKept /\ MainInHand /\ Workers \subseteq Threads /\ Main \in Threads
      /\ w \in Threads /\ job[w] # None /\ held[w] = NotHeld /\ Main \notin Workers
      /\ UNCHANGED <<section, done, lost, inProgress>>
      /\ job' = [job EXCEPT ![w] = None] /\ at' = [at EXCEPT ![w] = at[w] + 1]
      /\ reached' = [reached EXCEPT ![job[w]] = at[w] + 1]
      /\ held' = [held EXCEPT ![w] = [job |-> job[w], prio |-> prio[w]]]
      /\ pc' = [pc EXCEPT ![w] = "global"]
  BY WorkerFacts, Constants DEF SchedInv, JobYields, InHand, Goto
<1>2. PICK j \in Jobs : j = job[w]
  BY <1>1 DEF TypeOK
<1>3. /\ job'[w] = None /\ held'[w].job = j /\ pc'[w] = "global" /\ at'[w] = reached'[j]
      /\ \A u \in Threads : u = w \/ (job'[u] = job[u] /\ pc'[u] = pc[u] /\ at'[u] = at[u])
      /\ \A u \in Workers : u = w \/ held'[u] = held[u]
      /\ \A i \in Jobs : i = j \/ reached'[i] = reached[i]
  BY <1>1, <1>2 DEF TypeOK
<1>4. /\ \A u \in Threads : u = w \/ job[u] # j
      /\ \A v \in Workers : held[v].job # j
  BY <1>1, <1>2, HandsApart
<1>5. ASSUME NEW v \in Workers
      PROVE  /\ pc'[v] = "run" => at'[v] = reached'[job'[v]]
             /\ held'[v] # NotHeld => at'[v] = reached'[held'[v].job]
  <2>1. CASE v = w
    BY <1>3, <2>1
  <2>2. CASE v # w
    <3>1. pc[v] = "run" => job[v] \in Jobs /\ at[v] = reached[job[v]]
      BY <1>1, WorkerFacts DEF InHand, TypeOK, SectionsKept
    <3>2. held[v] # NotHeld => held[v].job \in Jobs /\ at[v] = reached[held[v].job]
      BY <1>1, HeldParts DEF SectionsKept
    <3> QED BY <1>1, <1>3, <1>4, <2>2, <3>1, <3>2
  <2> QED BY <2>1, <2>2
<1>6. inProgress' => at'[Main] = reached'[job'[Main]]
  <2>1. inProgress => job[Main] \in Jobs
    BY <1>1 DEF MainInHand, TypeOK
  <2> QED BY <1>1, <1>3, <1>4, <2>1 DEF SectionsKept
<1>7. ASSUME NEW i \in Jobs
      PROVE  section'[i] = reached'[i] \/ i \in done' \cup lost' \/ Carried(i)'
  <2>1. CASE i = j
    BY <1>3, <2>1 DEF Carried
  <2>2. CASE i # j
    <3>1. Carried(i) => Carried(i)'
      BY <1>1, <1>2, <1>3, <2>2, Constants DEF Carried
    <3> QED BY <1>1, <1>3, <2>2, <3>1 DEF SectionsKept
  <2> QED BY <2>1, <2>2
<1> QED BY <1>5, <1>6, <1>7 DEF SectionsKept

LEMMA PushBackSections ==
  ASSUME SchedInv, NEW w \in Workers, PushBack(w)
  PROVE  SectionsKept'
<1>1. /\ TypeOK /\ SectionsKept /\ MainInHand /\ Workers \subseteq Threads /\ Main \in Threads
      /\ w \in Threads /\ held[w] # NotHeld /\ Main \notin Workers
      /\ UNCHANGED <<job, at, reached, done, inProgress>> /\ lost \subseteq lost'
      /\ section' = [section EXCEPT ![held[w].job] = at[w]]
      /\ held' = [held EXCEPT ![w] = NotHeld] /\ pc' = [pc EXCEPT ![w] = "take"]
  BY WorkerFacts, Constants DEF SchedInv, PushBack, InHand, Goto
<1>2. PICK j \in Jobs : j = held[w].job
  BY <1>1, HeldParts
<1>3. /\ held'[w] = NotHeld /\ section'[j] = reached[j] /\ pc'[w] = "take"
      /\ \A u \in Workers : u = w \/ (held'[u] = held[u] /\ pc'[u] = pc[u])
      /\ \A i \in Jobs : i = j \/ section'[i] = section[i]
  BY <1>1, <1>2 DEF TypeOK, SectionsKept
<1>4. ASSUME NEW v \in Workers
      PROVE  /\ pc'[v] = "run" => at'[v] = reached'[job'[v]]
             /\ held'[v] # NotHeld => at'[v] = reached'[held'[v].job]
  BY <1>1, <1>3 DEF SectionsKept
<1>5. inProgress' => at'[Main] = reached'[job'[Main]]
  BY <1>1 DEF SectionsKept
<1>6. ASSUME NEW i \in Jobs
      PROVE  section'[i] = reached'[i] \/ i \in done' \cup lost' \/ Carried(i)'
  <2>1. CASE i = j
    BY <1>1, <1>3, <2>1
  <2>2. CASE i # j
    <3>1. Carried(i) => Carried(i)'
      BY <1>1, <1>2, <1>3, <2>2 DEF Carried
    <3> QED BY <1>1, <1>3, <2>2, <3>1 DEF SectionsKept
  <2> QED BY <2>1, <2>2
<1> QED BY <1>4, <1>5, <1>6 DEF SectionsKept

\* Every round of the main thread begins with the stored section, so what it has
\* reached is what it runs to now.
LEMMA MainRunSections ==
  ASSUME SchedInv, MainRun
  PROVE  SectionsKept'
<1>1. /\ TypeOK /\ SectionsKept /\ MainInHand /\ Workers \subseteq Threads /\ Main \in Threads
      /\ job[Main] # None /\ Main \notin Workers /\ UNCHANGED <<held, section, lost>>
      /\ pc' = [pc EXCEPT ![Main] = "fence"]
  BY MainFacts, Constants DEF SchedInv, MainRun, MainInHand, Goto
<1>2. \A w \in Workers : pc'[w] = pc[w] /\ w # Main
  BY <1>1 DEF TypeOK
<1>3. CASE /\ done' = done \cup {job[Main]} /\ job' = [job EXCEPT ![Main] = None]
           /\ inProgress' = FALSE /\ UNCHANGED <<at, reached>>
  BY <1>1, <1>2, <1>3, EndSections
<1>4. CASE /\ at' = [at EXCEPT ![Main] = section[job[Main]] + 1]
           /\ reached' = [reached EXCEPT ![job[Main]] = section[job[Main]] + 1]
           /\ inProgress' = TRUE /\ UNCHANGED <<done, job>>
  <2>1. PICK j \in Jobs : j = job[Main]
    BY <1>1 DEF TypeOK
  <2>2. /\ at'[Main] = reached'[j]
        /\ \A u \in Threads : u = Main \/ at'[u] = at[u]
        /\ \A i \in Jobs : i = j \/ reached'[i] = reached[i]
    BY <1>1, <1>4, <2>1 DEF TypeOK
  <2>3. /\ \A u \in Threads : u = Main \/ job[u] # j
        /\ \A v \in Workers : held[v].job # j
    BY <1>1, <2>1, HandsApart
  <2>4. ASSUME NEW v \in Workers
        PROVE  /\ pc'[v] = "run" => at'[v] = reached'[job'[v]]
               /\ held'[v] # NotHeld => at'[v] = reached'[held'[v].job]
    <3>1. pc[v] = "run" => job[v] \in Jobs /\ at[v] = reached[job[v]]
      BY <1>1, WorkerFacts DEF InHand, TypeOK, SectionsKept
    <3>2. held[v] # NotHeld => held[v].job \in Jobs /\ at[v] = reached[held[v].job]
      BY <1>1, HeldParts DEF SectionsKept
    <3> QED BY <1>1, <1>2, <1>4, <2>2, <2>3, <3>1, <3>2
  <2>5. \A i \in Jobs : Carried(i)' <=> Carried(i)
    BY <1>1, <1>4 DEF Carried
  <2>6. ASSUME NEW i \in Jobs
        PROVE  section'[i] = reached'[i] \/ i \in done' \cup lost' \/ Carried(i)'
    <3>1. CASE i = j
      BY <1>1, <2>1, <2>5, <3>1 DEF Carried
    <3>2. CASE i # j
      BY <1>1, <1>4, <2>2, <2>5, <3>2 DEF SectionsKept
    <3> QED BY <3>1, <3>2
  <2> QED BY <1>4, <2>1, <2>2, <2>4, <2>6 DEF SectionsKept
<1> QED BY <1>3, <1>4 DEF MainRun

LEMMA FenceDoneSections ==
  ASSUME SchedInv, FenceDone
  PROVE  SectionsKept'
<1>1. /\ TypeOK /\ SectionsKept /\ MainInHand /\ Workers \subseteq Threads /\ Main \in Threads
      /\ Main \notin Workers /\ UNCHANGED <<held, at, reached, done>>
      /\ job' = [job EXCEPT ![Main] = None] /\ inProgress' = FALSE
      /\ \/ pc' = [pc EXCEPT ![Main] = "ready"]
         \/ pc' = [pc EXCEPT ![Main] = "exit"]
  BY MainFacts, Constants DEF SchedInv, FenceDone, Goto
<1>2. /\ \A u \in Threads : u = Main \/ job'[u] = job[u]
      /\ \A w \in Workers : pc'[w] = pc[w] /\ w # Main
  BY <1>1 DEF TypeOK
<1>3. ASSUME NEW v \in Workers
      PROVE  /\ pc'[v] = "run" => at'[v] = reached'[job'[v]]
             /\ held'[v] # NotHeld => at'[v] = reached'[held'[v].job]
  BY <1>1, <1>2 DEF SectionsKept
<1>4. ASSUME NEW i \in Jobs
      PROVE  section'[i] = reached'[i] \/ i \in done' \cup lost' \/ Carried(i)'
  <2>1. i # job[Main] => (Carried(i) => Carried(i)')
    BY <1>1, <1>2 DEF Carried
  <2>2. CASE inProgress
    <3>1. /\ section' = [section EXCEPT ![job[Main]] = at[Main]] /\ lost' = lost
          /\ at[Main] = reached[job[Main]]
      BY <1>1, <2>2 DEF FenceDone, SectionsKept
    <3>2. CASE i = job[Main]
      BY <1>1, <3>1, <3>2 DEF TypeOK
    <3>3. CASE i # job[Main]
      BY <1>1, <2>1, <3>1, <3>3 DEF TypeOK, SectionsKept
    <3> QED BY <3>2, <3>3
  <2>3. CASE ~inProgress
    <3>1. section' = section /\ lost' = lost \cup ({job[Main]} \ {None})
      BY <2>3 DEF FenceDone
    <3>2. CASE i = job[Main]
      BY <3>1, <3>2, Constants
    <3>3. CASE i # job[Main]
      BY <1>1, <2>1, <3>1, <3>3 DEF SectionsKept
    <3> QED BY <3>2, <3>3
  <2> QED BY <2>2, <2>3
<1> QED BY <1>1, <1>3, <1>4 DEF SectionsKept

\* Every step keeps track of the sections.
LEMMA SectionsStep ==
  ASSUME SchedInv, [Next]_vars
  PROVE  SectionsKept'
<1>1. TypeOK /\ SectionsKept /\ MainInHand /\ Workers \subseteq Threads /\ Main \in Threads
      /\ Main \notin Workers /\ Io \notin Workers /\ NoRepeats
  BY Constants DEF SchedInv
<1>2. ASSUME NEW w \in Workers, Worker(w)
      PROVE  SectionsKept'
  <2>1. w \in Threads /\ (pc[w] \in {"exchange", "local", "stealJob", "take"}
                          => job[w] = None /\ held[w] = NotHeld)
    BY WorkerFacts DEF InHand
  <2>2. \A v \in Workers : v = w \/ pc'[v] = pc[v]
    BY <1>1, <1>2, WorkerActsAlone DEF OnlyWorker
  <2>3. PICK p \in Priorities : p = prio[w]
    BY WorkerFacts
  <2>4. CASE /\ UNCHANGED <<job, held, at, section, reached, done, lost, inProgress>>
             /\ pc'[w] # "run"
    BY <1>1, <2>2, <2>4, QuietSections
  <2>5. CASE \/ StartThread(w) \/ WakeForRemainder(w) \/ KeepRemainder(w) \/ NoBatchToSteal(w)
             \/ NothingFound(w) \/ WaitForWork(w) \/ Woken(w) \/ QueueJobs(w)
    <3>1. pc'[w] # "run"
      BY <1>1, <2>1, <2>5 DEF TypeOK, Goto, StartThread, WakeForRemainder, KeepRemainder,
         NoBatchToSteal, NothingFound, WaitForWork, Woken, QueueJobs
    <3> QED BY <2>4, <2>5, <3>1 DEF StartThread, WakeForRemainder, KeepRemainder, NoBatchToSteal,
         NothingFound, WaitForWork, Woken, QueueJobs
  <2>6. CASE SelectFromOwnBatch(w) \/ PullGlobal(w) \/ StealBatch(w)
    <3>1. pc'[w] # "run"
      <4>1. CASE SelectFromOwnBatch(w)
        BY <1>1, <2>1, <4>1 DEF TypeOK, Goto, SelectFromOwnBatch, Split
      <4>2. CASE PullGlobal(w)
        BY <1>1, <2>1, <4>2 DEF TypeOK, Goto, PullGlobal, Split
      <4>3. CASE StealBatch(w)
        BY <1>1, <2>1, <4>3 DEF TypeOK, Goto, StealBatch, Split
      <4> QED BY <2>6, <4>1, <4>2, <4>3
    <3> QED BY <2>4, <2>6, <3>1, SplitSteps
  <2>7. ASSUME NEW x \in JobSpots, NEW j \in JobsAt(x), x[1] \in {"exchange", "local", "buffer"},
               pc[w] \in {"exchange", "local", "stealJob", "take"}, Take(w, j, "run"),
               UNCHANGED <<held, section, reached, done, lost, inProgress>>
        PROVE  SectionsKept'
    <3>1. j \in Jobs /\ section[j] = reached[j]
      BY <2>7, StoredIsReached
    <3> QED BY <1>1, <2>1, <2>2, <2>7, <3>1, TakenSections DEF Take
  <2>8. CASE SelectFromExchange(w)
    <3>1. CASE exchange[p] = None
      <4>1. pc'[w] # "run"
        BY <1>1, <2>1, <2>3, <2>8, <3>1 DEF TypeOK, Goto, SelectFromExchange
      <4> QED BY <2>3, <2>4, <2>8, <3>1, <4>1 DEF SelectFromExchange
    <3>2. CASE exchange[p] # None
      <4>1. /\ ExchangeOf(p) \in JobSpots /\ exchange[p] \in JobsAt(ExchangeOf(p))
            /\ ExchangeOf(p)[1] = "exchange"
        BY <3>2, JobSpotFacts DEF ExchangeOf
      <4>2. /\ pc[w] = "exchange" /\ Take(w, exchange[p], "run")
            /\ UNCHANGED <<held, section, reached, done, lost, inProgress>>
        BY <2>3, <2>8, <3>2 DEF SelectFromExchange
      <4> QED BY <2>7, <4>1, <4>2
    <3> QED BY <3>1, <3>2
  <2>9. CASE SelectFromLocal(w)
    <3>1. CASE local[w][p] = <<>>
      <4>1. pc'[w] # "run"
        BY <1>1, <2>1, <2>3, <2>9, <3>1 DEF TypeOK, Goto, SelectFromLocal
      <4> QED BY <2>3, <2>4, <2>9, <3>1, <4>1 DEF SelectFromLocal
    <3>2. CASE local[w][p] # <<>>
      <4> DEFINE j == local[w][p][Len(local[w][p])]
      <4>1. j \in Range(local[w][p])
        BY <1>1, <3>2, OnceFront DEF TypeOK, NoRepeats
      <4>2. /\ pc[w] = "local" /\ Take(w, j, "run")
            /\ UNCHANGED <<held, section, reached, done, lost, inProgress>>
        BY <2>3, <2>9, <3>2 DEF SelectFromLocal
      <4> HIDE DEF j
      <4>3. /\ LocalOf(w, p) \in JobSpots /\ j \in JobsAt(LocalOf(w, p))
            /\ LocalOf(w, p)[1] = "local"
        BY <4>1, JobSpotFacts DEF LocalOf
      <4> QED BY <2>7, <4>2, <4>3
    <3> QED BY <3>1, <3>2
  <2>10. CASE StealJob(w, "run")
    <3>1. pc[w] = "stealJob" /\ UNCHANGED <<held, section, reached, done, lost, inProgress>>
          /\ scan[w] \subseteq Workers
      BY <2>10, WorkerFacts DEF StealJob
    <3>2. CASE UNCHANGED <<pc, local, job, at>>
      BY <2>4, <3>1, <3>2
    <3>3. ASSUME NEW v \in scan[w], local[v][prio[w]] # <<>>, Take(w, Head(local[v][prio[w]]), "run")
          PROVE  SectionsKept'
      <4> DEFINE j == Head(local[v][p])
      <4>1. j \in Range(local[v][p]) /\ v \in Workers
        BY <1>1, <2>3, <3>1, <3>3, OnceTail, SMTT(30) DEF TypeOK
      <4>2. Take(w, j, "run")
        BY <2>3, <3>3
      <4> HIDE DEF j
      <4>3. /\ LocalOf(v, p) \in JobSpots /\ j \in JobsAt(LocalOf(v, p))
            /\ LocalOf(v, p)[1] = "local"
        BY <4>1, JobSpotFacts DEF LocalOf
      <4> QED BY <2>7, <3>1, <4>2, <4>3
    <3> QED BY <2>10, <3>2, <3>3 DEF StealJob
  <2>11. CASE TakeFirst(w)
    <3> DEFINE j == Head(buffer[w])
    <3>1. pc[w] = "take" /\ UNCHANGED <<held, section, reached, done, lost, inProgress>>
          /\ Take(w, j, "run")
      BY <2>11 DEF TakeFirst
    <3>2. j \in Range(buffer[w])
      <4> DEFINE s == buffer[w]
      <4>1. s \in Seq(Jobs) /\ Len(s) = 1
        BY <1>1, <3>1, WorkerFacts DEF TypeOK, InHand
      <4> HIDE DEF s
      <4>2. s # <<>>
        BY <4>1
      <4>3. Head(s) \in Range(s)
        BY <4>1, <4>2, OnceTail
      <4> QED BY <4>3 DEF s
    <3> HIDE DEF j
    <3>3. /\ BufferOf(w) \in JobSpots /\ j \in JobsAt(BufferOf(w)) /\ BufferOf(w)[1] = "buffer"
      BY <3>2, JobSpotFacts DEF BufferOf
    <3> QED BY <2>7, <3>1, <3>3
  <2>12. CASE JobEnds(w)
    <3>1. /\ job[w] # None /\ done' = done \cup {job[w]} /\ job' = [job EXCEPT ![w] = None]
          /\ pc'[w] = "exchange" /\ UNCHANGED <<held, at, section, reached, lost, inProgress>>
      BY <1>1, <2>1, <2>12, WorkerFacts DEF JobEnds, InHand, TypeOK, Goto
    <3> QED BY <1>1, <2>1, <2>2, <3>1, EndSections
  <2> QED BY <1>2, <2>5, <2>6, <2>8, <2>9, <2>10, <2>11, <2>12, ResumeSections, YieldSections,
       PushBackSections DEF Worker
<1>3. ASSUME UNCHANGED <<job, held, at, section, reached, done, lost, inProgress>>,
             \A w \in Workers : pc'[w] = pc[w]
      PROVE  SectionsKept'
  BY <1>1, <1>3, QuietSections
<1>4. ASSUME \/ MainWaits \/ \E fence \in {"frame", "all"} : BeginWait(fence)
             \/ \E t \in {Main, Io} : SubmitPush(t) \/ SubmitPost(t)
      PROVE  SectionsKept'
  <2>1. \A w \in Workers : pc'[w] = pc[w]
    BY <1>4, WorkersLeftAlone
  <2>2. CASE \/ FenceTest \/ MainNothingFound \/ AnnounceExit \/ JoinWorkers
             \/ \E fence \in {"frame", "all"} : BeginWait(fence)
             \/ \E t \in {Main, Io} : SubmitPush(t) \/ SubmitPost(t)
    BY <1>3, <2>1, <2>2 DEF FenceTest, MainNothingFound, AnnounceExit, JoinWorkers, BeginWait,
       SubmitPush, SubmitPost
  <2>3. ASSUME NEW x \in JobSpots, NEW j \in JobsAt(x), x[1] \in {"exchange", "local", "buffer"},
               job[Main] = None, Take(Main, j, "fence"),
               UNCHANGED <<held, section, reached, done, lost, inProgress>>
        PROVE  SectionsKept'
    <3>1. j \in Jobs /\ section[j] = reached[j]
      BY <2>3, StoredIsReached
    <3> QED BY <1>1, <2>1, <2>3, <3>1, TakenSections DEF Take
  <2>4. CASE MainSelectFromExchange
    <3>1. PICK p \in Priorities : p = prio[Main]
      BY <2>4, MainFacts DEF MainInHand, MainSelectFromExchange
    <3>2. /\ job[Main] = None /\ UNCHANGED <<held, section, reached, done, lost, inProgress>>
      BY <2>4, MainFacts DEF MainInHand, MainSelectFromExchange
    <3>3. CASE exchange[p] = None
      BY <1>3, <2>1, <2>4, <3>1, <3>2, <3>3 DEF MainSelectFromExchange
    <3>4. CASE exchange[p] # None
      <4>1. /\ ExchangeOf(p) \in JobSpots /\ exchange[p] \in JobsAt(ExchangeOf(p))
            /\ ExchangeOf(p)[1] = "exchange"
        BY <3>4, JobSpotFacts DEF ExchangeOf
      <4>2. Take(Main, exchange[p], "fence")
        BY <2>4, <3>1, <3>4 DEF MainSelectFromExchange
      <4> QED BY <2>3, <3>2, <4>1, <4>2
    <3> QED BY <3>3, <3>4
  <2>5. CASE StealJob(Main, "fence")
    <3>1. PICK p \in Priorities : p = prio[Main]
      BY <2>5, MainFacts DEF MainInHand, StealJob
    <3>2. /\ job[Main] = None /\ UNCHANGED <<held, section, reached, done, lost, inProgress>>
          /\ scan[Main] \subseteq Workers
      BY <2>5, MainFacts DEF MainInHand, StealJob
    <3>3. CASE UNCHANGED <<pc, local, job, at>>
      BY <1>3, <2>1, <3>2, <3>3
    <3>4. ASSUME NEW v \in scan[Main], local[v][prio[Main]] # <<>>,
                 Take(Main, Head(local[v][prio[Main]]), "fence")
          PROVE  SectionsKept'
      <4> DEFINE j == Head(local[v][p])
      <4>1. j \in Range(local[v][p]) /\ v \in Workers
        BY <1>1, <3>1, <3>2, <3>4, OnceTail DEF TypeOK
      <4>2. Take(Main, j, "fence")
        BY <3>1, <3>4
      <4> HIDE DEF j
      <4>3. /\ LocalOf(v, p) \in JobSpots /\ j \in JobsAt(LocalOf(v, p))
            /\ LocalOf(v, p)[1] = "local"
        BY <4>1, JobSpotFacts DEF LocalOf
      <4> QED BY <2>3, <3>2, <4>2, <4>3
    <3> QED BY <2>5, <3>3, <3>4 DEF StealJob
  <2> QED BY <1>4, <2>2, <2>4, <2>5, MainRunSections, FenceDoneSections DEF MainWaits
<1>5. CASE UNCHANGED vars
  BY <1>3, <1>5 DEF vars
<1> QED BY <1>2, <1>4, <1>5 DEF Next, Over

----------------------------------------------------------------------------
(* What is over at the end, and who looks after a batch until then *)

LEMMA WorkEndsStep ==
  ASSUME SchedInv, [Next]_vars
  PROVE  WorkEnds'
<1>1. TypeOK /\ WorkEnds /\ MainInHand /\ Main \in Threads /\ Io \in Threads /\ Main # Io
      /\ Main \notin Workers
  BY Constants DEF SchedInv
<1>2. submitted' \subseteq Batches
  BY HandsStep DEF TypeOK
<1>3. CASE UNCHANGED vars
  BY <1>1, <1>3 DEF vars, WorkEnds
<1>4. ASSUME NEW w \in Workers, Worker(w)
      PROVE  WorkEnds'
  <2>1. /\ pc'[Main] = pc[Main] /\ UNCHANGED <<submitted, exiting, waitsFor>>
    BY <1>1, <1>4, WorkerActsAlone DEF OnlyWorker
  <2>2. done \subseteq done'
    BY <1>4 DEF Worker, StartThread, SelectFromExchange, SelectFromLocal, SelectFromOwnBatch,
       WakeForRemainder, KeepRemainder, PullGlobal, PullGlobalDone, StealBatch, NoBatchToSteal,
       StealJob, NothingFound, WaitForWork, Woken, QueueJobs, TakeFirst, JobEnds, JobYields,
       PushBack
  <2> QED BY <1>1, <2>1, <2>2 DEF WorkEnds
<1>5. ASSUME NEW t \in {Main, Io}, SubmitPush(t) \/ SubmitPost(t)
      PROVE  WorkEnds'
  <2>1. /\ submitted \subseteq submitted' /\ UNCHANGED <<exiting, waitsFor, done>>
        /\ pc[t] \in {"ready", "post"} /\ pc'[t] \in {"ready", "post"}
        /\ \A u \in Threads : u = t \/ pc'[u] = pc[u]
    BY <1>1, <1>5 DEF SubmitPush, SubmitPost, Goto, TypeOK
  <2>2. pc'[Main] = pc[Main] \/ (pc[Main] \in {"ready", "post"} /\ pc'[Main] \in {"ready", "post"})
    BY <1>1, <2>1
  <2> QED BY <1>1, <1>2, <2>1, <2>2 DEF WorkEnds
<1>6. ASSUME NEW fence \in {"frame", "all"}, BeginWait(fence)
      PROVE  WorkEnds'
  <2>1. /\ pc[Main] = "ready" /\ pc'[Main] = "fence" /\ waitsFor' = fence
        /\ fence = "all" => submitted = Batches
        /\ UNCHANGED <<submitted, exiting, done>>
    BY <1>1, <1>6 DEF BeginWait, Goto, TypeOK
  <2> QED BY <1>1, <2>1 DEF WorkEnds
<1>7. CASE FenceTest \/ MainSelectFromExchange \/ StealJob(Main, "fence") \/ MainNothingFound
           \/ MainRun
  <2>1. /\ pc[Main] \in {"fence", "exchange", "stealJob", "run"}
        /\ pc'[Main] \in {"fence", "exchange", "stealJob", "run"}
    BY <1>1, <1>7 DEF TypeOK, Goto, Take, FenceTest, MainSelectFromExchange, StealJob,
       MainNothingFound, MainRun
  <2>2. UNCHANGED <<submitted, exiting, waitsFor>>
    BY <1>7 DEF FenceTest, MainSelectFromExchange, StealJob, MainNothingFound, MainRun
  <2> QED BY <1>1, <2>1, <2>2 DEF WorkEnds
<1>8. CASE FenceDone
  <2>1. /\ pc[Main] = "fence" /\ WorkLeft = {} /\ UNCHANGED <<submitted, exiting, waitsFor, done>>
        /\ pc'[Main] = IF waitsFor = "frame" THEN "ready" ELSE "exit"
    BY <1>1, <1>8 DEF FenceDone, Goto, TypeOK
  <2>2. CASE waitsFor = "frame"
    BY <1>1, <2>1, <2>2 DEF WorkEnds
  <2>3. CASE waitsFor # "frame"
    <3>1. submitted = Batches
      BY <1>1, <2>3 DEF WorkEnds, TypeOK
    <3>2. \A b \in Batches : JobsOf(b) \subseteq done
      BY <2>1, <2>3, <3>1 DEF WorkLeft, Unfinished
    <3>3. Jobs \subseteq done
      BY <3>2 DEF Jobs
    <3> QED BY <1>1, <2>1, <3>1, <3>3 DEF WorkEnds
  <2> QED BY <2>2, <2>3
<1>9. CASE AnnounceExit \/ JoinWorkers
  <2>1. /\ pc[Main] \in {"exit", "join"} /\ pc'[Main] \in {"join", "over"}
        /\ UNCHANGED <<submitted, waitsFor, done>>
    BY <1>1, <1>9 DEF AnnounceExit, JoinWorkers, Goto, TypeOK
  <2> QED BY <1>1, <2>1 DEF WorkEnds
<1> QED BY <1>3, <1>4, <1>5, <1>6, <1>7, <1>8, <1>9 DEF Next, MainWaits, Over

\* While a batch waits there is work left.
LEMMA NothingQueuedAtTheEnd ==
  ASSUME SchedInv, Jobs \subseteq done
  PROVE  \A p \in Priorities : global[p] = <<>>
<1>1. SUFFICES ASSUME NEW p \in Priorities, global[p] # <<>> PROVE FALSE
  OBVIOUS
<1>2. PICK b \in Batches : b = Head(global[p]) /\ index[b] < Size[b]
  BY <1>1, FoundHasJobs
<1>3. <<b, Size[b]>> \in Jobs /\ Size[b] \in Nat
  BY Constants, JobParts
<1>4. \A j \in done : j[2] <= index[j[1]]
  BY JobSpotFacts DEF SchedInv, JobsApart
<1>5. <<b, Size[b]>>[1] = b /\ <<b, Size[b]>>[2] = Size[b]
  OBVIOUS
<1>6. Size[b] <= index[b]
  BY <1>3, <1>4, <1>5
<1>7. index[b] \in Nat
  BY DEF SchedInv, TypeOK
<1> QED BY <1>2, <1>3, <1>6, <1>7

\* A worker that will look at a global queue does so before it sleeps.
LEMMA WillLookStep ==
  ASSUME SchedInv, NEW w \in Workers, Worker(w), NEW p \in Priorities, WillLook(w, p),
         global'[p] # <<>>, global[p] # <<>>
  PROVE  WillLook(w, p)'
<1>1. /\ TypeOK /\ InHand(w) /\ w \in Threads /\ prio[w] \in Nat /\ p \in Nat /\ p <= Lowest
      /\ Lowest \in Nat /\ LocalSize >= 1 /\ LocalSize \in Nat
  BY WorkerFacts, Constants
<1>2. CASE \/ StartThread(w) \/ SelectFromExchange(w) \/ SelectFromLocal(w)
           \/ WakeForRemainder(w) \/ KeepRemainder(w) \/ StealJob(w, "run")
           \/ NoBatchToSteal(w) \/ TakeFirst(w) \/ PushBack(w) \/ QueueJobs(w)
  <2>1. CASE StartThread(w)
    <3>1. pc'[w] = "exchange" /\ prio' = prio /\ prio[w] = 0
      BY <1>1, <2>1 DEF TypeOK, InHand, StartThread, Goto
    <3> QED BY <1>1, <3>1 DEF WillLook
  <2>2. CASE SelectFromExchange(w)
    <3>1. pc[w] = "exchange" /\ pc'[w] \in {"local", "run"} /\ prio' = prio
      BY <1>1, <2>2 DEF TypeOK, SelectFromExchange, Goto, Take
    <3> QED BY <3>1 DEF WillLook
  <2>3. CASE SelectFromLocal(w)
    <3>1. pc[w] = "local" /\ pc'[w] \in {"own", "run"} /\ prio' = prio
      BY <1>1, <2>3 DEF TypeOK, SelectFromLocal, Goto, Take
    <3> QED BY <3>1 DEF WillLook
  <2>4. CASE WakeForRemainder(w) \/ KeepRemainder(w)
    <3>1. pc'[w] \in {"keep", "push"}
      BY <1>1, <2>4 DEF TypeOK, WakeForRemainder, KeepRemainder, Goto
    <3> QED BY <3>1 DEF WillLook
  <2>5. CASE StealJob(w, "run") \/ NoBatchToSteal(w)
    <3>1. /\ pc[w] \in {"stealBatch", "stealJob"} /\ pc'[w] \in {"stealJob", "run"}
          /\ prio' = prio
      BY <1>1, <2>5 DEF TypeOK, StealJob, NoBatchToSteal, Goto, Take
    <3> QED BY <3>1 DEF WillLook
  <2>6. CASE TakeFirst(w) \/ PushBack(w) \/ QueueJobs(w)
    <3>1. pc'[w] \in {"run", "take", "pushback"}
      BY <1>1, <2>6 DEF TypeOK, TakeFirst, PushBack, QueueJobs, Goto, Take
    <3> QED BY <3>1 DEF WillLook
  <2> QED BY <1>2, <2>1, <2>2, <2>3, <2>4, <2>5, <2>6
<1>3. CASE WaitForWork(w)
  BY <1>1, <1>3 DEF WillLook, WaitForWork, InHand
<1>4. CASE Woken(w)
  <2>1. ~exiting
    BY NothingQueuedAtTheEnd DEF SchedInv, WorkEnds
  <2>2. pc'[w] = "exchange" /\ prio'[w] = 0
    BY <1>1, <1>4, <2>1 DEF TypeOK, Woken, Goto
  <2> QED BY <1>1, <2>2 DEF WillLook
<1>5. CASE JobEnds(w) \/ JobYields(w)
  <2>1. CASE JobEnds(w)
    <3>1. pc'[w] = "exchange" /\ prio'[w] = 0
      BY <1>1, <2>1 DEF TypeOK, JobEnds, Goto
    <3> QED BY <1>1, <3>1 DEF WillLook
  <2>2. CASE JobYields(w)
    <3>1. pc'[w] = "global" /\ held'[w].job = job[w]
      BY <1>1, <2>2 DEF TypeOK, JobYields, Goto
    <3>2. job[w] # None
      BY <1>1, <2>2 DEF JobYields, InHand
    <3>3. held'[w] # NotHeld
      BY <3>1, <3>2, Constants
    <3> QED BY <3>1, <3>3 DEF WillLook
  <2> QED BY <1>5, <2>1, <2>2
<1>6. CASE NothingFound(w)
  <2>1. prio[w] < p
    BY <1>1, <1>6 DEF WillLook, NothingFound
  <2>2. prio[w] < Lowest /\ prio[w] + 1 <= p
    BY <1>1, <2>1
  <2>3. pc'[w] = "exchange" /\ prio'[w] = prio[w] + 1
    BY <1>1, <1>6, <2>2 DEF TypeOK, NothingFound, Goto
  <2> QED BY <2>2, <2>3 DEF WillLook
<1>7. CASE PullGlobalDone(w)
  <2>1. /\ pc[w] = "global" /\ (held[w] # NotHeld \/ buffer[w] # <<>> \/ prio[w] <= p)
        /\ Len(buffer[w]) = LocalSize \/ global[prio[w]] = <<>>
    BY <1>7 DEF WillLook, PullGlobalDone
  <2>2. CASE buffer[w] # <<>>
    <3>1. pc'[w] = "push"
      BY <1>1, <1>7, <2>2 DEF TypeOK, PullGlobalDone, Goto
    <3> QED BY <3>1 DEF WillLook
  <2>3. CASE buffer[w] = <<>> /\ held[w] = NotHeld
    <3>1. global[prio[w]] = <<>>
      BY <1>1, <2>1, <2>3
    <3>2. prio[w] < p
      BY <1>1, <2>1, <2>3, <3>1
    <3>3. pc'[w] = "stealBatch" /\ prio' = prio
      BY <1>1, <1>7, <2>3 DEF TypeOK, PullGlobalDone, Goto
    <3> QED BY <3>2, <3>3 DEF WillLook
  <2>4. CASE buffer[w] = <<>> /\ held[w] # NotHeld
    <3>1. pc'[w] = "run" \/ (pc'[w] = "global" /\ held' = held)
      BY <1>1, <1>7, <2>1, <2>4 DEF TypeOK, PullGlobalDone, Goto
    <3> QED BY <2>4, <3>1 DEF WillLook
  <2> QED BY <2>2, <2>3, <2>4
<1>8. CASE SelectFromOwnBatch(w)
  <2>1. pc'[w] \in {"wakeMore", "push"} \/ (pc'[w] = "global" /\ prio' = prio)
    BY <1>1, <1>8 DEF TypeOK, SelectFromOwnBatch, Split, Goto
  <2> QED BY <1>8, <2>1 DEF WillLook, SelectFromOwnBatch
<1>9. CASE StealBatch(w)
  <2>1. pc'[w] \in {"wakeMore", "push"} \/ (pc'[w] = "stealBatch" /\ prio' = prio)
    BY <1>1, <1>9 DEF TypeOK, StealBatch, Split, Goto
  <2> QED BY <1>9, <2>1 DEF WillLook, StealBatch
<1>10. CASE PullGlobal(w)
  <2>1. SplitStep(w) \/ UNCHANGED buffer
    BY <1>10, SplitSteps
  <2>2. PICK q \in Priorities : q = prio[w]
    BY WorkerFacts
  <2>3. pc[w] = "global" /\ Split(w, Head(global[q]), "global") /\ Len(buffer[w]) < LocalSize
        /\ global[q] # <<>>
    BY <1>10, <2>2 DEF PullGlobal
  <2>4. PICK b \in Batches : b = Head(global[q]) /\ index[b] < Size[b]
    BY <2>3, FoundHasJobs
  <2>5. PICK n \in Nat, s \in Seq(Jobs) : SplitsOff(w, b, n, s, "global")
    BY <1>1, <2>3, <2>4, SplitFacts
  <2>6. /\ pc'[w] \in {"wakeMore", "global"} /\ buffer'[w] = buffer[w] \o s
        /\ n >= 1 /\ Len(s) = n /\ buffer[w] \in Seq(Jobs)
    BY <1>1, <2>5 DEF SplitsOff, Goto, TypeOK
  <2>7. buffer'[w] # <<>>
    <3> DEFINE t == buffer[w]
               u == t \o s
    <3>1. t \in Seq(Jobs) /\ s \in Seq(Jobs) /\ Len(s) >= 1
      BY <2>6
    <3> HIDE DEF t
    <3>2. Len(u) = Len(t) + Len(s) /\ Len(t) \in Nat /\ Len(s) \in Nat
      BY <3>1, ConcatProperties
    <3>3. Len(u) >= 1
      BY <3>1, <3>2
    <3> HIDE DEF u
    <3>4. u # <<>>
      BY <3>3
    <3> QED BY <2>6, <3>4 DEF t, u
  <2> QED BY <2>6, <2>7 DEF WillLook
<1> QED BY <1>2, <1>3, <1>4, <1>5, <1>6, <1>7, <1>8, <1>9, <1>10 DEF Worker

\* Nobody else's step changes where a worker will look.
LEMMA OthersLook ==
  ASSUME NEW v \in Workers, NEW p \in Priorities, WillLook(v, p), pc'[v] = pc[v],
         prio'[v] = prio[v], held'[v] = held[v], buffer'[v] = buffer[v]
  PROVE  WillLook(v, p)'
BY DEF WillLook

\* A worker's step queues no batch, and takes a token only to wake up with it.
LEMMA WorkerTokens ==
  ASSUME SchedInv, NEW w \in Workers, Worker(w)
  PROVE  /\ \A p \in Priorities : global'[p] # <<>> => global[p] # <<>>
         /\ workPresent > 0 => workPresent' > 0 \/ pc'[w] = "woken"
<1>1. TypeOK /\ w \in Threads /\ prio[w] \in Priorities /\ workPresent \in Nat
  BY WorkerFacts DEF TypeOK
<1>2. CASE WaitForWork(w)
  BY <1>1, <1>2 DEF TypeOK, WaitForWork, Goto
<1>3. CASE WakeForRemainder(w) \/ QueueJobs(w)
  <2>1. UNCHANGED global
    BY <1>3 DEF WakeForRemainder, QueueJobs, queues
  <2>2. workPresent' \in Nat /\ workPresent' >= workPresent
    <3>1. active \in 0 .. Cardinality(Workers) /\ Cardinality(Workers) \in Nat
      BY <1>1, Constants, FS_CardinalityType DEF TypeOK
    <3>2. ASSUME NEW n \in Nat, WakeAdditional(n)
          PROVE  workPresent' \in Nat /\ workPresent' >= workPresent
      BY <1>1, <3>1, <3>2 DEF WakeAdditional, Minimum
    <3>3. CASE WakeForRemainder(w)
      <4>1. split[w] # None
        BY <3>3, WorkerFacts DEF WakeForRemainder, InHand
      <4>2. split[w] \in Batches /\ index[split[w]] < Size[split[w]]
        BY <4>1, FoundHasJobs
      <4>3. Size[split[w]] - index[split[w]] \in Nat
        BY <1>1, <4>2, Constants, SMTT(30) DEF TypeOK
      <4> QED BY <3>2, <3>3, <4>3 DEF WakeForRemainder
    <3>4. CASE QueueJobs(w)
      <4> DEFINE s == buffer[w]
      <4>1. s \in Seq(Jobs) /\ Len(s) >= 1
        BY <3>4, RoomForMore DEF QueueJobs
      <4>2. WakeAdditional(Len(s) - 1)
        BY <3>4 DEF QueueJobs
      <4> HIDE DEF s
      <4>3. Len(s) - 1 \in Nat
        BY <4>1
      <4> QED BY <3>2, <4>2, <4>3
    <3> QED BY <1>3, <3>3, <3>4
  <2> QED BY <1>1, <2>1, <2>2
<1>4. CASE PullGlobal(w)
  <2>1. PICK q \in Priorities : q = prio[w]
    BY <1>1
  <2>2. global[q] # <<>> /\ global' = [global EXCEPT ![q] = Tail(@)] /\ UNCHANGED workPresent
    BY <1>4, <2>1 DEF PullGlobal, counts
  <2> QED BY <1>1, <2>1, <2>2 DEF TypeOK
<1>5. CASE \/ StartThread(w) \/ SelectFromExchange(w) \/ SelectFromLocal(w)
           \/ SelectFromOwnBatch(w) \/ KeepRemainder(w) \/ PullGlobalDone(w) \/ StealBatch(w)
           \/ NoBatchToSteal(w) \/ StealJob(w, "run") \/ NothingFound(w) \/ Woken(w)
           \/ TakeFirst(w) \/ JobEnds(w) \/ JobYields(w) \/ PushBack(w)
  <2>1. UNCHANGED <<global, workPresent>>
    BY <1>5 DEF StartThread, SelectFromExchange, SelectFromLocal, SelectFromOwnBatch,
       KeepRemainder, PullGlobalDone, StealBatch, NoBatchToSteal, StealJob, NothingFound, Woken,
       TakeFirst, JobEnds, JobYields, PushBack, queues, counts
  <2> QED BY <2>1
<1> QED BY <1>2, <1>3, <1>4, <1>5 DEF Worker

\* While a batch is in a global queue, a post or a token is on its way or somebody
\* will look.
LEMMA AwaitedStep ==
  ASSUME SchedInv, [Next]_vars
  PROVE  BatchesAwaited'
<1>1. /\ TypeOK /\ BatchesAwaited /\ Main \in Threads /\ Io \in Threads /\ Main # Io
      /\ Main \notin Workers /\ Io \notin Workers /\ workPresent \in Nat
      /\ Cardinality(Workers) \in Nat
  BY Constants, FS_CardinalityType DEF SchedInv, TypeOK
<1>2. SUFFICES ASSUME NEW p \in Priorities, global'[p] # <<>>
               PROVE  \/ workPresent' > 0 \/ pc'[Main] = "post" \/ pc'[Io] = "post"
                      \/ \E w \in Workers : WillLook(w, p)'
  BY DEF BatchesAwaited
<1>3. global[p] # <<>> => \/ workPresent > 0 \/ pc[Main] = "post" \/ pc[Io] = "post"
                          \/ \E w \in Workers : WillLook(w, p)
  BY <1>1 DEF BatchesAwaited
<1>4. ASSUME NEW w \in Workers, Worker(w)
      PROVE  \/ workPresent' > 0 \/ pc'[Main] = "post" \/ pc'[Io] = "post"
             \/ \E v \in Workers : WillLook(v, p)'
  <2>1. global[p] # <<>> /\ (workPresent > 0 => workPresent' > 0 \/ pc'[w] = "woken")
    BY <1>2, <1>4, WorkerTokens
  <2>2. OnlyWorker(w) /\ Workers \subseteq Threads
    BY <1>4, WorkerActsAlone, Constants
  <2>3. pc'[Main] = pc[Main] /\ pc'[Io] = pc[Io]
    BY <1>1, <2>2 DEF OnlyWorker
  <2>4. ASSUME NEW v \in Workers, WillLook(v, p)
        PROVE  WillLook(v, p)'
    <3>1. CASE v = w
      BY <1>2, <1>4, <2>1, <2>4, <3>1, WillLookStep
    <3>2. CASE v # w
      <4>1. /\ pc'[v] = pc[v] /\ prio'[v] = prio[v] /\ held'[v] = held[v]
            /\ buffer'[v] = buffer[v]
        BY <2>2, <3>2 DEF OnlyWorker
      <4> QED BY <2>4, <4>1, OthersLook
    <3> QED BY <3>1, <3>2
  <2>5. pc'[w] = "woken" => WillLook(w, p)'
    BY DEF WillLook
  <2> QED BY <1>3, <2>1, <2>3, <2>4, <2>5
<1>5. ASSUME \A v \in Workers : /\ pc'[v] = pc[v] /\ prio'[v] = prio[v] /\ held'[v] = held[v]
                                /\ buffer'[v] = buffer[v]
      PROVE  (\E v \in Workers : WillLook(v, p)) => \E v \in Workers : WillLook(v, p)'
  BY <1>5, OthersLook
<1>6. ASSUME \/ MainWaits \/ \E fence \in {"frame", "all"} : BeginWait(fence)
             \/ \E t \in {Main, Io} : SubmitPush(t) \/ SubmitPost(t)
      PROVE  \/ workPresent' > 0 \/ pc'[Main] = "post" \/ pc'[Io] = "post"
             \/ \E v \in Workers : WillLook(v, p)'
  <2>1. \A v \in Workers : /\ pc'[v] = pc[v] /\ prio'[v] = prio[v] /\ held'[v] = held[v]
                           /\ buffer'[v] = buffer[v]
    BY <1>6, WorkersLeftAlone
  <2>2. (\E v \in Workers : WillLook(v, p)) => \E v \in Workers : WillLook(v, p)'
    BY <1>5, <2>1
  <2>3. ASSUME NEW t \in {Main, Io}, SubmitPush(t)
        PROVE  pc'[Main] = "post" \/ pc'[Io] = "post"
    BY <1>1, <2>3 DEF TypeOK, SubmitPush, Goto
  <2>4. ASSUME NEW t \in {Main, Io}, SubmitPost(t)
        PROVE  workPresent' > 0
    BY <1>1, <2>4 DEF SubmitPost
  <2>5. CASE MainWaits \/ \E fence \in {"frame", "all"} : BeginWait(fence)
    <3>1. /\ pc[Main] # "post" /\ pc'[Io] = pc[Io] /\ UNCHANGED global
          /\ workPresent' = workPresent \/ workPresent' = workPresent + Cardinality(Workers)
      <4>1. CASE FenceTest \/ MainSelectFromExchange \/ StealJob(Main, "fence")
        BY <1>1, <4>1 DEF TypeOK, FenceTest, MainSelectFromExchange, StealJob, Goto, Take,
           queues, counts
      <4>2. CASE MainNothingFound \/ MainRun \/ FenceDone
        BY <1>1, <4>2 DEF TypeOK, MainNothingFound, MainRun, FenceDone, Goto, queues, counts
      <4>3. CASE \/ AnnounceExit \/ JoinWorkers
                 \/ \E fence \in {"frame", "all"} : BeginWait(fence)
        BY <1>1, <4>3 DEF TypeOK, AnnounceExit, JoinWorkers, BeginWait, Goto, queues, counts
      <4> QED BY <2>5, <4>1, <4>2, <4>3 DEF MainWaits
    <3>2. workPresent > 0 => workPresent' > 0
      BY <1>1, <3>1
    <3> QED BY <1>2, <1>3, <2>2, <3>1, <3>2
  <2> QED BY <1>6, <2>3, <2>4, <2>5
<1>7. CASE UNCHANGED vars
  <2>1. /\ UNCHANGED <<global, workPresent, pc>>
        /\ \A v \in Workers : /\ pc'[v] = pc[v] /\ prio'[v] = prio[v] /\ held'[v] = held[v]
                              /\ buffer'[v] = buffer[v]
    BY <1>7 DEF vars, queues, counts, search, buffers
  <2>2. (\E v \in Workers : WillLook(v, p)) => \E v \in Workers : WillLook(v, p)'
    BY <1>5, <2>1
  <2> QED BY <1>2, <1>3, <2>1, <2>2
<1> QED BY <1>4, <1>6, <1>7 DEF Next, Over

----------------------------------------------------------------------------
(* The inductive invariant *)

LEMMA InitHolds ==
  ASSUME Init
  PROVE  SchedInv
<1>1. /\ Workers \subseteq Threads /\ Main \in Threads /\ Io \in Threads /\ Main # Io
      /\ Main \notin Workers /\ Io \notin Workers
      /\ LocalSize \in Nat /\ LocalSize >= 1 /\ MainLowest \in Nat /\ Lowest \in Nat
      /\ Priorities = 0 .. Lowest /\ 0 \in Priorities /\ None \notin Jobs /\ NotHeld.job = None
      /\ Cardinality(Workers) \in Nat /\ Cardinality({}) = 0
  BY Constants, FS_CardinalityType, FS_EmptySet
<1>2. \A w \in Workers : /\ pc[w] = "start" /\ buffer[w] = <<>> /\ split[w] = None
                         /\ held[w] = NotHeld /\ prio[w] = 0 /\ job[w] = None
                         /\ \A p \in Priorities : local[w][p] = <<>> /\ rest[w][p] = None
  BY <1>1 DEF Init
<1>3. /\ pc[Main] = "ready" /\ pc[Io] = "ready" /\ job[Main] = None /\ job[Io] = None
      /\ prio[Main] = 0
  BY <1>1 DEF Init
<1>4. TypeOK
  <2>1. \A j \in Jobs : Sections[j[1]] \in Nat /\ 0 < Sections[j[1]]
    BY JobParts, Constants
  <2>2. \A b \in Batches : Size[b] \in Nat /\ 0 <= Size[b]
    BY Constants
  <2>3. pc \in [Threads -> Points] /\ waitsFor \in {"frame", "all"}
    BY DEF Init, Points
  <2>4. /\ global \in [Priorities -> Seq(Batches)]
        /\ local \in [Workers -> [Priorities -> Seq(Jobs)]]
        /\ buffer \in [Workers -> Seq(Jobs)] /\ \A w \in Workers : Len(buffer[w]) <= LocalSize
    BY <1>1 DEF Init
  <2>5. /\ submitted \subseteq Batches /\ done \subseteq Jobs /\ lost \subseteq Jobs \ done
        /\ exchange \in [Priorities -> Jobs \cup {None}]
        /\ index \in [Batches -> Nat] /\ \A b \in Batches : index[b] <= Size[b]
        /\ rest \in [Workers -> [Priorities -> Batches \cup {None}]]
    BY <2>2 DEF Init
  <2>6. /\ workPresent \in Nat /\ active \in 0 .. Cardinality(Workers) /\ exiting \in BOOLEAN
        /\ section \in [Jobs -> Nat] /\ \A j \in Jobs : section[j] < Sections[j[1]]
        /\ reached \in [Jobs -> Nat] /\ inProgress \in BOOLEAN
    <3>1. workPresent = 0 /\ active = 0 /\ exiting = FALSE /\ inProgress = FALSE
      BY DEF Init
    <3>2. section = [j \in Jobs |-> 0] /\ reached = [j \in Jobs |-> 0]
      BY DEF Init
    <3>3. \A j \in Jobs : section[j] < Sections[j[1]]
      BY <2>1, <3>2
    <3>4. section \in [Jobs -> Nat] /\ reached \in [Jobs -> Nat]
      BY <3>2
    <3>5. /\ workPresent \in Nat /\ active \in 0 .. Cardinality(Workers)
          /\ exiting \in BOOLEAN /\ inProgress \in BOOLEAN
      <4>1. PICK n \in Nat : n = Cardinality(Workers)
        BY <1>1
      <4>2. workPresent \in Nat /\ active \in 0 .. n
        BY <3>1
      <4>3. exiting \in BOOLEAN /\ inProgress \in BOOLEAN
        BY <3>1, Zenon
      <4> QED BY <4>1, <4>2, <4>3
    <3> QED BY <3>3, <3>4, <3>5
  <2>7. /\ prio \in [Threads -> 0 .. Lowest + 1] /\ job \in [Threads -> Jobs \cup {None}]
        /\ at \in [Threads -> Nat] /\ scan \in [Threads -> SUBSET Workers]
        /\ split \in [Workers -> Batches \cup {None}]
        /\ held \in [Workers -> [job : Jobs, prio : Priorities] \cup {NotHeld}]
    BY <1>1 DEF Init
  <2> QED BY <2>3, <2>4, <2>5, <2>6, <2>7 DEF TypeOK
<1>5. MainInHand /\ ExchangeFree
  BY <1>1, <1>3 DEF MainInHand, ExchangeFree, Init
<1>6. \A w \in Workers : InHand(w) /\ Searched(w)
  BY <1>1, <1>2 DEF InHand, Searched, OwnEmpty
<1>7. /\ \A x \in BatchSpots : BatchesAt(x) = {}
      /\ \A x \in JobSpots : JobsAt(x) = {}
  <2>1. \A p \in Priorities : Range(global[p]) = {} /\ exchange[p] = None
    BY ShortSeqs DEF Init
  <2>2. \A w \in Workers : Range(buffer[w]) = {} /\ \A p \in Priorities : Range(local[w][p]) = {}
    BY <1>2, ShortSeqs
  <2>3. \A t \in Threads : job[t] = None
    BY DEF Init
  <2>4. done = {}
    BY DEF Init
  <2>5. /\ \A p \in Priorities : BatchesAt(GlobalOf(p)) = {} /\ JobsAt(ExchangeOf(p)) = {}
        /\ \A w \in Workers, p \in Priorities :
             BatchesAt(RestOf(w, p)) = {} /\ JobsAt(LocalOf(w, p)) = {}
        /\ \A w \in Workers :
             BatchesAt(SplitOf(w)) = {} /\ JobsAt(HeldBy(w)) = {} /\ JobsAt(BufferOf(w)) = {}
        /\ \A t \in Threads : JobsAt(RunBy(t)) = {}
        /\ JobsAt(AtEnd) = {}
    <3>1. /\ \A p \in Priorities : BatchesAt(GlobalOf(p)) = {}
          /\ \A w \in Workers, p \in Priorities : BatchesAt(RestOf(w, p)) = {}
          /\ \A w \in Workers : BatchesAt(SplitOf(w)) = {}
      BY <1>2, <2>1, BatchSpotFacts
    <3>2. /\ \A p \in Priorities : JobsAt(ExchangeOf(p)) = {}
          /\ \A t \in Threads : JobsAt(RunBy(t)) = {}
          /\ JobsAt(AtEnd) = {}
      BY <2>1, <2>3, <2>4, JobSpotFacts
    <3>3. /\ \A w \in Workers, p \in Priorities : JobsAt(LocalOf(w, p)) = {}
          /\ \A w \in Workers : JobsAt(BufferOf(w)) = {}
      <4>1. \A w \in Workers : JobsAt(BufferOf(w)) = {}
        BY <2>2, JobSpotFacts
      <4>2. ASSUME NEW w \in Workers, NEW p \in Priorities
            PROVE  JobsAt(LocalOf(w, p)) = {}
        <5>1. JobsAt(LocalOf(w, p)) = Range(local[w][p])
          BY JobSpotFacts
        <5> QED BY <2>2, <5>1
      <4> QED BY <4>1, <4>2
    <3>4. \A w \in Workers : JobsAt(HeldBy(w)) = {}
      <4>1. \A w \in Workers : held[w].job = None
        BY <1>1, <1>2
      <4> QED BY <4>1, JobSpotFacts
    <3> QED BY <3>1, <3>2, <3>3, <3>4
  <2>6. \A x \in BatchSpots : BatchesAt(x) = {}
    BY <2>5 DEF BatchSpots
  <2>7. \A x \in JobSpots : JobsAt(x) = {}
    BY <2>5 DEF JobSpots
  <2> QED BY <2>6, <2>7
<1>8. NoRepeats
  BY <1>2, ShortSeqs DEF NoRepeats, Init
<1>9. BatchesApart
  BY <1>7 DEF BatchesApart, Init
<1>10. JobsApart
  <2>1. \A j \in Jobs : ~(j[2] <= index[j[1]])
    <3>1. \A b \in Batches : index[b] = 0
      BY DEF Init
    <3> QED BY <3>1, JobParts
  <2>2. lost = {}
    BY DEF Init
  <2> QED BY <1>7, <2>1, <2>2 DEF JobsApart
<1>11. SectionsKept
  BY <1>2 DEF SectionsKept, Init
<1>12. active = Cardinality(Awake) /\ WorkEnds
  <2>1. Awake = {}
    BY <1>2 DEF Awake
  <2> QED BY <1>1, <1>3, <2>1 DEF Init, WorkEnds
<1>13. BatchesAwaited
  BY DEF BatchesAwaited, Init
<1> QED BY <1>4, <1>5, <1>6, <1>8, <1>9, <1>10, <1>11, <1>12, <1>13 DEF SchedInv

\* The scheduler's inductive invariant: types, what every thread has in hand, what
\* has been found empty, batches and jobs in one place each, the sections reached,
\* the count of active workers, what is over at the shutdown, and that a queued
\* batch is waited for.
THEOREM SchedInvariant == Spec => []SchedInv
<1>1. Init => SchedInv
  BY InitHolds
<1>2. SchedInv /\ [Next]_vars => SchedInv'
  BY HandsStep, BatchesStep, JobsStep, SectionsStep, WorkEndsStep, AwaitedStep DEF SchedInv
<1> QED BY <1>1, <1>2, PTL DEF Spec

----------------------------------------------------------------------------
(* The safety properties *)

\* The spot a place of a job belongs to.
SpotOf(q) ==
  CASE q[1] = "runs" -> RunBy(q[2])
    [] q[1] = "held" -> HeldBy(q[2])
    [] q[1] = "buffer" -> BufferOf(q[2])
    [] q[1] = "local" -> LocalOf(q[2], q[3])
    [] q[1] = "exchange" -> ExchangeOf(q[2])
    [] q[1] = "done" -> AtEnd

LEMMA PlaceForms ==
  ASSUME NEW j \in Jobs, NEW q
  PROVE  q \in Places(j) <=>
           \/ \E t \in Threads : q = <<"runs", t>> /\ job[t] = j
           \/ \E w \in Workers : q = <<"held", w>> /\ held[w].job = j
           \/ \E w \in Workers : \E i \in DOMAIN buffer[w] :
                q = <<"buffer", w, i>> /\ buffer[w][i] = j
           \/ \E w \in Workers, p \in Priorities : \E i \in DOMAIN local[w][p] :
                q = <<"local", w, p, i>> /\ local[w][p][i] = j
           \/ \E p \in Priorities : q = <<"exchange", p>> /\ exchange[p] = j
           \/ q = <<"done">> /\ j \in done
<1>1. q \in Places(j) <=> \/ q \in RunPlaces(j) \/ q \in HeldPlaces(j)
                           \/ q \in BufferPlaces(j) \/ q \in LocalPlaces(j)
                           \/ q \in ExchangePlaces(j) \/ q \in EndPlaces(j)
  BY DEF Places
<1>2. q \in RunPlaces(j) <=> \E t \in Threads : q = <<"runs", t>> /\ job[t] = j
  BY DEF RunPlaces
<1>3. q \in HeldPlaces(j) <=> \E w \in Workers : q = <<"held", w>> /\ held[w].job = j
  BY DEF HeldPlaces
<1>4. q \in BufferPlaces(j) <=> \E w \in Workers : \E i \in DOMAIN buffer[w] :
                                 q = <<"buffer", w, i>> /\ buffer[w][i] = j
  <2>1. q \in BufferPlaces(j) <=> \E w \in Workers : q \in PlacesInBuffer(j, w)
    BY DEF BufferPlaces
  <2>2. \A w : q \in PlacesInBuffer(j, w) <=> \E i \in DOMAIN buffer[w] :
                                              q = <<"buffer", w, i>> /\ buffer[w][i] = j
    BY DEF PlacesInBuffer
  <2> QED BY <2>1, <2>2
<1>5. q \in LocalPlaces(j) <=>
        \E w \in Workers, p \in Priorities : \E i \in DOMAIN local[w][p] :
          q = <<"local", w, p, i>> /\ local[w][p][i] = j
  <2>1. q \in LocalPlaces(j) <=>
          \E w \in Workers, p \in Priorities : q \in PlacesInQueue(j, w, p)
    BY DEF LocalPlaces
  <2>2. \A w, p : q \in PlacesInQueue(j, w, p) <=>
                     \E i \in DOMAIN local[w][p] : q = <<"local", w, p, i>> /\ local[w][p][i] = j
    BY DEF PlacesInQueue
  <2> QED BY <2>1, <2>2
<1>6. q \in ExchangePlaces(j) <=> \E p \in Priorities : q = <<"exchange", p>> /\ exchange[p] = j
  BY DEF ExchangePlaces
<1>7. q \in EndPlaces(j) <=> q = <<"done">> /\ j \in done
  BY DEF EndPlaces
<1> QED BY <1>1, <1>2, <1>3, <1>4, <1>5, <1>6, <1>7

LEMMA RangeHas ==
  ASSUME NEW s, NEW i \in DOMAIN s
  PROVE  s[i] \in Range(s)
BY DEF Range

LEMMA PlacesInSpots ==
  ASSUME NEW j \in Jobs, NEW q \in Places(j)
  PROVE  SpotOf(q) \in JobSpots /\ j \in JobsAt(SpotOf(q))
<1>1. j # None
  BY Constants
<1>2. ASSUME NEW t \in Threads, q = <<"runs", t>>, job[t] = j
      PROVE  SpotOf(q) \in JobSpots /\ j \in JobsAt(SpotOf(q))
  <2>1. SpotOf(q) = RunBy(t)
    BY <1>2 DEF SpotOf
  <2> QED BY <1>1, <1>2, <2>1, JobSpotFacts
<1>3. ASSUME NEW w \in Workers, q = <<"held", w>>, held[w].job = j
      PROVE  SpotOf(q) \in JobSpots /\ j \in JobsAt(SpotOf(q))
  <2>1. SpotOf(q) = HeldBy(w)
    BY <1>3 DEF SpotOf
  <2> QED BY <1>1, <1>3, <2>1, JobSpotFacts
<1>4. ASSUME NEW w \in Workers, NEW i \in DOMAIN buffer[w], q = <<"buffer", w, i>>,
             buffer[w][i] = j
      PROVE  SpotOf(q) \in JobSpots /\ j \in JobsAt(SpotOf(q))
  <2>1. SpotOf(q) = BufferOf(w)
    BY <1>4 DEF SpotOf
  <2> QED BY <1>4, <2>1, RangeHas, JobSpotFacts
<1>5. ASSUME NEW w \in Workers, NEW p \in Priorities, NEW i \in DOMAIN local[w][p],
             q = <<"local", w, p, i>>, local[w][p][i] = j
      PROVE  SpotOf(q) \in JobSpots /\ j \in JobsAt(SpotOf(q))
  <2>1. SpotOf(q) = LocalOf(w, p)
    BY <1>5 DEF SpotOf
  <2> QED BY <1>5, <2>1, RangeHas, JobSpotFacts
<1>6. ASSUME NEW p \in Priorities, q = <<"exchange", p>>, exchange[p] = j
      PROVE  SpotOf(q) \in JobSpots /\ j \in JobsAt(SpotOf(q))
  <2>1. SpotOf(q) = ExchangeOf(p)
    BY <1>6 DEF SpotOf
  <2> QED BY <1>1, <1>6, <2>1, JobSpotFacts
<1>7. ASSUME q = <<"done">>, j \in done
      PROVE  SpotOf(q) \in JobSpots /\ j \in JobsAt(SpotOf(q))
  <2>1. SpotOf(q) = AtEnd
    BY <1>7 DEF SpotOf
  <2> QED BY <1>7, <2>1, JobSpotFacts
<1> QED BY <1>2, <1>3, <1>4, <1>5, <1>6, <1>7, PlaceForms

LEMMA SpotsHavePlaces ==
  ASSUME NEW j \in Jobs, NEW x \in JobSpots, j \in JobsAt(x)
  PROVE  Places(j) # {}
<1>1. ASSUME NEW t \in Threads, j \in JobsAt(RunBy(t))
      PROVE  Places(j) # {}
  <2>1. job[t] = j
    BY <1>1, JobSpotFacts
  <2>2. <<"runs", t>> \in Places(j)
    BY <2>1, PlaceForms
  <2> QED BY <2>2
<1>2. ASSUME NEW w \in Workers, j \in JobsAt(HeldBy(w))
      PROVE  Places(j) # {}
  <2>1. held[w].job = j
    BY <1>2, JobSpotFacts
  <2>2. <<"held", w>> \in Places(j)
    BY <2>1, PlaceForms
  <2> QED BY <2>2
<1>3. ASSUME NEW w \in Workers, j \in JobsAt(BufferOf(w))
      PROVE  Places(j) # {}
  <2>1. j \in Range(buffer[w])
    BY <1>3, JobSpotFacts
  <2>2. PICK i \in DOMAIN buffer[w] : buffer[w][i] = j
    BY <2>1 DEF Range
  <2>3. <<"buffer", w, i>> \in Places(j)
    BY <2>2, PlaceForms
  <2> QED BY <2>3
<1>4. ASSUME NEW w \in Workers, NEW p \in Priorities, j \in JobsAt(LocalOf(w, p))
      PROVE  Places(j) # {}
  <2>1. j \in Range(local[w][p])
    BY <1>4, JobSpotFacts
  <2>2. PICK i \in DOMAIN local[w][p] : local[w][p][i] = j
    BY <2>1 DEF Range
  <2>3. <<"local", w, p, i>> \in Places(j)
    BY <2>2, PlaceForms
  <2> QED BY <2>3
<1>5. ASSUME NEW p \in Priorities, j \in JobsAt(ExchangeOf(p))
      PROVE  Places(j) # {}
  <2>1. exchange[p] = j
    BY <1>5, JobSpotFacts
  <2>2. <<"exchange", p>> \in Places(j)
    BY <2>1, PlaceForms
  <2> QED BY <2>2
<1>6. ASSUME j \in JobsAt(AtEnd)
      PROVE  Places(j) # {}
  <2>1. <<"done">> \in Places(j)
    BY <1>6, JobSpotFacts, PlaceForms
  <2> QED BY <2>1
<1> QED BY <1>1, <1>2, <1>3, <1>4, <1>5, <1>6 DEF JobSpots

LEMMA OnePlace ==
  ASSUME SchedInv, NEW j \in Jobs, NEW q \in Places(j), NEW r \in Places(j)
  PROVE  q = r
<1>1. SpotOf(q) = SpotOf(r)
  <2>1. /\ SpotOf(q) \in JobSpots /\ j \in JobsAt(SpotOf(q))
        /\ SpotOf(r) \in JobSpots /\ j \in JobsAt(SpotOf(r))
    BY PlacesInSpots
  <2> QED BY <2>1 DEF SchedInv, JobsApart
<1>2. NoRepeats
  BY DEF SchedInv
<1>3. /\ \A t : SpotOf(<<"runs", t>>) = <<"run", t, 0>>
      /\ \A w : SpotOf(<<"held", w>>) = <<"held", w, 0>>
      /\ \A w, i : SpotOf(<<"buffer", w, i>>) = <<"buffer", w, 0>>
      /\ \A w, p, i : SpotOf(<<"local", w, p, i>>) = <<"local", w, p>>
      /\ \A p : SpotOf(<<"exchange", p>>) = <<"exchange", Main, p>>
      /\ SpotOf(<<"done">>) = <<"done", Main, 0>>
  BY DEF SpotOf, RunBy, HeldBy, BufferOf, LocalOf, ExchangeOf, AtEnd
<1>4. /\ \A w \in Workers : \A i, k \in DOMAIN buffer[w] :
           buffer[w][i] = j /\ buffer[w][k] = j => i = k
      /\ \A w \in Workers, p \in Priorities : \A i, k \in DOMAIN local[w][p] :
           local[w][p][i] = j /\ local[w][p][k] = j => i = k
  BY <1>2 DEF NoRepeats, Once
<1>5. \/ \E t \in Threads : q = <<"runs", t>>
      \/ \E w \in Workers : q = <<"held", w>>
      \/ \E w \in Workers : \E i \in DOMAIN buffer[w] : q = <<"buffer", w, i>> /\ buffer[w][i] = j
      \/ \E w \in Workers, p \in Priorities : \E i \in DOMAIN local[w][p] :
           q = <<"local", w, p, i>> /\ local[w][p][i] = j
      \/ \E p \in Priorities : q = <<"exchange", p>>
      \/ q = <<"done">>
  BY PlaceForms
<1>6. \/ \E t \in Threads : r = <<"runs", t>>
      \/ \E w \in Workers : r = <<"held", w>>
      \/ \E w \in Workers : \E i \in DOMAIN buffer[w] : r = <<"buffer", w, i>> /\ buffer[w][i] = j
      \/ \E w \in Workers, p \in Priorities : \E i \in DOMAIN local[w][p] :
           r = <<"local", w, p, i>> /\ local[w][p][i] = j
      \/ \E p \in Priorities : r = <<"exchange", p>>
      \/ r = <<"done">>
  BY PlaceForms
<1>7. CASE SpotOf(q)[1] \in {"run", "held", "exchange", "done"}
  BY <1>1, <1>3, <1>5, <1>6, <1>7
<1>8. CASE SpotOf(q)[1] = "buffer"
  <2>1. PICK w \in Workers : \E i \in DOMAIN buffer[w] :
               q = <<"buffer", w, i>> /\ buffer[w][i] = j
    BY <1>3, <1>5, <1>8
  <2>2. PICK v \in Workers : \E i \in DOMAIN buffer[v] :
               r = <<"buffer", v, i>> /\ buffer[v][i] = j
    BY <1>1, <1>3, <1>6, <1>8
  <2>3. v = w
    BY <1>1, <1>3, <2>1, <2>2
  <2> QED BY <1>4, <2>1, <2>2, <2>3
<1>9. CASE SpotOf(q)[1] = "local"
  <2>1. PICK w \in Workers, p \in Priorities : \E i \in DOMAIN local[w][p] :
               q = <<"local", w, p, i>> /\ local[w][p][i] = j
    BY <1>3, <1>5, <1>9
  <2>2. PICK v \in Workers, o \in Priorities : \E i \in DOMAIN local[v][o] :
               r = <<"local", v, o, i>> /\ local[v][o][i] = j
    BY <1>1, <1>3, <1>6, <1>9
  <2>3. v = w /\ o = p
    BY <1>1, <1>3, <2>1, <2>2
  <2> QED BY <1>4, <2>1, <2>2, <2>3
<1>10. SpotOf(q)[1] \in {"run", "held", "exchange", "done", "buffer", "local"}
  BY <1>3, <1>5
<1> QED BY <1>7, <1>8, <1>9, <1>10

\* No job is ever in two places: two threads never run, hold, buffer or queue the
\* same job, and none that has ended is anywhere else (stealing, pushbackJob, the
\* exchange of jobFenceWait).
THEOREM JobsStayInOnePlace == Spec => []OnePlaceAtMost
<1>1. SchedInv => OnePlaceAtMost
  <2>1. SUFFICES ASSUME SchedInv, NEW j \in Jobs
                 PROVE  Cardinality(Places(j)) <= 1
    BY DEF OnePlaceAtMost, SchedInv
  <2>2. CASE Places(j) = {}
    BY <2>2, FS_EmptySet
  <2>3. ASSUME NEW q \in Places(j)
        PROVE  Cardinality(Places(j)) <= 1
    <3>1. Places(j) = {q}
      BY <2>1, <2>3, OnePlace
    <3> QED BY <3>1, FS_Singleton
  <2> QED BY <2>2, <2>3
<1> QED BY <1>1, SchedInvariant, PTL

\* A job split off its batch is somewhere until it has ended, unless jobFenceWait
\* forgot it or pushbackJob found no room; and one let go of is nowhere.
THEOREM JobsAreKept == Spec => []NoJobLost
<1>1. SchedInv => NoJobLost
  <2>1. SUFFICES ASSUME SchedInv, NEW j \in Jobs, j[2] <= index[j[1]]
                 PROVE  Places(j) = {} <=> j \in lost
    BY DEF NoJobLost
  <2>2. /\ j \in lost \/ \E x \in JobSpots : j \in JobsAt(x)
        /\ \A x \in JobSpots : j \in JobsAt(x) => j \notin lost
    BY <2>1 DEF SchedInv, JobsApart
  <2>3. j \in lost => Places(j) = {}
    BY <2>2, PlacesInSpots
  <2> QED BY <2>2, <2>3, SpotsHavePlaces
<1> QED BY <1>1, SchedInvariant, PTL

\* The error reports "workingOnBatch already set", "Logic error in job counting" and
\* "Exchange still contains job" of jobs.c are never reached.
THEOREM NoLogicErrors == Spec => []LogicErrorsUnreachable
<1>1. SchedInv => LogicErrorsUnreachable
  <2>1. SUFFICES ASSUME SchedInv PROVE LogicErrorsUnreachable
    OBVIOUS
  <2>2. ASSUME NEW w \in Workers, pc[w] = "keep"
        PROVE  rest[w][prio[w]] = None
    BY <2>1, <2>2, WorkerFacts DEF Searched
  <2>3. ASSUME NEW w \in Workers, pc[w] = "push"
        PROVE  Len(local[w][prio[w]]) < LocalSize - (Len(buffer[w]) - 1)
    <3> DEFINE s == buffer[w]
               t == Tail(s)
    <3>1. Len(local[w][prio[w]]) < LocalSize - Len(t) /\ Len(t) = Len(s) - 1
      BY <2>1, <2>3, RoomForMore
    <3> HIDE DEF t, s
    <3> QED BY <3>1 DEF s
  <2>4. (pc[Main] = "fence" /\ inProgress) => exchange[prio[Main]] = None
    BY <2>1 DEF SchedInv, MainInHand, ExchangeFree
  <2> QED BY <2>2, <2>3, <2>4 DEF LogicErrorsUnreachable
<1> QED BY <1>1, SchedInvariant, PTL

\* When all workers sleep with no token and no post on its way (waitForWork,
\* submitToMainQueue, wakeAdditionalWorkers), no batch and no queued job is left.
THEOREM WakeupsAreKept == Spec => []NoLostWakeup
<1>1. SchedInv => NoLostWakeup
  <2>1. SUFFICES ASSUME SchedInv, \A w \in Workers : pc[w] = "wait", workPresent = 0,
                        pc[Main] # "post", pc[Io] # "post"
                 PROVE  /\ \A p \in Priorities : global[p] = <<>>
                        /\ \A w \in Workers, p \in Priorities :
                             local[w][p] = <<>> /\ rest[w][p] = None
    BY DEF NoLostWakeup
  <2>2. \A w \in Workers, p \in Priorities : ~WillLook(w, p)
    BY <2>1 DEF WillLook
  <2>3. \A p \in Priorities : global[p] = <<>>
    BY <2>1, <2>2 DEF SchedInv, BatchesAwaited
  <2>4. \A w \in Workers, p \in Priorities : local[w][p] = <<>> /\ rest[w][p] = None
    BY <2>1, WorkerFacts DEF Searched, OwnEmpty
  <2> QED BY <2>3, <2>4
<1> QED BY <1>1, SchedInvariant, PTL

\* A worker goes on with a job in the section it yielded to, wherever the job was
\* in between (prepareJob).
THEOREM JobsResume == Spec => []ResumesWhereYielded
<1>1. SchedInv => ResumesWhereYielded
  BY DEF SchedInv, SectionsKept, ResumesWhereYielded
<1> QED BY <1>1, SchedInvariant, PTL

\* A worker never runs a job while its own queues or its own batches have a more
\* urgent one (selectJob, tryGetHigherPriorityJob).
THEOREM UrgentJobsFirst == Spec => []OwnUrgentFirst
<1>1. SchedInv => OwnUrgentFirst
  BY DEF SchedInv, Searched, OwnEmpty, OwnUrgentFirst
<1> QED BY <1>1, SchedInvariant, PTL
=============================================================================
