----------------------- MODULE JobBatchFences_proofs -----------------------
(***************************************************************************)
(* Proofs about the fences of the pool of job batches: the fence of the    *)
(* main thread counts what it waits for, whatever the callers do; and      *)
(* allWorkDoneFence does, as long as no batch has more dependents than     *)
(* there is room for and no push finds the queue full.                     *)
(***************************************************************************)
EXTENDS JobBatchPool_proofs

----------------------------------------------------------------------------
(* The inductive invariant behind WorkCounted, FenceInv, and behind the rest of  *)
(* FenceCounts, WorkInv                                                           *)

\* The frames of calls that have taken down the fence of slot s and not given the
\* slot back, that run a job of it, that have to take a batch off allWorkDoneFence;
\* and those that name no handle.
ReclaimFrames(s) == {f \in CallFrames : f.at = "reclaim" /\ f.id.slot = s}
RunningFrames(s) == {f \in CallFrames : f.at \in RunPoints /\ f.id.slot = s}
DonePoints == {"complete", "workDone"}
DoneFrames == {f \in CallFrames : f.at \in DonePoints}
StrayFrames ==
  {f \in CallFrames : f.id \notin Handles \/ \E i \in DOMAIN f.todo : f.todo[i] \notin Handles}

\* The slots whose fence counts: neither in the free list nor on the way to it.
Fenced == {s \in Slots : slots[s].fence /\ ~Listed(s) /\ CallsIn(ReclaimFrames(s)) = {}}
FenceInv == batches \in Seq(BatchStates) /\ workLeft = Leaked + Cardinality(Fenced)

\* Whatever is passed on as a handle is one.
HandlesPassed ==
  /\ CallsIn(StrayFrames) = {}
  /\ \A s \in Slots : \A i \in DOMAIN slots[s].dependents : slots[s].dependents[i] \in Handles
  /\ \A s \in Slots : slots[s].generation <= MaxBatches

\* A slot has a batch of the history for every generation it has had.
GenerationsIssued ==
  /\ Len(batches) <= MaxBatches
  /\ \A i \in DOMAIN batches : batches[i].id # NoHandle => batches[i].id \in issued
  /\ \A s \in Slots : \A n \in Nat : 
       n < slots[s].generation => [slot |-> s, gen |-> n] \in issued
  /\ \A s \in Slots : ~Gone(s) => [slot |-> s, gen |-> slots[s].generation] \in issued

\* The jobs of a batch that are not done are those not started and those that run;
\* what is queued or runs is of the batch that has the slot.
Running(s) == CallsIn(RunningFrames(s))
JobsCounted ==
  /\ \A s \in Slots :
       /\ slots[s].toStart >= 0 /\ IsFiniteSet(Running(s))
       /\ slots[s].remainingJobs = slots[s].toStart + Cardinality(Running(s))
  /\ \A h \in Ids : Busy(h) => Slot(h).generation = h.gen
  /\ \A h \in queue : Slot(h).toStart > 0
  /\ \A i \in DOMAIN batches : LET h == batches[i].id IN
       h # NoHandle => /\ batches[i].finished => ~Live(h)
                       /\ batches[i].pushes = 0 /\ ~batches[i].finished => Slot(h).toStart > 0

\* allWorkDoneFence counts the batches that are not done, those that are but have
\* not said so, and what failed submissions have left on it.
Active == {i \in DOMAIN batches : ~batches[i].finished}
WorkPending ==
  /\ IsFiniteSet(CallsIn(DoneFrames))
  /\ allWork = WorkLeaked + Cardinality(Active) + Cardinality(CallsIn(DoneFrames))

\* A batch that is pushed finds room in the queue.
PushesFit == \A t \in Threads : At(t, "push") => Cardinality(queue) < QueueSize

WaitsNatural == \A s \in Slots : slots[s].dependencyCount >= 0

WorkInv == HandlesPassed /\ GenerationsIssued /\ WaitsNatural /\ JobsCounted /\ WorkPending

----------------------------------------------------------------------------
(* What a step does to the calls that count in this *)

\* Frames that count alike, frames that do not count, and sets that tell no more apart.
CountedPoints == {"dependents", "resolve", "reclaim"} \cup RunPoints \cup DonePoints
CountAlike(f, g) ==
  /\ f.id = g.id
  /\ \/ f.at \in {"dependents", "resolve"} /\ g.at \in {"dependents", "resolve"}
     \/ f.at \in RunPoints /\ g.at \in RunPoints
     \/ f.at \in DonePoints /\ g.at \in DonePoints
Uncounted(f) == f.at \notin CountedPoints
AlikeCounts(f, g) == CountAlike(f, g) \/ (Uncounted(f) /\ Uncounted(g))
Counting(F) ==
  /\ \A f, g \in CallFrames : CountAlike(f, g) => (f \in F <=> g \in F)
  /\ \A f \in CallFrames : Uncounted(f) => f \notin F

LEMMA SetsCount ==
  /\ \A s : Counting(ReclaimFrames(s)) /\ Counting(RunningFrames(s)) /\ Counting(ReleaseFrames(s))
  /\ \A h : Counting(RunFrames(h))
  /\ Counting(DoneFrames)
<1>1. \A s : Counting(ReclaimFrames(s))
  BY DEF Counting, ReclaimFrames, CountAlike, Uncounted, CountedPoints, RunPoints, DonePoints
<1>2. \A s : Counting(RunningFrames(s))
  BY DEF Counting, RunningFrames, CountAlike, Uncounted, CountedPoints, RunPoints, DonePoints
<1>3. \A s : Counting(ReleaseFrames(s))
  BY DEF Counting, ReleaseFrames, ReleasePoints, CountAlike, Uncounted, CountedPoints, RunPoints,
     DonePoints
<1>4. \A h : Counting(RunFrames(h))
  BY DEF Counting, RunFrames, CountAlike, Uncounted, CountedPoints, RunPoints, DonePoints
<1>5. Counting(DoneFrames)
  BY DEF Counting, DoneFrames, CountAlike, Uncounted, CountedPoints, RunPoints, DonePoints
<1> QED BY <1>1, <1>2, <1>3, <1>4, <1>5

\* A step keeps the calls that count; it passes on nothing but handles.
CountsKeptBy == \A F : Counting(F) => CallsIn(F)' = CallsIn(F)
NoStray == CallsIn(StrayFrames) = {}

\* Thread t replaces the calls above its k outermost ones by fs: the calls at place
\* k + 1, before and after, count alike, and those above it do not count.
MovesAlike(t, k, fs) ==
  /\ k \in Nat /\ k <= Len(stack[t]) /\ Restack(t, k, fs)
  /\ \A d \in k + 2 .. Len(stack[t]) : Uncounted(CallAt(t, d))
  /\ \A i \in 2 .. Len(fs) : Uncounted(fs[Len(fs) + 1 - i])
  /\ k + 1 <= Len(stack[t]) /\ Len(fs) >= 1 => AlikeCounts(CallAt(t, k + 1), fs[Len(fs)])
  /\ k + 1 <= Len(stack[t]) /\ Len(fs) = 0 => Uncounted(CallAt(t, k + 1))
  /\ k = Len(stack[t]) /\ Len(fs) >= 1 => Uncounted(fs[Len(fs)])

LEMMA CountsMoved ==
  ASSUME PoolTyped, NEW t \in Threads, NEW k, NEW fs \in Seq(CallFrames), MovesAlike(t, k, fs)
  PROVE  CountsKeptBy
<1> USE DEF MovesAlike
<1> SUFFICES ASSUME NEW F, Counting(F)
             PROVE  CallsIn(F)' = CallsIn(F)
  BY DEF CountsKeptBy
<1> DEFINE L == Len(stack[t])
           n == Len(fs)
<1>1. L \in Nat /\ n \in Nat /\ DOMAIN fs = 1 .. n /\ \A i \in 1 .. n : fs[i] \in CallFrames
  BY LenProperties DEF PoolTyped
<1>2. \A d \in 1 .. L : CallAt(t, d) \in CallFrames
  BY CallTyped
<1>3. \A c : c \in CallsIn(F)' <=>
               \/ c \in CallsIn(F) /\ (c[1] # t \/ c[2] <= k)
               \/ \E i \in 1 .. n : c = <<t, k + i>> /\ fs[n + 1 - i] \in F
  BY CallsInStep
<1>4. \A c : c \in CallsIn(F) <=> \E u \in Threads : \E d \in 1 .. Len(stack[u]) :
                                    c = <<u, d>> /\ CallAt(u, d) \in F
  BY CallsInForm
<1>5. \A d \in k + 2 .. L : CallAt(t, d) \notin F
  BY <1>1, <1>2 DEF Counting
<1>6. \A i \in 2 .. n : fs[n + 1 - i] \notin F
  <2>1. \A i \in 2 .. n : n + 1 - i \in 1 .. n
    BY <1>1
  <2> QED BY <1>1, <2>1 DEF Counting
<1>7. k + 1 <= L /\ n >= 1 => (CallAt(t, k + 1) \in F <=> fs[n] \in F)
  <2>1. k + 1 <= L /\ n >= 1 => CallAt(t, k + 1) \in CallFrames /\ fs[n] \in CallFrames
    BY <1>1, <1>2
  <2> QED BY <2>1 DEF Counting, AlikeCounts
<1>8. /\ k + 1 <= L /\ n = 0 => CallAt(t, k + 1) \notin F
      /\ k = L /\ n >= 1 => fs[n] \notin F
  <2>1. /\ k + 1 <= L /\ n = 0 => CallAt(t, k + 1) \in CallFrames
        /\ k = L /\ n >= 1 => fs[n] \in CallFrames
    BY <1>1, <1>2
  <2> QED BY <2>1 DEF Counting
<1> HIDE DEF L, n
<1>9. ASSUME NEW c \in CallsIn(F)'
      PROVE  c \in CallsIn(F)
  <2>1. CASE c \in CallsIn(F)
    BY <2>1
  <2>2. ASSUME NEW i \in 1 .. n, c = <<t, k + i>>, fs[n + 1 - i] \in F
        PROVE  c \in CallsIn(F)
    <3>1. i = 1 /\ n + 1 - i = n /\ n >= 1
      BY <1>1, <1>6, <2>2
    <3>2. k + 1 <= L /\ k + 1 \in 1 .. L
      BY <1>1, <1>8, <2>2, <3>1 DEF L
    <3> QED BY <1>4, <1>7, <2>2, <3>1, <3>2 DEF L
  <2> QED BY <1>3, <2>1, <2>2
<1>10. ASSUME NEW c \in CallsIn(F)
       PROVE  c \in CallsIn(F)'
  <2>0. PICK u \in Threads : \E d \in 1 .. Len(stack[u]) : c = <<u, d>> /\ CallAt(u, d) \in F
    BY <1>4
  <2>1. PICK d \in 1 .. Len(stack[u]) : c = <<u, d>> /\ CallAt(u, d) \in F
    BY <2>0
  <2>2. CASE u # t \/ d <= k
    BY <1>3, <2>1, <2>2
  <2>3. CASE u = t /\ ~(d <= k)
    <3>1. d \in 1 .. L
      BY <2>3 DEF L
    <3>2. d = k + 1 /\ k + 1 <= L
      BY <1>1, <1>5, <2>1, <2>3, <3>1
    <3>3. n >= 1 /\ 1 \in 1 .. n /\ n + 1 - 1 = n
      BY <1>1, <1>8, <2>1, <2>3, <3>2
    <3> QED BY <1>3, <1>7, <2>1, <2>3, <3>2, <3>3
  <2> QED BY <2>2, <2>3
<1> QED BY <1>9, <1>10

LEMMA NoneStrays ==
  ASSUME PoolTyped, NoStray, NEW t \in Threads, NEW k \in Nat, k <= Len(stack[t]),
         NEW fs \in Seq(CallFrames), Restack(t, k, fs),
         \A i \in 1 .. Len(fs) : fs[i] \notin StrayFrames
  PROVE  NoStray'
<1> DEFINE n == Len(fs)
<1>1. n \in Nat /\ \A i \in 1 .. n : n + 1 - i \in 1 .. n
  BY LenProperties
<1>2. \A c : c \in CallsIn(StrayFrames)' <=>
               \/ c \in CallsIn(StrayFrames) /\ (c[1] # t \/ c[2] <= k)
               \/ \E i \in 1 .. n : c = <<t, k + i>> /\ fs[n + 1 - i] \in StrayFrames
  BY CallsInStep
<1> QED BY <1>1, <1>2 DEF NoStray

\* The innermost call ends, or goes on with the frame f, perhaps below others; or it
\* begins a call f.
LEMMA CountsOfOwn ==
  ASSUME PoolInv, NEW t \in Threads, NEW f \in CallFrames, NEW g \in CallFrames,
         NEW p \in CallFrames
  PROVE  LET L == Len(stack[t])
             h == Head(stack[t])
         IN /\ Restack(t, L, <<f>>) =>
                 /\ Uncounted(f) => CountsKeptBy
                 /\ NoStray /\ f \notin StrayFrames => NoStray'
            /\ stack[t] # <<>> /\ Restack(t, L - 1, <<>>) =>
                 /\ Uncounted(h) => CountsKeptBy
                 /\ NoStray => NoStray'
            /\ stack[t] # <<>> /\ Restack(t, L - 1, <<f>>) =>
                 /\ AlikeCounts(h, f) => CountsKeptBy
                 /\ NoStray /\ f \notin StrayFrames => NoStray'
            /\ stack[t] # <<>> /\ Restack(t, L - 1, <<g, f>>) =>
                 /\ AlikeCounts(h, f) /\ Uncounted(g) => CountsKeptBy
                 /\ NoStray /\ f \notin StrayFrames /\ g \notin StrayFrames => NoStray'
            /\ stack[t] # <<>> /\ Restack(t, L - 1, <<p, g, f>>) =>
                 /\ AlikeCounts(h, f) /\ Uncounted(g) /\ Uncounted(p) => CountsKeptBy
                 /\ NoStray /\ f \notin StrayFrames /\ g \notin StrayFrames
                      /\ p \notin StrayFrames => NoStray'
<1> DEFINE L == Len(stack[t])
           h == Head(stack[t])
<1>1. PoolTyped /\ L \in Nat
  BY LenProperties DEF PoolInv, PoolTyped
<1>2. stack[t] # <<>> => h = CallAt(t, L) /\ L >= 1 /\ L - 1 \in Nat
  BY Innermost
<1> DEFINE none == <<>>
           one == <<f>>
           two == <<g, f>>
           all == <<p, g, f>>
<1>3. /\ none \in Seq(CallFrames) /\ Len(none) = 0
      /\ one \in Seq(CallFrames) /\ Len(one) = 1 /\ one[1] = f
      /\ two \in Seq(CallFrames) /\ Len(two) = 2 /\ two[1] = g /\ two[2] = f
      /\ all \in Seq(CallFrames) /\ Len(all) = 3 /\ all[1] = p /\ all[2] = g /\ all[3] = f
  OBVIOUS
<1> HIDE DEF L, h, none, one, two, all
<1>4. ASSUME Restack(t, L, one)
      PROVE  /\ Uncounted(f) => CountsKeptBy
             /\ NoStray /\ f \notin StrayFrames => NoStray'
  <2>1. L \in Nat /\ L <= Len(stack[t]) /\ L = Len(stack[t]) /\ ~(L + 1 <= Len(stack[t]))
    BY <1>1 DEF L
  <2>2. \A d \in L + 2 .. Len(stack[t]) : FALSE
    BY <1>1 DEF L
  <2>3. \A i \in 1 .. Len(one) : i = 1
    BY <1>3
  <2>4. \A i \in 2 .. Len(one) : FALSE
    BY <1>3
  <2>5. Uncounted(f) => CountsKeptBy
    <3>1. Uncounted(f) => MovesAlike(t, L, one)
      BY <1>1, <1>3, <1>4, <2>1, <2>2, <2>4 DEF MovesAlike
    <3> QED BY <1>1, <1>3, <3>1, CountsMoved
  <2>6. NoStray /\ f \notin StrayFrames => NoStray'
    BY <1>1, <1>3, <1>4, <2>1, <2>3, NoneStrays
  <2> QED BY <2>5, <2>6
<1>5. ASSUME stack[t] # <<>>
      PROVE  /\ L - 1 \in Nat /\ L - 1 <= Len(stack[t]) /\ L - 1 + 1 <= Len(stack[t])
             /\ CallAt(t, L - 1 + 1) = h /\ L - 1 # Len(stack[t])
             /\ \A d \in L - 1 + 2 .. Len(stack[t]) : FALSE
  <2>1. L \in Nat /\ L >= 1 /\ h = CallAt(t, L) /\ L = Len(stack[t]) /\ L - 1 + 1 = L
    BY <1>1, <1>2, <1>5 DEF L
  <2> QED BY <2>1
<1>6. ASSUME stack[t] # <<>>, Restack(t, L - 1, none)
      PROVE  /\ Uncounted(h) => CountsKeptBy
             /\ NoStray => NoStray'
  <2>1. /\ \A i \in 1 .. Len(none) : FALSE
        /\ \A i \in 2 .. Len(none) : FALSE
    BY <1>3
  <2>2. Uncounted(h) => CountsKeptBy
    <3>1. Uncounted(h) => MovesAlike(t, L - 1, none)
      BY <1>1, <1>3, <1>5, <1>6, <2>1 DEF MovesAlike
    <3> QED BY <1>1, <1>3, <3>1, CountsMoved
  <2>3. NoStray => NoStray'
    BY <1>1, <1>3, <1>5, <1>6, <2>1, NoneStrays
  <2> QED BY <2>2, <2>3
<1>7. ASSUME stack[t] # <<>>, Restack(t, L - 1, one)
      PROVE  /\ AlikeCounts(h, f) => CountsKeptBy
             /\ NoStray /\ f \notin StrayFrames => NoStray'
  <2>1. /\ \A i \in 1 .. Len(one) : i = 1
        /\ \A i \in 2 .. Len(one) : FALSE
    BY <1>3
  <2>2. AlikeCounts(h, f) => CountsKeptBy
    <3>1. AlikeCounts(h, f) => MovesAlike(t, L - 1, one)
      BY <1>1, <1>3, <1>5, <1>7, <2>1 DEF MovesAlike
    <3> QED BY <1>1, <1>3, <3>1, CountsMoved
  <2>3. NoStray /\ f \notin StrayFrames => NoStray'
    BY <1>1, <1>3, <1>5, <1>7, <2>1, NoneStrays
  <2> QED BY <2>2, <2>3
<1>8. ASSUME stack[t] # <<>>, Restack(t, L - 1, two)
      PROVE  /\ AlikeCounts(h, f) /\ Uncounted(g) => CountsKeptBy
             /\ NoStray /\ f \notin StrayFrames /\ g \notin StrayFrames => NoStray'
  <2>1. /\ \A i \in 1 .. Len(two) : i = 1 \/ i = 2
        /\ \A i \in 2 .. Len(two) : Len(two) + 1 - i = 1
    BY <1>3
  <2>2. AlikeCounts(h, f) /\ Uncounted(g) => CountsKeptBy
    <3>1. AlikeCounts(h, f) /\ Uncounted(g) => MovesAlike(t, L - 1, two)
      BY <1>1, <1>3, <1>5, <1>8, <2>1 DEF MovesAlike
    <3> QED BY <1>1, <1>3, <3>1, CountsMoved
  <2>3. NoStray /\ f \notin StrayFrames /\ g \notin StrayFrames => NoStray'
    BY <1>1, <1>3, <1>5, <1>8, <2>1, NoneStrays
  <2> QED BY <2>2, <2>3
<1>9. ASSUME stack[t] # <<>>, Restack(t, L - 1, all)
      PROVE  /\ AlikeCounts(h, f) /\ Uncounted(g) /\ Uncounted(p) => CountsKeptBy
             /\ NoStray /\ f \notin StrayFrames /\ g \notin StrayFrames
                  /\ p \notin StrayFrames => NoStray'
  <2>1. /\ \A i \in 1 .. Len(all) : i = 1 \/ i = 2 \/ i = 3
        /\ \A i \in 2 .. Len(all) : Len(all) + 1 - i = 1 \/ Len(all) + 1 - i = 2
    BY <1>3
  <2>2. AlikeCounts(h, f) /\ Uncounted(g) /\ Uncounted(p) => CountsKeptBy
    <3>1. AlikeCounts(h, f) /\ Uncounted(g) /\ Uncounted(p) => MovesAlike(t, L - 1, all)
      BY <1>1, <1>3, <1>5, <1>9, <2>1 DEF MovesAlike
    <3> QED BY <1>1, <1>3, <3>1, CountsMoved
  <2>3. NoStray /\ f \notin StrayFrames /\ g \notin StrayFrames /\ p \notin StrayFrames => NoStray'
    BY <1>1, <1>3, <1>5, <1>9, <2>1, NoneStrays
  <2> QED BY <2>2, <2>3
<1> QED BY <1>4, <1>6, <1>7, <1>8, <1>9 DEF L, h, none, one, two, all

\* A pin ends, with or without an unpin, and its caller goes on with the frame f.
LEMMA CountsOfCaller ==
  ASSUME PoolInv, NEW t \in Threads, stack[t] # <<>>, Head(stack[t]).at \in PinPoints,
         NEW f \in CallFrames, NEW g \in CallFrames
  PROVE  LET k == Len(stack[t]) - 2
             c == stack[t][2]
         IN /\ Restack(t, k, <<f>>) =>
                 /\ AlikeCounts(c, f) => CountsKeptBy
                 /\ NoStray /\ f \notin StrayFrames => NoStray'
            /\ Restack(t, k, <<g, f>>) =>
                 /\ AlikeCounts(c, f) /\ Uncounted(g) => CountsKeptBy
                 /\ NoStray /\ f \notin StrayFrames /\ g \notin StrayFrames => NoStray'
<1> DEFINE L == Len(stack[t])
           h == Head(stack[t])
           c == stack[t][2]
           k == L - 2
<1>1. PoolTyped /\ L \in Nat /\ h = CallAt(t, L)
  BY Innermost DEF PoolInv
<1>2. L >= 2 /\ c = CallAt(t, L - 1)
  BY PinCaller
<1>3. k \in Nat /\ k <= Len(stack[t]) /\ k + 1 <= Len(stack[t]) /\ k # Len(stack[t])
      /\ k + 1 = L - 1 /\ \A d \in k + 2 .. Len(stack[t]) : d = L
  BY <1>1, <1>2
<1>4. \A d \in k + 2 .. Len(stack[t]) : Uncounted(CallAt(t, d))
  <2>1. Uncounted(h)
    BY DEF Uncounted, CountedPoints, PinPoints, RunPoints, DonePoints
  <2> QED BY <1>1, <1>3, <2>1
<1> DEFINE one == <<f>>
           two == <<g, f>>
<1>5. /\ one \in Seq(CallFrames) /\ Len(one) = 1 /\ one[1] = f
      /\ two \in Seq(CallFrames) /\ Len(two) = 2 /\ two[1] = g /\ two[2] = f
  OBVIOUS
<1>6. c = CallAt(t, k + 1)
  BY <1>2, <1>3
<1> HIDE DEF L, h, c, k, one, two
<1>7. ASSUME Restack(t, k, one)
      PROVE  /\ AlikeCounts(c, f) => CountsKeptBy
             /\ NoStray /\ f \notin StrayFrames => NoStray'
  <2>1. /\ \A i \in 1 .. Len(one) : i = 1
        /\ \A i \in 2 .. Len(one) : FALSE
    BY <1>5
  <2>2. AlikeCounts(c, f) => CountsKeptBy
    <3>1. AlikeCounts(c, f) => MovesAlike(t, k, one)
      BY <1>1, <1>3, <1>4, <1>5, <1>6, <1>7, <2>1 DEF MovesAlike
    <3> QED BY <1>1, <1>5, <3>1, CountsMoved
  <2>3. NoStray /\ f \notin StrayFrames => NoStray'
    BY <1>1, <1>3, <1>5, <1>7, <2>1, NoneStrays
  <2> QED BY <2>2, <2>3
<1>8. ASSUME Restack(t, k, two)
      PROVE  /\ AlikeCounts(c, f) /\ Uncounted(g) => CountsKeptBy
             /\ NoStray /\ f \notin StrayFrames /\ g \notin StrayFrames => NoStray'
  <2>1. /\ \A i \in 1 .. Len(two) : i = 1 \/ i = 2
        /\ \A i \in 2 .. Len(two) : Len(two) + 1 - i = 1
    BY <1>5
  <2>2. AlikeCounts(c, f) /\ Uncounted(g) => CountsKeptBy
    <3>1. AlikeCounts(c, f) /\ Uncounted(g) => MovesAlike(t, k, two)
      BY <1>1, <1>3, <1>4, <1>5, <1>6, <1>8, <2>1 DEF MovesAlike
    <3> QED BY <1>1, <1>5, <3>1, CountsMoved
  <2>3. NoStray /\ f \notin StrayFrames /\ g \notin StrayFrames => NoStray'
    BY <1>1, <1>3, <1>5, <1>8, <2>1, NoneStrays
  <2> QED BY <2>2, <2>3
<1> QED BY <1>7, <1>8 DEF L, h, c, k, one, two

Known(q) == \A i \in DOMAIN q : q[i] \in Handles

LEMMA FramePasses ==
  ASSUME NEW at \in Points, NEW id \in Ids, NEW todo \in Seq(Ids)
  PROVE  /\ Frame(at, id, todo) \in CallFrames
         /\ Frame(at, id, todo).at = at /\ Frame(at, id, todo).id = id
         /\ Frame(at, id, todo).todo = todo
         /\ id \in Handles /\ Known(todo) => Frame(at, id, todo) \notin StrayFrames
<1> DEFINE f == Frame(at, id, todo)
<1>1. f \in CallFrames /\ f.at = at /\ f.id = id /\ f.todo = todo
  BY DEF Frame, CallFrames
<1> HIDE DEF f
<1>2. id \in Handles /\ Known(todo) => f \notin StrayFrames
  BY <1>1 DEF Known, StrayFrames
<1> QED BY <1>1, <1>2 DEF f

LEMMA BarePasses ==
  ASSUME NEW at \in Points, NEW id \in Ids
  PROVE  /\ Frame(at, id, <<>>) \in CallFrames
         /\ Frame(at, id, <<>>).at = at /\ Frame(at, id, <<>>).id = id
         /\ Frame(at, id, <<>>).todo = <<>>
         /\ id \in Handles => Frame(at, id, <<>>) \notin StrayFrames
<1> DEFINE none == <<>>
           f == Frame(at, id, none)
<1>1. /\ f \in CallFrames /\ f.at = at /\ f.id = id /\ f.todo = none
      /\ \A i \in DOMAIN none : FALSE
  BY DEF Frame, CallFrames
<1> HIDE DEF f, none
<1>2. id \in Handles => f \notin StrayFrames
  BY <1>1 DEF StrayFrames
<1> QED BY <1>1, <1>2 DEF f, none

LEMMA KnownRest ==
  ASSUME NEW q \in Seq(Ids), q # <<>>, Known(q)
  PROVE  Head(q) \in Handles /\ Known(Tail(q))
<1> DEFINE v == Tail(q)
<1>1. Len(q) \in Nat /\ Len(q) >= 1 /\ DOMAIN q = 1 .. Len(q) /\ Head(q) = q[1]
  BY LenProperties
<1>2. v \in Seq(Ids) /\ Len(v) = Len(q) - 1 /\ \A i \in 1 .. Len(v) : v[i] = q[i + 1]
  BY HeadTailProperties
<1>3. DOMAIN v = 1 .. Len(q) - 1
  BY <1>2, LenProperties
<1> HIDE DEF v
<1>4. \A i \in DOMAIN v : i + 1 \in DOMAIN q /\ v[i] = q[i + 1]
  BY <1>1, <1>2, <1>3
<1> QED BY <1>1, <1>4 DEF Known, v

\* The handles in the frames of the innermost call, and of the one beneath a pin.
LEMMA OwnHandles ==
  ASSUME PoolInv, NEW t \in Threads, stack[t] # <<>>, NoStray
  PROVE  LET h == Head(stack[t])
             c == stack[t][2]
         IN /\ h.id \in Handles /\ Known(h.todo)
            /\ h.todo # <<>> => Head(h.todo) \in Handles /\ Known(Tail(h.todo))
            /\ h.at \in PinPoints => /\ c.id \in Handles /\ Known(c.todo)
                                     /\ Known(Tail(c.todo))
<1> DEFINE h == Head(stack[t])
           c == stack[t][2]
<1>1. h \in CallFrames /\ h \notin StrayFrames /\ h.todo \in Seq(Ids)
  BY Innermost DEF NoStray
<1>2. h.at \in PinPoints => /\ c \in CallFrames /\ c \notin StrayFrames /\ c.todo \in Seq(Ids)
                            /\ c.todo # <<>>
  BY PinCaller DEF NoStray
<1> HIDE DEF h, c
<1>3. h.id \in Handles /\ Known(h.todo)
  BY <1>1 DEF StrayFrames, Known
<1>4. h.at \in PinPoints => c.id \in Handles /\ Known(c.todo)
  BY <1>2 DEF StrayFrames, Known
<1> QED BY <1>1, <1>2, <1>3, <1>4, KnownRest DEF h, c

\* A step that sets a count of one slot.
LEMMA CountSet ==
  ASSUME PoolTyped, NEW r \in Slots, NEW n,
         NEW field \in {"refCount", "toStart", "remainingJobs", "dependencyCount"},
         Set(r, field, n)
  PROVE  /\ \A s \in Slots :
              /\ slots'[s].generation = slots[s].generation
              /\ slots'[s].dependents = slots[s].dependents
              /\ slots'[s].fence = slots[s].fence
              /\ field # "dependencyCount" => slots'[s].dependencyCount = slots[s].dependencyCount
              /\ field # "toStart" => slots'[s].toStart = slots[s].toStart
              /\ field # "remainingJobs" => slots'[s].remainingJobs = slots[s].remainingJobs
              /\ s # r => slots'[s] = slots[s]
         /\ field = "dependencyCount" => slots'[r].dependencyCount = n
         /\ field = "toStart" => slots'[r].toStart = n
         /\ field = "remainingJobs" => slots'[r].remainingJobs = n
<1>1. slots \in [Slots -> SlotStates]
  BY DEF PoolTyped
<1>2. PICK e \in SlotStates : e = slots[r]
  BY <1>1
<1>3. PICK x : x = [e EXCEPT ![field] = n]
  OBVIOUS
<1>4. slots' = [slots EXCEPT ![r] = x]
  BY <1>2, <1>3 DEF Set
<1>5. slots'[r] = x /\ \A s \in Slots : s # r => slots'[s] = slots[s]
  BY <1>1, <1>4
<1>6. e \in SlotStates /\ field \in {"refCount", "toStart", "remainingJobs", "dependencyCount"}
  OBVIOUS
<1>7. /\ x.generation = e.generation /\ x.dependents = e.dependents /\ x.fence = e.fence
      /\ field # "dependencyCount" => x.dependencyCount = e.dependencyCount
      /\ field # "toStart" => x.toStart = e.toStart
      /\ field # "remainingJobs" => x.remainingJobs = e.remainingJobs
      /\ field = "dependencyCount" => x.dependencyCount = n
      /\ field = "toStart" => x.toStart = n
      /\ field = "remainingJobs" => x.remainingJobs = n
  BY ONLY <1>3, <1>6 DEF SlotStates
<1> QED BY <1>2, <1>5, <1>7

\* A step that changes nothing of what is counted.
SlotsKeep ==
  \A s \in Slots :
    /\ slots'[s].generation = slots[s].generation /\ slots'[s].fence = slots[s].fence
    /\ slots'[s].toStart = slots[s].toStart
    /\ slots'[s].remainingJobs = slots[s].remainingJobs
Calm ==
  /\ CountsKeptBy /\ SlotsKeep
  /\ UNCHANGED <<free, queue, workLeft, allWork, batches, issued>>
Passes == HandlesPassed => HandlesPassed'
StayNatural == WaitsNatural => WaitsNatural'

LEMMA PassedOn ==
  ASSUME NoStray => NoStray',
         \A s \in Slots : /\ slots'[s].generation = slots[s].generation
                          /\ slots'[s].dependents = slots[s].dependents
  PROVE  Passes
BY DEF Passes, HandlesPassed, NoStray

LEMMA SlotsKeptCalm ==
  ASSUME slots' = slots
  PROVE  /\ SlotsKeep /\ StayNatural
         /\ \A s \in Slots : /\ slots'[s].generation = slots[s].generation
                             /\ slots'[s].dependents = slots[s].dependents
BY DEF SlotsKeep, StayNatural, WaitsNatural

LEMMA RefSetCalm ==
  ASSUME PoolTyped, NEW r \in Slots, NEW n, Set(r, "refCount", n)
  PROVE  /\ SlotsKeep /\ StayNatural
         /\ \A s \in Slots : /\ slots'[s].generation = slots[s].generation
                             /\ slots'[s].dependents = slots[s].dependents
BY CountSet DEF SlotsKeep, StayNatural, WaitsNatural

LEMMA PinFailCalm ==
  ASSUME PoolInv, NEW t \in Threads, stack[t] # <<>>, Head(stack[t]).at \in PinPoints,
         PinFails(t, <<>>) \/ PinFails(t, <<Frame("unpin", Id(t), <<>>)>>)
  PROVE  CountsKeptBy /\ (NoStray => NoStray')
<1> DEFINE c == stack[t][2]
           L == Len(stack[t])
           f == Frame(c.at, c.id, Tail(c.todo))
           g == Frame("unpin", Id(t), <<>>)
           fs == <<f>>
           gs == <<g, f>>
<1>1. /\ L >= 2 /\ c \in CallFrames /\ c.at \in {"dependents", "addDependents"} /\ c.at \in Points
      /\ c.id \in Ids /\ c.todo \in Seq(Ids) /\ Tail(c.todo) \in Seq(Ids) /\ PoolTyped
  BY PinCaller DEF CallFrames, PoolInv
<1>2. Id(t) = Head(stack[t]).id /\ Id(t) \in Ids /\ "unpin" \in Points
  BY Innermost DEF Points
<1>3. /\ f \in CallFrames /\ f.at = c.at /\ f.id = c.id
      /\ c.id \in Handles /\ Known(Tail(c.todo)) => f \notin StrayFrames
      /\ g \in CallFrames /\ g.at = "unpin"
      /\ Id(t) \in Handles => g \notin StrayFrames
  <2>1. /\ g \in CallFrames /\ g.at = "unpin"
        /\ Id(t) \in Handles => g \notin StrayFrames
    BY <1>2, BarePasses
  <2>2. PICK at \in Points, id \in Ids, q \in Seq(Ids) : at = c.at /\ id = c.id /\ q = Tail(c.todo)
    BY <1>1
  <2>3. f = Frame(at, id, q)
    BY <2>2
  <2> HIDE DEF f
  <2>4. /\ f \in CallFrames /\ f.at = at /\ f.id = id
        /\ id \in Handles /\ Known(q) => f \notin StrayFrames
    BY <2>3, FramePasses
  <2> HIDE DEF c
  <2>5. /\ f \in CallFrames /\ f.at = c.at /\ f.id = c.id
        /\ c.id \in Handles /\ Known(Tail(c.todo)) => f \notin StrayFrames
    BY <2>2, <2>4
  <2> QED BY <2>1, <2>5
<1>4. NoStray => f \notin StrayFrames /\ g \notin StrayFrames
  BY <1>2, <1>3, OwnHandles
<1>5. AlikeCounts(c, f) /\ Uncounted(g)
  BY <1>1, <1>3 DEF AlikeCounts, CountAlike, Uncounted, CountedPoints, RunPoints, DonePoints
<1>6. \/ stack' = [stack EXCEPT ![t] = <<>> \o <<f>> \o Tail(Tail(@))]
      \/ stack' = [stack EXCEPT ![t] = <<g>> \o <<f>> \o Tail(Tail(@))]
  BY DEF PinFails
<1> HIDE DEF f, g
<1>7. <<>> \o <<f>> = fs /\ <<g>> \o <<f>> = gs
  BY <1>3, Joined
<1>8. fs \in Seq(CallFrames) /\ gs \in Seq(CallFrames)
  BY <1>3
<1>9. Restack(t, L - 2, fs) \/ Restack(t, L - 2, gs)
  <2> HIDE DEF fs, gs
  <2>1. \/ stack' = [stack EXCEPT ![t] = fs \o Tail(Tail(@))]
        \/ stack' = [stack EXCEPT ![t] = gs \o Tail(Tail(@))]
    BY <1>6, <1>7
  <2> QED BY <1>1, <1>8, <2>1, Returned
<1>10. Restack(t, L - 2, <<f>>) \/ Restack(t, L - 2, <<g, f>>)
  BY <1>9
<1> HIDE DEF c
<1> QED BY <1>3, <1>4, <1>5, <1>10, CountsOfCaller DEF c

LEMMA PinCheckCalm ==
  ASSUME PoolInv, NEW t \in Threads, PinCheck(t) PROVE Calm /\ Passes /\ StayNatural
<1> DEFINE h == Head(stack[t])
           f == Frame("pinTake", Id(t), <<>>)
<1>1. /\ stack[t] # <<>> /\ h.at = "pinCheck" /\ PoolTyped /\ h.at \in PinPoints
      /\ UNCHANGED <<slots, free, queue, workLeft, allWork, batches, issued>>
  BY DEF PinCheck, At, PoolInv, PinPoints
<1>2. CountsKeptBy /\ (NoStray => NoStray')
  <2>1. CASE Slot(Id(t)).generation # Id(t).gen
    BY <1>1, <2>1, PinFailCalm DEF PinCheck
  <2>2. CASE Slot(Id(t)).generation = Id(t).gen
    <3>1. Id(t) \in Ids /\ Id(t) = h.id /\ "pinTake" \in Points
      BY <1>1, Innermost DEF Points
    <3>2. f \in CallFrames /\ f.at = "pinTake" /\ (Id(t) \in Handles => f \notin StrayFrames)
      BY <3>1, BarePasses
    <3>3. Continue(t, <<f>>)
      BY <2>2 DEF PinCheck
    <3> HIDE DEF f
    <3>4. Restack(t, Len(stack[t]) - 1, <<f>>)
      BY <1>1, <3>2, <3>3, Continued1
    <3>5. AlikeCounts(h, f)
      BY <1>1, <3>2 DEF AlikeCounts, Uncounted, CountedPoints, RunPoints, DonePoints
    <3> QED BY <1>1, <3>1, <3>2, <3>4, <3>5, OwnHandles, CountsOfOwn
  <2> QED BY <2>1, <2>2
<1> QED BY <1>1, <1>2, PassedOn, SlotsKeptCalm DEF Calm

LEMMA PinTakeCalm ==
  ASSUME PoolInv, NEW t \in Threads, PinTake(t) PROVE Calm /\ Passes /\ StayNatural
<1> DEFINE h == Head(stack[t])
           f == Frame("pinVerify", Id(t), <<>>)
<1>1. /\ stack[t] # <<>> /\ h.at = "pinTake" /\ PoolTyped /\ h.at \in PinPoints
      /\ UNCHANGED <<free, queue, workLeft, allWork, batches, issued>>
  BY DEF PinTake, At, PoolInv, PinPoints
<1>2. Id(t) \in Ids /\ Id(t).slot \in Slots /\ Id(t) = h.id /\ "pinVerify" \in Points
  BY <1>1, Innermost DEF Points
<1>3. CASE Slot(Id(t)).refCount = 0
  <2>1. PinFails(t, <<>>) /\ slots' = slots
    BY <1>3 DEF PinTake
  <2> QED BY <1>1, <2>1, PinFailCalm, PassedOn, SlotsKeptCalm DEF Calm
<1>4. CASE Slot(Id(t)).refCount # 0
  <2>1. f \in CallFrames /\ f.at = "pinVerify" /\ (Id(t) \in Handles => f \notin StrayFrames)
    BY <1>2, BarePasses
  <2>2. Continue(t, <<f>>) /\ Set(Id(t).slot, "refCount", Slot(Id(t)).refCount + 1)
    BY <1>4 DEF PinTake
  <2> HIDE DEF f
  <2>3. Restack(t, Len(stack[t]) - 1, <<f>>)
    BY <1>1, <2>1, <2>2, Continued1
  <2>4. AlikeCounts(h, f)
    BY <1>1, <2>1 DEF AlikeCounts, Uncounted, CountedPoints, RunPoints, DonePoints
  <2>5. CountsKeptBy /\ (NoStray => NoStray')
    BY <1>1, <1>2, <2>1, <2>3, <2>4, OwnHandles, CountsOfOwn
  <2> QED BY <1>1, <1>2, <2>2, <2>5, PassedOn, RefSetCalm DEF Calm
<1> QED BY <1>3, <1>4

LEMMA PinVerifyCalm ==
  ASSUME PoolInv, NEW t \in Threads, PinVerify(t) PROVE Calm /\ Passes /\ StayNatural
<1> DEFINE h == Head(stack[t])
           c == stack[t][2]
           L == Len(stack[t])
           at == IF c.at = "dependents" THEN "resolve" ELSE "register"
           f == Frame(at, c.id, c.todo)
           z == Frame("unpin", Id(t), <<>>)
           fs == <<f>>
<1>1. /\ stack[t] # <<>> /\ h.at = "pinVerify" /\ PoolTyped /\ h.at \in PinPoints
      /\ UNCHANGED <<slots, free, queue, workLeft, allWork, batches, issued>>
  BY DEF PinVerify, At, PoolInv, PinPoints
<1>2. CountsKeptBy /\ (NoStray => NoStray')
  <2>1. CASE Slot(Id(t)).generation # Id(t).gen
    BY <1>1, <2>1, PinFailCalm DEF PinVerify
  <2>2. CASE Slot(Id(t)).generation = Id(t).gen
    <3>1. /\ L >= 2 /\ c \in CallFrames /\ c.at \in {"dependents", "addDependents"}
          /\ c.id \in Ids /\ c.todo \in Seq(Ids) /\ Id(t) \in Ids
          /\ at \in Points
      BY <1>1, PinCaller, Innermost DEF Points
    <3>2. /\ f \in CallFrames /\ f.id = c.id /\ f.at = at
          /\ c.id \in Handles /\ Known(c.todo) => f \notin StrayFrames
          /\ z \in CallFrames
      <4> HIDE DEF at
      <4>1. /\ f \in CallFrames /\ f.id = c.id /\ f.at = at
            /\ c.id \in Handles /\ Known(c.todo) => f \notin StrayFrames
        BY <3>1, FramePasses
      <4>2. z \in CallFrames
        BY <3>1, BarePasses DEF Points
      <4> QED BY <4>1, <4>2
    <3>3. stack' = [stack EXCEPT ![t] = <<f>> \o Tail(Tail(@))]
      BY <2>2 DEF PinVerify, PinSucceeds
    <3>4. AlikeCounts(c, f)
      BY <3>1, <3>2 DEF AlikeCounts, CountAlike, Uncounted, CountedPoints, RunPoints, DonePoints
    <3> HIDE DEF f, z
    <3>5. fs \in Seq(CallFrames)
      BY <3>2
    <3>6. Restack(t, L - 2, fs)
      <4> HIDE DEF fs
      <4>1. stack' = [stack EXCEPT ![t] = fs \o Tail(Tail(@))]
        BY <3>3 DEF fs
      <4> QED BY <1>1, <3>1, <3>5, <4>1, Returned
    <3>7. NoStray => f \notin StrayFrames
      BY <1>1, <3>2, OwnHandles
    <3> QED BY <1>1, <3>2, <3>4, <3>6, <3>7, CountsOfCaller
  <2> QED BY <2>1, <2>2
<1> QED BY <1>1, <1>2, PassedOn, SlotsKeptCalm DEF Calm

LEMMA PassedOnWhen ==
  ASSUME HandlesPassed => NoStray',
         \A s \in Slots : /\ slots'[s].generation = slots[s].generation
                          /\ slots'[s].dependents = slots[s].dependents
  PROVE  Passes
BY DEF Passes, HandlesPassed, NoStray

LEMMA GivesBackCalm ==
  ASSUME PoolInv, NEW t \in Threads, stack[t] # <<>>, NEW w \in CallFrames,
         w.at = "workDone", w.id = Id(t), Id(t) \in Handles => w \notin StrayFrames,
         \/ Head(stack[t]).at = "unpin" /\ DropReference(t, <<>>)
         \/ Head(stack[t]).at = "complete" /\ DropReference(t, <<w>>),
         UNCHANGED <<free, queue, workLeft, allWork, batches, issued>>
  PROVE  Calm /\ Passes /\ StayNatural
<1> DEFINE s == Id(t).slot
           own == [slot |-> s, gen |-> slots[s].generation]
           o == Frame("drop", own, <<>>)
           h == Head(stack[t])
           L == Len(stack[t])
<1>1. PoolTyped /\ s \in Slots /\ Id(t) = h.id
  BY Innermost DEF PoolInv
<1>2. /\ o \in CallFrames /\ o.at = "drop"
      /\ HandlesPassed => o \notin StrayFrames
  <2>1. slots[s].generation \in Nat /\ MaxBatches \in Nat
    BY <1>1, PoolAssumption DEF PoolTyped, SlotStates
  <2>2. own \in Ids /\ (HandlesPassed => own \in Handles)
    BY <1>1, <2>1 DEF Ids, Handles, HandlesPassed
  <2> HIDE DEF own
  <2> QED BY <2>2, BarePasses DEF Points
<1>3. \/ h.at = "unpin" /\ (Continue(t, <<>>) \/ Continue(t, <<o>> \o <<>>))
      \/ h.at = "complete" /\ (Continue(t, <<w>>) \/ Continue(t, <<o>> \o <<w>>))
  BY DEF DropReference
<1>4. Set(s, "refCount", slots[s].refCount - 1)
  BY DEF DropReference
<1> HIDE DEF o
<1>5. <<o>> \o <<>> = <<o>> /\ <<o>> \o <<w>> = <<o, w>>
  BY <1>2, Joined
<1>6. \/ h.at = "unpin" /\ (Restack(t, L - 1, <<>>) \/ Restack(t, L - 1, <<o>>))
      \/ h.at = "complete" /\ (Restack(t, L - 1, <<w>>) \/ Restack(t, L - 1, <<o, w>>))
  BY <1>1, <1>2, <1>3, <1>5, Continued0, Continued1, Continued2
<1>7. /\ h.at = "unpin" => Uncounted(h) /\ AlikeCounts(h, o)
      /\ h.at = "complete" => AlikeCounts(h, w)
      /\ Uncounted(o)
  BY <1>1, <1>2 DEF Uncounted, AlikeCounts, CountAlike, CountedPoints, RunPoints, DonePoints
<1>8. HandlesPassed => NoStray /\ w \notin StrayFrames /\ o \notin StrayFrames
  BY <1>1, <1>2, OwnHandles DEF HandlesPassed, NoStray
<1>9. CountsKeptBy /\ (HandlesPassed => NoStray')
  <2> HIDE DEF h, L
  <2>1. CASE h.at = "unpin" /\ Restack(t, L - 1, <<>>)
    BY <1>2, <1>7, <1>8, <2>1, CountsOfOwn DEF h, L
  <2>2. CASE h.at = "unpin" /\ Restack(t, L - 1, <<o>>)
    BY <1>2, <1>7, <1>8, <2>2, CountsOfOwn DEF h, L
  <2>3. CASE h.at = "complete" /\ Restack(t, L - 1, <<w>>)
    BY <1>2, <1>7, <1>8, <2>3, CountsOfOwn DEF h, L
  <2>4. CASE h.at = "complete" /\ Restack(t, L - 1, <<o, w>>)
    BY <1>2, <1>7, <1>8, <2>4, CountsOfOwn DEF h, L
  <2> QED BY <1>6, <2>1, <2>2, <2>3, <2>4
<1> HIDE DEF s
<1>10. SlotsKeep /\ StayNatural
       /\ \A r \in Slots : /\ slots'[r].generation = slots[r].generation
                           /\ slots'[r].dependents = slots[r].dependents
  BY <1>1, <1>4, RefSetCalm
<1> QED BY <1>9, <1>10, PassedOnWhen DEF Calm

LEMMA UnpinCalm == ASSUME PoolInv, NEW t \in Threads, Unpin(t) PROVE Calm /\ Passes /\ StayNatural
<1> DEFINE w == Frame("workDone", Id(t), <<>>)
<1>1. /\ stack[t] # <<>> /\ Head(stack[t]).at = "unpin" /\ DropReference(t, <<>>)
      /\ UNCHANGED <<free, queue, workLeft, allWork, batches, issued>>
  BY DEF Unpin, At
<1>2. w \in CallFrames /\ w.at = "workDone" /\ w.id = Id(t) /\ (Id(t) \in Handles => w \notin StrayFrames)
  <2>1. Id(t) \in Ids
    BY <1>1, Innermost
  <2> QED BY <2>1, BarePasses DEF Points
<1> HIDE DEF w
<1> QED BY <1>1, <1>2, GivesBackCalm

LEMMA CompleteBatchCalm ==
  ASSUME PoolInv, NEW t \in Threads, CompleteBatch(t) PROVE Calm /\ Passes /\ StayNatural
<1> DEFINE w == Frame("workDone", Id(t), <<>>)
<1>1. /\ stack[t] # <<>> /\ Head(stack[t]).at = "complete" /\ DropReference(t, <<w>>)
      /\ UNCHANGED <<free, queue, workLeft, allWork, batches, issued>>
  BY DEF CompleteBatch, At
<1>2. w \in CallFrames /\ w.at = "workDone" /\ w.id = Id(t) /\ (Id(t) \in Handles => w \notin StrayFrames)
  <2>1. Id(t) \in Ids
    BY <1>1, Innermost
  <2> QED BY <2>1, BarePasses DEF Points
<1> HIDE DEF w
<1> QED BY <1>1, <1>2, GivesBackCalm

LEMMA PinBeginsCalm ==
  ASSUME PoolInv, NEW t \in Threads, stack[t] # <<>>, Todo(t) # <<>>, PinFirst(t),
         UNCHANGED <<slots, free, queue, workLeft, allWork, batches, issued>>
  PROVE  Calm /\ Passes /\ StayNatural
<1> DEFINE k == Head(Todo(t))
           g == Frame("pinCheck", k, <<>>)
<1>1. PoolTyped /\ k \in Ids /\ (NoStray => k \in Handles)
  BY Innermost, OwnHandles DEF PoolInv
<1>2. stack' = [stack EXCEPT ![t] = <<g>> \o @]
  BY DEF PinFirst
<1> HIDE DEF k
<1>3. g \in CallFrames /\ g.at = "pinCheck" /\ (k \in Handles => g \notin StrayFrames)
  BY <1>1, BarePasses DEF Points
<1> HIDE DEF g
<1>4. Restack(t, Len(stack[t]), <<g>>)
  BY <1>1, <1>2, <1>3, Called
<1>5. Uncounted(g)
  BY <1>3 DEF Uncounted, CountedPoints, RunPoints, DonePoints
<1>6. CountsKeptBy /\ (NoStray => NoStray')
  BY <1>1, <1>3, <1>4, <1>5, CountsOfOwn
<1> QED BY <1>6, PassedOn, SlotsKeptCalm DEF Calm

LEMMA DropNextDependentCalm ==
  ASSUME PoolInv, NEW t \in Threads, DropNextDependent(t) PROVE Calm /\ Passes /\ StayNatural
BY PinBeginsCalm DEF DropNextDependent, At

LEMMA AddDependentCalm ==
  ASSUME PoolInv, NEW t \in Threads, AddDependent(t) PROVE Calm /\ Passes /\ StayNatural
BY PinBeginsCalm DEF AddDependent, At

\* A step that sets a dependency count of a batch that waits.
LEMMA WaitSetCalm ==
  ASSUME PoolTyped, NEW d \in Ids, Set(d.slot, "dependencyCount", Slot(d).dependencyCount - 1)
  PROVE  /\ SlotsKeep
         /\ \A s \in Slots : /\ slots'[s].generation = slots[s].generation
                             /\ slots'[s].dependents = slots[s].dependents
         /\ WaitInv /\ Holds(d) # {} => StayNatural
<1>1. PICK r \in Slots : r = d.slot
  BY HandlesAreReal
<1>2. PICK n : n = slots[r].dependencyCount - 1
  OBVIOUS
<1>3. Set(r, "dependencyCount", n)
  BY <1>1, <1>2 DEF Slot
<1>4. /\ \A s \in Slots :
           /\ slots'[s].generation = slots[s].generation
           /\ slots'[s].dependents = slots[s].dependents
           /\ slots'[s].fence = slots[s].fence
           /\ slots'[s].toStart = slots[s].toStart
           /\ slots'[s].remainingJobs = slots[s].remainingJobs
           /\ s # r => slots'[s] = slots[s]
      /\ slots'[r].dependencyCount = n
  BY <1>3, CountSet
<1>5. WaitInv /\ Holds(d) # {} => n \in Int /\ n >= 0
  <2>1. WaitInv /\ Holds(d) # {} => slots[r].dependencyCount = Cardinality(Holds(d))
    BY <1>1 DEF WaitInv, WaitsCounted, Slot
  <2>2. /\ Holds(d) # {} => Cardinality(Holds(d)) # 0
        /\ Cardinality(Holds(d)) \in Nat
    BY HoldsFinite, FS_EmptySet
  <2> QED BY <1>2, <2>1, <2>2
<1>6. WaitInv /\ Holds(d) # {} => StayNatural
  BY <1>4, <1>5 DEF StayNatural, WaitsNatural
<1> QED BY <1>4, <1>6 DEF SlotsKeep

LEMMA DropResolveCalm ==
  ASSUME PoolInv, NEW t \in Threads, DropResolve(t)
  PROVE  Calm /\ Passes /\ (WaitInv => StayNatural)
<1> DEFINE h == Head(stack[t])
           k == Head(h.todo)
           q == Tail(h.todo)
           L == Len(stack[t])
<1>1. /\ stack[t] # <<>> /\ h.at = "resolve" /\ PoolTyped
      /\ UNCHANGED <<free, queue, workLeft, allWork, batches, issued>>
  BY DEF DropResolve, At, PoolInv
<1>2. h.todo # <<>>
  BY <1>1, Innermost DEF Pinned
<1>3. /\ Id(t) = h.id /\ Todo(t) = h.todo /\ h.id \in Ids /\ k \in Ids
      /\ h.todo \in Seq(Ids) /\ q \in Seq(Ids)
  BY <1>1, <1>2, Innermost
<1>4. PICK d \in Ids, v \in Seq(Ids), i \in Ids : d = k /\ v = q /\ i = h.id
  BY <1>3
<1> DEFINE f == Frame("dependents", i, v)
           g == Frame("unpin", d, <<>>)
           p == Frame("push", d, <<>>)
           n == Slot(d).dependencyCount
<1>5. /\ Set(d.slot, "dependencyCount", n - 1)
      /\ Continue(t, (IF n = 1 THEN <<p>> ELSE <<>>) \o <<g>> \o <<f>>)
  BY <1>3, <1>4 DEF DropResolve
<1>6. /\ f \in CallFrames /\ f.at = "dependents" /\ f.id = i
      /\ i \in Handles /\ Known(v) => f \notin StrayFrames
  BY FramePasses DEF Points
<1>7. /\ g \in CallFrames /\ g.at = "unpin" /\ (d \in Handles => g \notin StrayFrames)
      /\ p \in CallFrames /\ p.at = "push" /\ (d \in Handles => p \notin StrayFrames)
  BY BarePasses DEF Points
<1> HIDE DEF f, g, p
<1>8. <<p>> \o <<g>> \o <<f>> = <<p, g, f>> /\ <<>> \o <<g>> \o <<f>> = <<g, f>>
  BY <1>6, <1>7, Joined
<1>9. AlikeCounts(h, f) /\ Uncounted(g) /\ Uncounted(p)
  BY <1>1, <1>4, <1>6, <1>7 DEF AlikeCounts, CountAlike, Uncounted, CountedPoints, RunPoints,
     DonePoints
<1>10. NoStray => f \notin StrayFrames /\ g \notin StrayFrames /\ p \notin StrayFrames
  BY <1>1, <1>2, <1>4, <1>6, <1>7, OwnHandles
<1>11. Restack(t, L - 1, <<p, g, f>>) \/ Restack(t, L - 1, <<g, f>>)
  BY <1>1, <1>5, <1>6, <1>7, <1>8, Continued2, Continued3
<1>12. CountsKeptBy /\ (NoStray => NoStray')
  BY <1>1, <1>6, <1>7, <1>9, <1>10, <1>11, CountsOfOwn
<1>13. Holds(d) # {}
  <2>1. Named(h.todo, d)
    BY <1>2, <1>3, <1>4, TailNames
  <2>2. h \in ReleaseFramesOf(h.id.slot, d)
    BY <1>1, <2>1, Innermost DEF ReleaseFramesOf, ReleaseFrames, ReleasePoints
  <2>3. ToRelease(h.id.slot, d) /\ h.id.slot \in Slots
    BY <1>1, <1>3, <2>2, Innermost, HandlesAreReal DEF ToRelease
  <2> QED BY <2>3, WaitsFor DEF Awaits
<1>14. /\ SlotsKeep
       /\ \A s \in Slots : /\ slots'[s].generation = slots[s].generation
                           /\ slots'[s].dependents = slots[s].dependents
       /\ WaitInv => StayNatural
  BY <1>1, <1>5, <1>13, WaitSetCalm
<1> QED BY <1>1, <1>12, <1>14, PassedOn DEF Calm

LEMMA ReleaseGuardCalm ==
  ASSUME PoolInv, NEW t \in Threads, ReleaseGuard(t)
  PROVE  Calm /\ Passes /\ (WaitInv => StayNatural)
<1> DEFINE h == Head(stack[t])
           L == Len(stack[t])
<1>1. /\ stack[t] # <<>> /\ h.at = "addDependents" /\ PoolTyped
      /\ UNCHANGED <<free, queue, workLeft, allWork, batches, issued>>
  BY DEF ReleaseGuard, At, PoolInv
<1>2. PICK d \in Ids : d = h.id /\ d = Id(t)
  BY <1>1, Innermost
<1> DEFINE p == Frame("push", d, <<>>)
<1>3. /\ Set(d.slot, "dependencyCount", Slot(d).dependencyCount - 1)
      /\ Continue(t, IF Slot(d).dependencyCount = 1 THEN <<p>> ELSE <<>>)
  BY <1>2 DEF ReleaseGuard
<1>4. p \in CallFrames /\ p.at = "push" /\ (d \in Handles => p \notin StrayFrames)
  BY BarePasses DEF Points
<1> HIDE DEF p
<1>5. Restack(t, L - 1, <<p>>) \/ Restack(t, L - 1, <<>>)
  BY <1>1, <1>3, <1>4, Continued0, Continued1
<1>6. Uncounted(h) /\ AlikeCounts(h, p)
  BY <1>1, <1>4 DEF AlikeCounts, Uncounted, CountedPoints, RunPoints, DonePoints
<1>7. NoStray => p \notin StrayFrames
  BY <1>1, <1>2, <1>4, OwnHandles
<1>8. CountsKeptBy /\ (NoStray => NoStray')
  BY <1>1, <1>4, <1>5, <1>6, <1>7, CountsOfOwn
<1>9. Holds(d) # {}
  <2>1. h \in GuardFrames(d)
    BY <1>1, <1>2, Innermost DEF GuardFrames, GuardPoints
  <2>2. Guards(d) # {}
    BY <1>1, <2>1, Innermost DEF Guards
  <2> QED BY <2>2, WaitsFor
<1>10. /\ SlotsKeep
       /\ \A s \in Slots : /\ slots'[s].generation = slots[s].generation
                           /\ slots'[s].dependents = slots[s].dependents
       /\ WaitInv => StayNatural
  BY <1>1, <1>3, <1>9, WaitSetCalm
<1> QED BY <1>1, <1>8, <1>10, PassedOn DEF Calm

\* A registration of d at slot r keeps what is counted, and stores a handle.
Registers(r, d, room) ==
  slots' =
    [s \in Slots |->
       [slots[s] EXCEPT
          !.dependentCount = IF s = r THEN @ + 1 ELSE @,
          !.dependents = IF s = r /\ room THEN Append(@, d) ELSE @,
          !.dependencyCount = IF s = d.slot /\ room THEN @ + 1 ELSE @]]

LEMMA RegistrationKeeps ==
  ASSUME PoolTyped, NEW r, NEW d \in Ids, NEW room, Registers(r, d, room)
  PROVE  /\ SlotsKeep /\ StayNatural
         /\ \A s \in Slots :
              /\ slots'[s].generation = slots[s].generation
              /\ slots'[s].dependents \in {slots[s].dependents, Append(slots[s].dependents, d)}
<1>1. ASSUME NEW s \in Slots
      PROVE  /\ slots'[s].generation = slots[s].generation /\ slots'[s].fence = slots[s].fence
             /\ slots'[s].toStart = slots[s].toStart
             /\ slots'[s].remainingJobs = slots[s].remainingJobs
             /\ slots'[s].dependents \in {slots[s].dependents, Append(slots[s].dependents, d)}
             /\ slots[s].dependencyCount >= 0 => slots'[s].dependencyCount >= 0
  <2>1. PICK e \in SlotStates : e = slots[s]
    BY DEF PoolTyped
  <2>2. PICK a, b, c :
          /\ slots'[s] = [e EXCEPT !.dependentCount = a, !.dependents = b, !.dependencyCount = c]
          /\ b = IF s = r /\ room THEN Append(e.dependents, d) ELSE e.dependents
          /\ c = IF s = d.slot /\ room THEN e.dependencyCount + 1 ELSE e.dependencyCount
    BY <2>1 DEF Registers
  <2>3. PICK x : x = slots'[s]
    OBVIOUS
  <2>4. /\ x.generation = e.generation /\ x.fence = e.fence
        /\ x.toStart = e.toStart /\ x.remainingJobs = e.remainingJobs
        /\ x.dependents = b /\ x.dependencyCount = c /\ e.dependencyCount \in Int
    <3>1. /\ e \in SlotStates
          /\ x = [e EXCEPT !.dependentCount = a, !.dependents = b, !.dependencyCount = c]
      BY <2>2, <2>3
    <3> QED BY ONLY <3>1 DEF SlotStates
  <2>5. e.dependencyCount >= 0 => c >= 0
    <3>1. c = e.dependencyCount + 1 \/ c = e.dependencyCount
      BY <2>2
    <3>2. e.dependencyCount \in Int
      BY <2>4
    <3> QED BY ONLY <3>1, <3>2
  <2>6. b \in {e.dependents, Append(e.dependents, d)}
    BY <2>2
  <2> QED BY <2>1, <2>3, <2>4, <2>5, <2>6
<1> QED BY <1>1 DEF SlotsKeep, StayNatural, WaitsNatural

LEMMA RegisterDependentCalm ==
  ASSUME PoolInv, NEW t \in Threads, RegisterDependent(t) PROVE Calm /\ Passes /\ StayNatural
<1> DEFINE h == Head(stack[t])
           L == Len(stack[t])
<1>1. /\ stack[t] # <<>> /\ h.at = "register" /\ PoolTyped
      /\ UNCHANGED <<free, queue, workLeft, allWork, batches, issued>>
  BY DEF RegisterDependent, At, PoolInv
<1>2. h.todo # <<>>
  BY <1>1, Innermost DEF Pinned
<1>3. /\ Id(t) = h.id /\ Todo(t) = h.todo /\ h.id \in Ids /\ Head(h.todo) \in Ids
      /\ Head(h.todo).slot \in Slots /\ Tail(h.todo) \in Seq(Ids)
  BY <1>1, <1>2, Innermost
<1>4. PICK k \in Ids, v \in Seq(Ids), i \in Ids : k = Head(h.todo) /\ v = Tail(h.todo) /\ i = h.id
  BY <1>3
<1> DEFINE f == Frame("addDependents", i, v)
           g == Frame("unpin", k, <<>>)
<1>5. Continue(t, <<g>> \o <<f>>)
  BY <1>3, <1>4 DEF RegisterDependent
<1>6. /\ f \in CallFrames /\ f.at = "addDependents"
      /\ i \in Handles /\ Known(v) => f \notin StrayFrames
  BY FramePasses DEF Points
<1>7. g \in CallFrames /\ g.at = "unpin" /\ (k \in Handles => g \notin StrayFrames)
  BY BarePasses DEF Points
<1> HIDE DEF f, g
<1>8. Restack(t, L - 1, <<g, f>>)
  BY <1>1, <1>5, <1>6, <1>7, Joined, Continued2
<1>9. AlikeCounts(h, f) /\ Uncounted(g)
  BY <1>1, <1>6, <1>7 DEF AlikeCounts, Uncounted, CountedPoints, RunPoints, DonePoints
<1>10. NoStray => i \in Handles /\ f \notin StrayFrames /\ g \notin StrayFrames
  BY <1>1, <1>2, <1>4, <1>6, <1>7, OwnHandles
<1>11. CountsKeptBy /\ (NoStray => NoStray')
  BY <1>1, <1>6, <1>7, <1>8, <1>9, <1>10, CountsOfOwn
<1>12. PICK r \in Slots : r = Head(Todo(t)).slot
  BY <1>3
<1>13. PICK room : room = (slots[r].dependentCount < MaxDependents)
  OBVIOUS
<1>14. Registers(r, i, room)
  BY <1>3, <1>4, <1>12, <1>13 DEF RegisterDependent, Registers
<1>15. /\ SlotsKeep /\ StayNatural
       /\ \A s \in Slots :
            /\ slots'[s].generation = slots[s].generation
            /\ slots'[s].dependents \in {slots[s].dependents, Append(slots[s].dependents, i)}
  BY <1>1, <1>14, RegistrationKeeps
<1>16. Passes
  <2>1. SUFFICES ASSUME HandlesPassed
                 PROVE  HandlesPassed'
    BY DEF Passes
  <2>2. NoStray' /\ i \in Handles
    BY <1>10, <1>11, <2>1 DEF HandlesPassed, NoStray
  <2>3. ASSUME NEW s \in Slots
        PROVE  Known(slots'[s].dependents)
    <3>1. PICK q \in Seq(Ids) : q = slots[s].dependents
      BY <1>1 DEF PoolTyped, SlotStates
    <3>2. Known(q)
      BY <2>1, <3>1 DEF HandlesPassed, Known
    <3>3. \A j \in DOMAIN Append(q, i) : Append(q, i)[j] \in Handles
      <4>1. /\ Len(q) \in Nat /\ DOMAIN q = 1 .. Len(q)
            /\ Append(q, i) \in Seq(Ids) /\ Len(Append(q, i)) = Len(q) + 1
            /\ \A j \in 1 .. Len(q) : Append(q, i)[j] = q[j]
            /\ Append(q, i)[Len(q) + 1] = i
        BY AppendProperties, LenProperties
      <4>2. DOMAIN Append(q, i) = 1 .. Len(q) + 1
        BY <4>1, LenProperties
      <4>3. \A j \in 1 .. Len(q) + 1 : j \in 1 .. Len(q) \/ j = Len(q) + 1
        BY <4>1
      <4> QED BY <2>2, <3>2, <4>1, <4>2, <4>3 DEF Known
    <3> QED BY <1>15, <3>1, <3>2, <3>3 DEF Known
  <2> QED BY <1>15, <2>1, <2>2, <2>3 DEF HandlesPassed, NoStray, Known
<1> QED BY <1>1, <1>11, <1>15, <1>16 DEF Calm

----------------------------------------------------------------------------
(* What a step that changes nothing of what is counted keeps *)

LEMMA CalmCounts ==
  ASSUME Calm
  PROVE  /\ \A s : /\ CallsIn(ReclaimFrames(s))' = CallsIn(ReclaimFrames(s))
                   /\ Running(s)' = Running(s)
                   /\ Listed(s)' = Listed(s) /\ Gone(s)' = Gone(s)
         /\ \A h : Busy(h)' = Busy(h)
         /\ CallsIn(DoneFrames)' = CallsIn(DoneFrames)
         /\ Leaked' = Leaked /\ WorkLeaked' = WorkLeaked /\ Active' = Active
<1>1. /\ \A s : /\ CallsIn(ReclaimFrames(s))' = CallsIn(ReclaimFrames(s))
                /\ CallsIn(RunningFrames(s))' = CallsIn(RunningFrames(s))
                /\ CallsIn(ReleaseFrames(s))' = CallsIn(ReleaseFrames(s))
      /\ \A h : CallsIn(RunFrames(h))' = CallsIn(RunFrames(h))
      /\ CallsIn(DoneFrames)' = CallsIn(DoneFrames)
  BY SetsCount DEF Calm, CountsKeptBy
<1>2. UNCHANGED <<free, queue, batches>>
  BY DEF Calm
<1>3. Leaked' = Leaked /\ WorkLeaked' = WorkLeaked /\ Active' = Active
  BY <1>2 DEF Leaked, WorkLeaked, Active, Failed
<1>4. \A s : Listed(s)' = Listed(s) /\ Gone(s)' = Gone(s)
  BY <1>1, <1>2 DEF Listed, Gone
<1>5. \A h : Busy(h)' = Busy(h)
  BY <1>1, <1>2 DEF Busy
<1> QED BY <1>1, <1>3, <1>4, <1>5 DEF Running

LEMMA CalmFences ==
  ASSUME FenceInv, Calm
  PROVE  FenceInv'
<1>1. Fenced' = Fenced
  BY CalmCounts DEF Calm, SlotsKeep, Fenced
<1> QED BY <1>1, CalmCounts DEF FenceInv, Calm

LEMMA HandleOf ==
  ASSUME batches \in Seq(BatchStates), NEW i \in DOMAIN batches
  PROVE  batches[i] \in BatchStates
         /\ (batches[i].id # NoHandle => batches[i].id \in Ids /\ batches[i].id.slot \in Slots)
<1>1. batches[i] \in BatchStates
  OBVIOUS
<1>2. batches[i].id \in Ids \cup {NoHandle}
  BY <1>1 DEF BatchStates
<1> QED BY <1>1, <1>2, HandlesAreReal

\* The parts of JobsCounted.
JobsOfSlots ==
  \A s \in Slots :
    /\ slots[s].toStart >= 0 /\ IsFiniteSet(Running(s))
    /\ slots[s].remainingJobs = slots[s].toStart + Cardinality(Running(s))
BusyAreThere == \A h \in Ids : Busy(h) => Slot(h).generation = h.gen
QueuedHaveJobs == \A h \in queue : Slot(h).toStart > 0
FinishedAreGone ==
  \A i \in DOMAIN batches : LET h == batches[i].id IN
    h # NoHandle => /\ batches[i].finished => ~Live(h)
                    /\ batches[i].pushes = 0 /\ ~batches[i].finished => Slot(h).toStart > 0

LEMMA JobsParts ==
  /\ JobsCounted <=> JobsOfSlots /\ BusyAreThere /\ QueuedHaveJobs /\ FinishedAreGone
  /\ JobsCounted' <=> JobsOfSlots' /\ BusyAreThere' /\ QueuedHaveJobs' /\ FinishedAreGone'
BY DEF JobsCounted, JobsOfSlots, BusyAreThere, QueuedHaveJobs, FinishedAreGone

\* A step that keeps the jobs that are counted and the batches they are of.
JobsKept ==
  /\ SlotsKeep /\ UNCHANGED <<queue, batches, issued>>
  /\ \A s : Running(s)' = Running(s)
  /\ \A s \in Slots : Gone(s)' <=> Gone(s)
  /\ \A h : Busy(h)' <=> Busy(h)

LEMMA JobsKeptKeep ==
  ASSUME PoolTyped, FenceInv, WorkInv, JobsKept, Passes, StayNatural
  PROVE  HandlesPassed' /\ GenerationsIssued' /\ WaitsNatural' /\ JobsCounted'
<1>1. HandlesPassed' /\ WaitsNatural'
  BY DEF WorkInv, Passes, StayNatural
<1>2. UNCHANGED <<queue, batches, issued>> /\ SlotsKeep
  BY DEF JobsKept
<1>3. GenerationsIssued'
  BY <1>2 DEF WorkInv, GenerationsIssued, SlotsKeep, JobsKept
<1>4. JobsOfSlots /\ BusyAreThere /\ QueuedHaveJobs /\ FinishedAreGone
  BY JobsParts DEF WorkInv
<1>5. JobsOfSlots'
  BY <1>2, <1>4 DEF JobsOfSlots, SlotsKeep, JobsKept
<1>6. BusyAreThere'
  BY <1>2, <1>4, HandlesAreReal DEF BusyAreThere, SlotsKeep, Slot, JobsKept
<1>7. QueuedHaveJobs'
  <2>1. \A h \in queue : h.slot \in Slots
    BY HandlesAreReal DEF PoolTyped
  <2> QED BY <1>2, <1>4, <2>1 DEF QueuedHaveJobs, SlotsKeep, Slot
<1>8. FinishedAreGone'
  <2>1. SUFFICES ASSUME NEW i \in DOMAIN batches, batches[i].id # NoHandle
                 PROVE  LET h == batches[i].id IN
                        /\ batches[i].finished => ~Live(h)'
                        /\ batches[i].pushes = 0 /\ ~batches[i].finished => Slot(h)'.toStart > 0
    BY <1>2 DEF FinishedAreGone, Live, Slot
  <2>2. PICK h \in Ids : h = batches[i].id /\ h.slot \in Slots
    BY <2>1, HandleOf DEF FenceInv
  <2>3. /\ batches[i].finished => ~Live(h)
        /\ batches[i].pushes = 0 /\ ~batches[i].finished => Slot(h).toStart > 0
    BY <1>4, <2>1, <2>2 DEF FinishedAreGone
  <2> QED BY <1>2, <2>2, <2>3 DEF SlotsKeep, Live, Slot
<1> QED BY <1>1, <1>3, <1>5, <1>6, <1>7, <1>8, JobsParts

LEMMA CalmWork ==
  ASSUME PoolTyped, FenceInv, WorkInv, Calm, Passes, StayNatural
  PROVE  WorkInv'
<1>1. JobsKept
  BY CalmCounts DEF Calm, JobsKept
<1>2. WorkPending'
  BY CalmCounts DEF WorkInv, WorkPending, Calm
<1> QED BY <1>1, <1>2, JobsKeptKeep DEF WorkInv

----------------------------------------------------------------------------
(* What a step does to the calls that count, when it does not keep them *)

\* A step replaces the frame f0 of the call x by f1 and begins the call y with the
\* frame f2, as far as the calls that count go.
Recount(x, f0, f1, y, f2) ==
  /\ f0 \in CallFrames /\ f1 \in CallFrames /\ f2 \in CallFrames /\ x # y
  /\ \A F : Counting(F) =>
       /\ x \in CallsIn(F) <=> f0 \in F
       /\ y \notin CallsIn(F)
       /\ CallsIn(F)' = (CallsIn(F) \ {x}) \cup Where(x, f1, F) \cup Where(y, f2, F)

LEMMA CalledRecount ==
  ASSUME PoolInv, NEW t \in Threads, NEW g \in CallFrames, Restack(t, Len(stack[t]), <<g>>),
         NEW z \in CallFrames, Uncounted(z)
  PROVE  Recount(<<Main, 0>>, z, z, <<t, Len(stack[t]) + 1>>, g)
<1> DEFINE x == <<Main, 0>>
           y == <<t, Len(stack[t]) + 1>>
<1>1. PoolTyped
  BY DEF PoolInv
<1>2. \A F : x \notin CallsIn(F)
  BY CallsInForm
<1>3. \A F : y \notin CallsIn(F) /\ Len(stack[t]) \in Nat
  BY <1>1, InnermostIn
<1>4. \A F : CallsIn(F)' = CallsIn(F) \cup Where(y, g, F)
  BY <1>1, Push1
<1>5. x # y
  BY <1>3
<1> HIDE DEF x, y
<1>6. Recount(x, z, z, y, g)
  BY <1>2, <1>3, <1>4, <1>5 DEF Recount, Counting, Where
<1> QED BY <1>6 DEF x, y

LEMMA OwnRecount ==
  ASSUME PoolInv, NEW t \in Threads, stack[t] # <<>>, NEW z \in CallFrames, Uncounted(z)
  PROVE  LET L == Len(stack[t])
             h == Head(stack[t])
             x == <<t, L>>
             y == <<t, L + 1>>
         IN /\ Restack(t, L - 1, <<>>) => Recount(x, h, z, y, z)
            /\ \A f \in CallFrames : Restack(t, L - 1, <<f>>) => Recount(x, h, f, y, z)
            /\ \A f, g \in CallFrames : Restack(t, L - 1, <<g, f>>) => Recount(x, h, f, y, g)
<1> DEFINE L == Len(stack[t])
           h == Head(stack[t])
           x == <<t, L>>
           y == <<t, L + 1>>
<1>1. PoolTyped
  BY DEF PoolInv
<1>2. /\ L \in Nat /\ L >= 1 /\ h \in CallFrames
      /\ \A F : (x \in CallsIn(F) <=> h \in F) /\ y \notin CallsIn(F)
  BY Innermost
<1>3. x # y
  BY <1>2
<1>4. ASSUME Restack(t, L - 1, <<>>)
      PROVE  Recount(x, h, z, y, z)
  <2>1. \A F : CallsIn(F)' = CallsIn(F) \ {x}
    BY <1>1, <1>4, Pop
  <2> HIDE DEF x, y, h
  <2> QED BY <1>2, <1>3, <2>1 DEF Recount, Counting, Where
<1>5. ASSUME NEW f \in CallFrames, Restack(t, L - 1, <<f>>)
      PROVE  Recount(x, h, f, y, z)
  <2>1. \A F : CallsIn(F)' = (CallsIn(F) \ {x}) \cup Where(x, f, F)
    BY <1>1, <1>5, Replace1
  <2> HIDE DEF x, y, h
  <2> QED BY <1>2, <1>3, <2>1 DEF Recount, Counting, Where
<1>6. ASSUME NEW f \in CallFrames, NEW g \in CallFrames, Restack(t, L - 1, <<g, f>>)
      PROVE  Recount(x, h, f, y, g)
  <2>1. \A F : CallsIn(F)' = (CallsIn(F) \ {x}) \cup Where(x, f, F) \cup Where(y, g, F)
    BY <1>1, <1>6, Replace2
  <2> HIDE DEF x, y, h
  <2> QED BY <1>2, <1>3, <2>1 DEF Recount
<1> QED BY <1>4, <1>5, <1>6 DEF L, h, x, y

LEMMA RecountSets ==
  ASSUME NEW x, NEW f0, NEW f1, NEW y, NEW f2, Recount(x, f0, f1, y, f2), Uncounted(f2),
         NEW F, Counting(F)
  PROVE  /\ x \in CallsIn(F) <=> f0 \in F
         /\ (f1 \in F <=> f0 \in F) => CallsIn(F)' = CallsIn(F)
         /\ f1 \notin F => CallsIn(F)' = CallsIn(F) \ {x}
         /\ f1 \in F => CallsIn(F)' = CallsIn(F) \cup {x}
<1>1. f2 \notin F
  BY DEF Recount, Counting
<1>2. /\ x \in CallsIn(F) <=> f0 \in F
      /\ CallsIn(F)' = (CallsIn(F) \ {x}) \cup Where(x, f1, F) \cup Where(y, f2, F)
  BY DEF Recount
<1>3. PICK A, B : A = CallsIn(F) /\ B = CallsIn(F)'
  OBVIOUS
<1>4. B = (A \ {x}) \cup (IF f1 \in F THEN {x} ELSE {}) /\ (x \in A <=> f0 \in F)
  BY <1>1, <1>2, <1>3 DEF Where
<1>5. /\ (f1 \in F <=> f0 \in F) => B = A
      /\ f1 \notin F => B = A \ {x}
      /\ f1 \in F => B = A \cup {x}
  BY <1>4
<1> QED BY <1>3, <1>4, <1>5

LEMMA ReadsHandles ==
  ASSUME PoolTyped, NEW r \in Slots, NEW q \in ReadDependents(r)
  PROVE  q \in Seq(Ids)
<1>1. slots[r] \in SlotStates
  BY DEF PoolTyped
<1>2. slots[r].dependents \in Seq(Ids)
  BY <1>1 DEF SlotStates
<1>3. slots[r].dependentCount \in Int /\ Len(slots[r].dependents) \in Nat
  BY <1>1, <1>2, LenProperties DEF SlotStates
<1>4. PICK beyond \in [1 .. slots[r].dependentCount - Len(slots[r].dependents) -> Handles] :
           q = slots[r].dependents \o beyond
  BY DEF ReadDependents
<1>5. Handles \subseteq Ids
  BY PoolAssumption DEF Handles, Ids
<1>6. beyond \in Seq(Ids)
  BY <1>3, <1>5
<1> QED BY <1>2, <1>4, <1>6, ConcatProperties

\* The steps that do not keep the calls that count, and what they do.
Invalidates(t, x, h, f, y, z) ==
  /\ Recount(x, h, f, y, z) /\ Uncounted(z) /\ h.id \in Ids /\ h.id.slot \in Slots
  /\ h = Head(stack[t]) /\ stack[t] # <<>> /\ h.at = "drop" /\ f.at = "dependents" /\ f.id = h.id
  /\ f.todo \in ReadDependents(h.id.slot) /\ Restack(t, Len(stack[t]) - 1, <<f>>)
  /\ slots' = [slots EXCEPT ![h.id.slot].generation = @ + 1,
                            ![h.id.slot].dependentCount = 0,
                            ![h.id.slot].dependents = <<>>]
  /\ UNCHANGED <<free, queue, workLeft, allWork, batches, issued>>

LEMMA DropInvalidateDoes ==
  ASSUME PoolInv, NEW t \in Threads, DropInvalidate(t)
  PROVE  \E x, h, f, y, z : Invalidates(t, x, h, f, y, z)
<1> DEFINE h == Head(stack[t])
           x == <<t, Len(stack[t])>>
           y == <<t, Len(stack[t]) + 1>>
           z == Frame("unpin", Id(t), <<>>)
<1>1. /\ stack[t] # <<>> /\ h.at = "drop" /\ PoolTyped
      /\ UNCHANGED <<free, queue, workLeft, allWork, batches, issued>>
  BY DEF DropInvalidate, At, PoolInv
<1>2. Id(t) = h.id /\ h.id \in Ids /\ h.id.slot \in Slots
  BY <1>1, Innermost
<1>3. slots' = [slots EXCEPT ![h.id.slot].generation = @ + 1,
                             ![h.id.slot].dependentCount = 0,
                             ![h.id.slot].dependents = <<>>]
  BY <1>2 DEF DropInvalidate
<1>4. PICK q \in ReadDependents(h.id.slot) : Continue(t, <<Frame("dependents", h.id, q)>>)
  BY <1>2 DEF DropInvalidate
<1>5. q \in Seq(Ids)
  BY <1>1, <1>2, ReadsHandles
<1> DEFINE f == Frame("dependents", h.id, q)
<1>6. f \in CallFrames /\ f.at = "dependents" /\ f.id = h.id /\ f.todo = q
  BY <1>2, <1>5 DEF Frame, CallFrames, Points
<1>7. z \in CallFrames /\ Uncounted(z)
  BY <1>2, BarePasses DEF Points, Uncounted, CountedPoints, RunPoints, DonePoints
<1> HIDE DEF f, z
<1>8. Restack(t, Len(stack[t]) - 1, <<f>>)
  BY <1>1, <1>4, <1>6, Continued1 DEF f
<1>9. Recount(x, h, f, y, z)
  BY <1>1, <1>6, <1>7, <1>8, OwnRecount
<1>10. Invalidates(t, x, h, f, y, z)
  BY <1>1, <1>2, <1>3, <1>4, <1>6, <1>7, <1>8, <1>9 DEF Invalidates
<1> QED BY <1>10

\* The innermost call h goes on with f, or ends (f does not count).
GoesOn(t, x, h, f, y, z) ==
  /\ Recount(x, h, f, y, z) /\ Uncounted(z) /\ h.id \in Ids /\ h.id.slot \in Slots
  /\ h = Head(stack[t]) /\ stack[t] # <<>>

LEMMA DropFenceDoes ==
  ASSUME PoolInv, NEW t \in Threads, DropFence(t)
  PROVE  /\ \E x, h, f, y, z :
              /\ GoesOn(t, x, h, f, y, z)
              /\ h.at = "dependents" /\ f.at = "reclaim" /\ f.id = h.id
              /\ workLeft' = workLeft - (IF slots[h.id.slot].fence THEN 1 ELSE 0)
         /\ UNCHANGED <<slots, free, queue, allWork, batches, issued>>
         /\ NoStray => NoStray'
<1> DEFINE h == Head(stack[t])
           x == <<t, Len(stack[t])>>
           y == <<t, Len(stack[t]) + 1>>
           z == Frame("unpin", Id(t), <<>>)
           f == Frame("reclaim", Id(t), <<>>)
<1>1. /\ stack[t] # <<>> /\ h.at = "dependents" /\ PoolTyped /\ Continue(t, <<f>>)
      /\ UNCHANGED <<slots, free, queue, allWork, batches, issued>>
  BY DEF DropFence, At, PoolInv
<1>2. Id(t) = h.id /\ h.id \in Ids /\ h.id.slot \in Slots
  BY <1>1, Innermost
<1>3. /\ f \in CallFrames /\ f.at = "reclaim" /\ f.id = h.id
      /\ h.id \in Handles => f \notin StrayFrames
  BY <1>2, BarePasses DEF Points
<1>4. z \in CallFrames /\ Uncounted(z)
  BY <1>2, BarePasses DEF Points, Uncounted, CountedPoints, RunPoints, DonePoints
<1>5. workLeft' = workLeft - (IF slots[h.id.slot].fence THEN 1 ELSE 0)
  BY <1>2 DEF DropFence, Slot
<1> HIDE DEF f, z
<1>6. Restack(t, Len(stack[t]) - 1, <<f>>)
  BY <1>1, <1>3, Continued1
<1>7. Recount(x, h, f, y, z)
  BY <1>1, <1>3, <1>4, <1>6, OwnRecount
<1>8. NoStray => NoStray'
  BY <1>1, <1>3, <1>6, OwnHandles, CountsOfOwn
<1>9. GoesOn(t, x, h, f, y, z)
  BY <1>1, <1>2, <1>4, <1>7 DEF GoesOn
<1> QED BY <1>1, <1>3, <1>5, <1>8, <1>9

\* The innermost call ends.
LEMMA CallEnds ==
  ASSUME PoolInv, NEW t \in Threads, stack[t] # <<>>, Continue(t, <<>>)
  PROVE  /\ \E x, y, z : GoesOn(t, x, Head(stack[t]), z, y, z)
         /\ NoStray => NoStray'
         /\ Uncounted(Head(stack[t])) => CountsKeptBy
<1> DEFINE h == Head(stack[t])
           x == <<t, Len(stack[t])>>
           y == <<t, Len(stack[t]) + 1>>
           z == Frame("unpin", Id(t), <<>>)
<1>1. Id(t) = h.id /\ h.id \in Ids /\ h.id.slot \in Slots /\ PoolTyped
  BY Innermost DEF PoolInv
<1>2. z \in CallFrames /\ Uncounted(z)
  BY <1>1, BarePasses DEF Points, Uncounted, CountedPoints, RunPoints, DonePoints
<1> HIDE DEF z
<1>3. Restack(t, Len(stack[t]) - 1, <<>>)
  BY <1>1, Continued0
<1>4. Recount(x, h, z, y, z)
  BY <1>2, <1>3, OwnRecount
<1>5. (NoStray => NoStray') /\ (Uncounted(h) => CountsKeptBy)
  BY <1>2, <1>3, CountsOfOwn
<1>6. GoesOn(t, x, h, z, y, z)
  BY <1>1, <1>2, <1>4 DEF GoesOn
<1> QED BY <1>5, <1>6

----------------------------------------------------------------------------
(* The fence of the main thread *)

LEMMA FencedFinite == IsFiniteSet(Fenced) /\ Cardinality(Fenced) \in Nat
<1>1. IsFiniteSet(Slots)
  BY PoolAssumption, FS_Interval DEF Slots
<1>2. Fenced \subseteq Slots
  BY DEF Fenced
<1> QED BY <1>1, <1>2, FS_Subset, FS_CardinalityType

LEMMA LeakedNatural ==
  ASSUME batches \in Seq(BatchStates)
  PROVE  /\ IsFiniteSet(Failed) /\ Failed \subseteq DOMAIN batches
         /\ Leaked \in Nat /\ WorkLeaked \in Nat
         /\ IsFiniteSet(DOMAIN batches) /\ Cardinality(DOMAIN batches) = Len(batches)
         /\ IsFiniteSet(Active) /\ Cardinality(Active) \in Nat
<1>1. Len(batches) \in Nat /\ DOMAIN batches = 1 .. Len(batches)
  BY LenProperties
<1>2. IsFiniteSet(DOMAIN batches) /\ Cardinality(DOMAIN batches) = Len(batches)
  <2>1. PICK n \in Nat : n = Len(batches)
    BY <1>1
  <2>2. IsFiniteSet(1 .. n) /\ Cardinality(1 .. n) = n
    BY FS_Interval
  <2> QED BY <1>1, <2>1, <2>2
<1>3. Failed \subseteq DOMAIN batches /\ IsFiniteSet(Failed)
  BY <1>2, FS_Subset DEF Failed
<1>4. Leaked \in Nat /\ WorkLeaked \in Nat
  <2> DEFINE A == {i \in Failed : batches[i].fence}
             B == {i \in Failed : batches[i].deps # {}}
  <2>1. A \subseteq Failed /\ B \subseteq Failed
    OBVIOUS
  <2> HIDE DEF A, B
  <2>2. Cardinality(A) \in Nat /\ Cardinality(B) \in Nat
    BY <1>3, <2>1, FS_Subset, FS_CardinalityType
  <2> QED BY <2>2 DEF A, B, Leaked, WorkLeaked
<1>5. IsFiniteSet(Active) /\ Cardinality(Active) \in Nat
  <2>1. Active \subseteq DOMAIN batches
    BY DEF Active
  <2> QED BY <1>2, <2>1, FS_Subset, FS_CardinalityType
<1> QED BY <1>2, <1>3, <1>4, <1>5

\* A step that leaves the fences, the free list and the calls that put slots there.
FencesUntouched ==
  /\ batches' \in Seq(BatchStates) /\ Leaked' = Leaked /\ UNCHANGED <<free, workLeft>>
  /\ \A s \in Slots : /\ slots'[s].fence = slots[s].fence
                      /\ CallsIn(ReclaimFrames(s))' = CallsIn(ReclaimFrames(s))

LEMMA UntouchedFences ==
  ASSUME FenceInv, FencesUntouched
  PROVE  FenceInv'
<1>1. Fenced' = Fenced
  BY DEF FencesUntouched, Fenced, Listed
<1> QED BY <1>1 DEF FenceInv, FencesUntouched

LEMMA BatchesSame ==
  ASSUME UNCHANGED batches
  PROVE  Leaked' = Leaked /\ WorkLeaked' = WorkLeaked /\ Active' = Active
BY DEF Leaked, WorkLeaked, Active, Failed

LEMMA ReclaimKept ==
  ASSUME NEW x, NEW f0, NEW f1, NEW y, NEW f2, Recount(x, f0, f1, y, f2),
         f0.at # "reclaim", f1.at # "reclaim", f2.at # "reclaim"
  PROVE  \A s : CallsIn(ReclaimFrames(s))' = CallsIn(ReclaimFrames(s))
<1> SUFFICES ASSUME NEW s
             PROVE  CallsIn(ReclaimFrames(s))' = CallsIn(ReclaimFrames(s))
  OBVIOUS
<1> DEFINE F == ReclaimFrames(s)
<1>1. Counting(F)
  BY SetsCount
<1>2. f0 \notin F /\ f1 \notin F /\ f2 \notin F
  BY DEF ReclaimFrames
<1> HIDE DEF F
<1>3. /\ x \notin CallsIn(F)
      /\ CallsIn(F)' = (CallsIn(F) \ {x}) \cup Where(x, f1, F) \cup Where(y, f2, F)
  BY <1>1, <1>2 DEF Recount
<1>4. CallsIn(F)' = CallsIn(F)
  BY <1>2, <1>3 DEF Where
<1> QED BY <1>4 DEF F

\* What is counted of a slot is not what a drop clears.
LEMMA InvalidCounts ==
  ASSUME PoolTyped, NEW r \in Slots,
         slots' = [slots EXCEPT ![r].generation = @ + 1, ![r].dependentCount = 0,
                                ![r].dependents = <<>>]
  PROVE  /\ \A s \in Slots : /\ slots'[s].fence = slots[s].fence
                             /\ slots'[s].toStart = slots[s].toStart
                             /\ slots'[s].remainingJobs = slots[s].remainingJobs
                             /\ slots'[s].dependencyCount = slots[s].dependencyCount
                             /\ s # r => slots'[s] = slots[s]
         /\ slots'[r].generation = slots[r].generation + 1 /\ slots'[r].dependents = <<>>
<1> DEFINE none == <<>>
<1>1. PICK e \in SlotStates : e = slots[r]
  BY DEF PoolTyped
<1>2. PICK v : v = [e EXCEPT !.generation = @ + 1, !.dependentCount = 0, !.dependents = none]
  OBVIOUS
<1>3. slots' = [slots EXCEPT ![r] = v]
  BY <1>1, <1>2 DEF PoolTyped
<1> HIDE DEF none
<1>4. slots'[r] = v /\ \A s \in Slots : s # r => slots'[s] = slots[s]
  BY <1>3 DEF PoolTyped
<1>5. /\ v.fence = e.fence /\ v.toStart = e.toStart /\ v.remainingJobs = e.remainingJobs
      /\ v.dependencyCount = e.dependencyCount
      /\ v.generation = e.generation + 1 /\ v.dependents = none
  BY ONLY <1>2, e \in SlotStates DEF SlotStates
<1> QED BY <1>1, <1>4, <1>5 DEF none

LEMMA DropInvalidateFences ==
  ASSUME PoolInv, FenceInv, NEW t \in Threads, DropInvalidate(t) PROVE FenceInv'
<1>1. PICK x, h, f, y, z : Invalidates(t, x, h, f, y, z)
  BY DropInvalidateDoes
<1>2. \A s : CallsIn(ReclaimFrames(s))' = CallsIn(ReclaimFrames(s))
  <2>1. f.at # "reclaim" /\ h.at # "reclaim" /\ z.at # "reclaim"
    BY <1>1 DEF Invalidates, Uncounted, CountedPoints
  <2> QED BY <1>1, <2>1, ReclaimKept DEF Invalidates
<1>3. PICK r \in Slots : r = h.id.slot
  BY <1>1 DEF Invalidates
<1>4. \A s \in Slots : slots'[s].fence = slots[s].fence
  <2>1. slots' = [slots EXCEPT ![r].generation = @ + 1, ![r].dependentCount = 0,
                               ![r].dependents = <<>>]
    BY <1>1, <1>3 DEF Invalidates
  <2> QED BY <2>1, InvalidCounts DEF PoolInv
<1>5. UNCHANGED <<free, workLeft, batches>>
  BY <1>1 DEF Invalidates
<1>6. FencesUntouched
  BY <1>2, <1>4, <1>5, BatchesSame DEF FencesUntouched, FenceInv
<1> QED BY <1>6, UntouchedFences

\* The calls that drop the batch in a slot, and those that put it into the free list.
LEMMA ReclaimersDrop ==
  ASSUME PoolInv, NEW s \in Slots
  PROVE  CallsIn(ReclaimFrames(s)) \subseteq CallsIn(ReleaseFrames(s))
         /\ CallsIn(ReleaseFrames(s)) \subseteq Droppers(s)
<1>1. PoolTyped
  BY DEF PoolInv
<1>2. \A f \in ReclaimFrames(s) : f \in ReleaseFrames(s)
  BY DEF ReclaimFrames, ReleaseFrames, ReleasePoints
<1>3. \A f \in ReleaseFrames(s) : f \in DropFrames(s)
  BY DEF ReleaseFrames, DropFrames, ReleasePoints, DropPoints
<1> QED BY <1>1, <1>2, <1>3, RefsForm DEF CallsIn

LEMMA DropFenceFences ==
  ASSUME PoolInv, FenceInv, NEW t \in Threads, DropFence(t) PROVE FenceInv'
<1>1. UNCHANGED <<slots, free, queue, allWork, batches, issued>>
  BY DropFenceDoes
<1>2. PICK x, h, f, y, z :
        /\ GoesOn(t, x, h, f, y, z)
        /\ h.at = "dependents" /\ f.at = "reclaim" /\ f.id = h.id
        /\ workLeft' = workLeft - (IF slots[h.id.slot].fence THEN 1 ELSE 0)
  BY DropFenceDoes
<1>3. PICK r \in Slots : r = h.id.slot
  BY <1>2 DEF GoesOn
<1>4. h \in CallFrames /\ f \in CallFrames
  BY <1>2 DEF GoesOn, Recount
<1>5. /\ f \in ReclaimFrames(r) /\ h \notin ReclaimFrames(r) /\ h \in ReleaseFrames(r)
      /\ \A s \in Slots : s # r => f \notin ReclaimFrames(s)
      /\ \A s \in Slots : h \notin ReclaimFrames(s)
  BY <1>2, <1>3, <1>4 DEF ReclaimFrames, ReleaseFrames, ReleasePoints
<1>6. /\ CallsIn(ReclaimFrames(r))' = CallsIn(ReclaimFrames(r)) \cup {x}
      /\ x \notin CallsIn(ReclaimFrames(r)) /\ x \in CallsIn(ReleaseFrames(r))
      /\ \A s \in Slots : s # r => CallsIn(ReclaimFrames(s))' = CallsIn(ReclaimFrames(s))
  BY <1>2, <1>5, SetsCount, RecountSets DEF GoesOn
<1>7. CallsIn(ReclaimFrames(r)) = {} /\ ~Listed(r)
  BY <1>6, ReclaimersDrop DEF PoolInv, SlotsPlaced
<1>8. \A s : Listed(s)' <=> Listed(s)
  BY <1>1 DEF Listed
<1>9. slots[r].fence \in BOOLEAN
  BY DEF PoolInv, PoolTyped, SlotStates
<1>10. /\ r \notin Fenced' /\ (r \in Fenced <=> slots[r].fence)
       /\ \A s \in Slots : s # r => (s \in Fenced' <=> s \in Fenced)
       /\ \A s : s \in Fenced' \/ s \in Fenced => s \in Slots
  BY <1>1, <1>6, <1>7, <1>8 DEF Fenced
<1>11. Fenced' = Fenced \ {r}
  BY <1>10
<1>12. /\ slots[r].fence => Cardinality(Fenced \ {r}) = Cardinality(Fenced) - 1
       /\ ~slots[r].fence => Fenced \ {r} = Fenced
  <2>1. slots[r].fence => Cardinality(Fenced \ {r}) = Cardinality(Fenced) - 1
    BY <1>10, FencedFinite, FS_RemoveElement
  <2>2. ~slots[r].fence => Fenced \ {r} = Fenced
    BY <1>10
  <2> QED BY <2>1, <2>2
<1>13. batches' \in Seq(BatchStates) /\ Leaked' = Leaked
  BY <1>1, BatchesSame DEF FenceInv
<1>14. workLeft = Leaked + Cardinality(Fenced)
  BY DEF FenceInv
<1>15. workLeft' = Leaked + Cardinality(Fenced \ {r})
  <2>1. PICK a \in Nat, c \in Nat : a = Leaked /\ c = Cardinality(Fenced)
    BY FencedFinite, LeakedNatural DEF FenceInv
  <2>2. CASE slots[r].fence
    <3>1. workLeft' = (a + c) - 1 /\ Cardinality(Fenced \ {r}) = c - 1
      BY <1>2, <1>3, <1>12, <1>14, <2>1, <2>2
    <3> QED BY <2>1, <3>1
  <2>3. CASE ~slots[r].fence
    <3>1. workLeft' = (a + c) - 0 /\ Cardinality(Fenced \ {r}) = c
      BY <1>2, <1>3, <1>12, <1>14, <2>1, <2>3
    <3> QED BY <2>1, <3>1
  <2> QED BY <2>2, <2>3
<1> QED BY <1>11, <1>13, <1>15 DEF FenceInv

LEMMA DropReclaimFences ==
  ASSUME PoolInv, FenceInv, NEW t \in Threads, DropReclaim(t) PROVE FenceInv'
<1> DEFINE h == Head(stack[t])
<1>1. /\ stack[t] # <<>> /\ h.at = "reclaim" /\ free' = <<Id(t).slot>> \o free
      /\ Continue(t, <<>>) /\ UNCHANGED <<slots, queue, workLeft, allWork, batches, issued>>
  BY DEF DropReclaim, At
<1>2. PICK x, y, z : GoesOn(t, x, h, z, y, z)
  BY <1>1, CallEnds
<1>3. PICK r \in Slots : r = h.id.slot /\ r = Id(t).slot
  BY <1>1, Innermost
<1> HIDE DEF h
<1>4. h \in CallFrames /\ z \in CallFrames /\ Uncounted(z)
  BY <1>2 DEF GoesOn, Recount
<1>5. /\ h \in ReclaimFrames(r) /\ \A s \in Slots : z \notin ReclaimFrames(s)
      /\ \A s \in Slots : s # r => h \notin ReclaimFrames(s)
  BY <1>1, <1>3, <1>4 DEF ReclaimFrames, Uncounted, CountedPoints
<1>6. /\ x \in CallsIn(ReclaimFrames(r))
      /\ \A s \in Slots : s # r => CallsIn(ReclaimFrames(s))' = CallsIn(ReclaimFrames(s))
  BY <1>2, <1>5, SetsCount, RecountSets DEF GoesOn
<1>7. /\ \A i \in DOMAIN free' : \/ i = 1 /\ free'[i] = r
                                 \/ i - 1 \in DOMAIN free /\ free'[i] = free[i - 1]
      /\ 1 \in DOMAIN free' /\ free'[1] = r
      /\ \A i \in DOMAIN free : i + 1 \in DOMAIN free' /\ free'[i + 1] = free[i]
  BY <1>1, <1>3, Prepended DEF PoolInv, PoolTyped
<1>8. Listed(r)' /\ \A s : s # r => (Listed(s)' <=> Listed(s))
  BY <1>7 DEF Listed
<1>9. r \notin Fenced /\ r \notin Fenced' /\ \A s \in Slots : s # r => (s \in Fenced' <=> s \in Fenced)
  BY <1>1, <1>6, <1>8 DEF Fenced
<1>10. \A s : s \in Fenced' \/ s \in Fenced => s \in Slots
  BY DEF Fenced
<1>11. Fenced' = Fenced
  BY <1>9, <1>10
<1> QED BY <1>1, <1>11, BatchesSame DEF FenceInv

\* The recording of what becomes of a batch.
LEMMA Recorded ==
  ASSUME batches \in Seq(BatchStates), NEW d \in Ids, NEW field \in {"pushes", "finished"},
         NEW v, Record(d, field, v),
         \A i \in DOMAIN batches :
           batches[i].id = d => /\ field = "pushes" => v \in Nat
                                /\ field = "finished" => v \in BOOLEAN
  PROVE  /\ batches' \in Seq(BatchStates) /\ DOMAIN batches' = DOMAIN batches
         /\ Len(batches') = Len(batches)
         /\ \A i \in DOMAIN batches :
              /\ batches'[i].id = batches[i].id /\ batches'[i].deps = batches[i].deps
              /\ batches'[i].fence = batches[i].fence
              /\ field = "pushes" => batches'[i].finished = batches[i].finished
              /\ field = "finished" => batches'[i].pushes = batches[i].pushes
              /\ batches[i].id # d => batches'[i] = batches[i]
              /\ batches[i].id = d => /\ field = "pushes" => batches'[i].pushes = v
                                      /\ field = "finished" => batches'[i].finished = v
         /\ Leaked' = Leaked /\ WorkLeaked' = WorkLeaked
<1>1. /\ Len(batches) \in Nat /\ DOMAIN batches = 1 .. Len(batches)
      /\ \A i \in DOMAIN batches : batches[i] \in BatchStates
  BY LenProperties
<1>2. batches' = [i \in DOMAIN batches |->
                    IF batches[i].id = d THEN [batches[i] EXCEPT ![field] = v] ELSE batches[i]]
  BY DEF Record
<1>3. ASSUME NEW i \in DOMAIN batches
      PROVE  /\ batches'[i] \in BatchStates
             /\ batches'[i].id = batches[i].id /\ batches'[i].deps = batches[i].deps
             /\ batches'[i].fence = batches[i].fence
             /\ field = "pushes" => batches'[i].finished = batches[i].finished
             /\ field = "finished" => batches'[i].pushes = batches[i].pushes
             /\ batches[i].id # d => batches'[i] = batches[i]
             /\ batches[i].id = d => /\ field = "pushes" => batches'[i].pushes = v
                                     /\ field = "finished" => batches'[i].finished = v
  <2>1. CASE batches[i].id = d
    <3>1. PICK e \in BatchStates : e = batches[i]
      BY <1>1
    <3>2. PICK w : w = [e EXCEPT ![field] = v]
      OBVIOUS
    <3>3. batches'[i] = w
      BY <1>2, <2>1, <3>1, <3>2
    <3>4. /\ field \in {"pushes", "finished"} /\ e \in BatchStates
          /\ field = "pushes" => v \in Nat
          /\ field = "finished" => v \in BOOLEAN
      BY <2>1
    <3>5. /\ w \in BatchStates /\ w.id = e.id /\ w.deps = e.deps /\ w.fence = e.fence
          /\ field = "pushes" => w.pushes = v /\ w.finished = e.finished
          /\ field = "finished" => w.finished = v /\ w.pushes = e.pushes
      BY ONLY <3>2, <3>4 DEF BatchStates
    <3> QED BY <2>1, <3>1, <3>3, <3>5
  <2>2. CASE batches[i].id # d
    BY <1>1, <1>2, <2>2
  <2> QED BY <2>1, <2>2
<1>4. /\ DOMAIN batches' = DOMAIN batches /\ batches' \in Seq(BatchStates)
      /\ Len(batches') = Len(batches)
  <2>1. DOMAIN batches' = DOMAIN batches
    BY <1>2
  <2>2. batches' \in [1 .. Len(batches) -> BatchStates]
    BY <1>1, <1>2, <1>3
  <2>3. batches' \in Seq(BatchStates)
    BY <1>1, <2>2
  <2>4. Len(batches') \in Nat /\ DOMAIN batches' = 1 .. Len(batches')
    BY <2>3, LenProperties
  <2> QED BY <1>1, <2>1, <2>2, <2>3, <2>4
<1>5. Failed' = Failed /\ \A i \in Failed : /\ batches'[i].fence = batches[i].fence
                                            /\ batches'[i].deps = batches[i].deps
  BY <1>3, <1>4 DEF Failed
<1>6. /\ {i \in Failed' : batches'[i].fence} = {i \in Failed : batches[i].fence}
      /\ {i \in Failed' : batches'[i].deps # {}} = {i \in Failed : batches[i].deps # {}}
  BY <1>5
<1>7. Leaked' = Leaked /\ WorkLeaked' = WorkLeaked
  BY <1>6 DEF Leaked, WorkLeaked
<1> QED BY <1>3, <1>4, <1>7

LEMMA PushesNatural ==
  ASSUME batches \in Seq(BatchStates), NEW d, NEW i \in DOMAIN batches, batches[i].id = d
  PROVE  Pushes(d) \in Nat /\ \E k \in DOMAIN batches : batches[k].id = d /\ Pushes(d) = batches[k].pushes
<1> DEFINE k == CHOOSE k \in DOMAIN batches : batches[k].id = d
<1>1. k \in DOMAIN batches /\ batches[k].id = d
  OBVIOUS
<1>2. batches[k] \in BatchStates
  BY <1>1, HandleOf
<1>3. Pushes(d) = batches[k].pushes
  BY DEF Pushes
<1> HIDE DEF k
<1> QED BY <1>1, <1>2, <1>3 DEF BatchStates

LEMMA PushDoes ==
  ASSUME PoolInv, NEW t \in Threads, Push(t)
  PROVE  /\ stack[t] # <<>> /\ Head(stack[t]).at = "push" /\ Head(stack[t]).id \in Ids
         /\ CountsKeptBy /\ (NoStray => NoStray')
         /\ UNCHANGED <<slots, free, workLeft, issued>>
         /\ \/ /\ Cardinality(queue) < QueueSize /\ UNCHANGED allWork
               /\ queue' = queue \cup {Head(stack[t]).id}
               /\ Record(Head(stack[t]).id, "pushes", Pushes(Head(stack[t]).id) + 1)
            \/ /\ ~(Cardinality(queue) < QueueSize) /\ allWork' = allWork - 1
               /\ UNCHANGED <<queue, batches>>
<1> DEFINE h == Head(stack[t])
<1>1. /\ stack[t] # <<>> /\ h.at = "push" /\ Continue(t, <<>>)
      /\ UNCHANGED <<slots, free, workLeft, issued>>
  BY DEF Push, At
<1>2. Id(t) = h.id /\ h.id \in Ids
  BY <1>1, Innermost
<1>3. Uncounted(h)
  BY <1>1 DEF Uncounted, CountedPoints, RunPoints, DonePoints
<1> QED BY <1>1, <1>2, <1>3, CallEnds DEF Push

LEMMA PushFences == ASSUME PoolInv, FenceInv, NEW t \in Threads, Push(t) PROVE FenceInv'
<1>1. /\ CountsKeptBy /\ Head(stack[t]).id \in Ids /\ UNCHANGED <<slots, free, workLeft, issued>>
  BY PushDoes
<1>2. PICK d \in Ids : d = Head(stack[t]).id
  BY <1>1
<1>3. Record(d, "pushes", Pushes(d) + 1) \/ UNCHANGED batches
  BY <1>2, PushDoes
<1>4. batches' \in Seq(BatchStates) /\ Leaked' = Leaked
  <2>1. CASE UNCHANGED batches
    BY <2>1, BatchesSame DEF FenceInv
  <2>2. CASE Record(d, "pushes", Pushes(d) + 1)
    <3>1. \A i \in DOMAIN batches : batches[i].id = d => Pushes(d) + 1 \in Nat
      BY PushesNatural DEF FenceInv
    <3> QED BY <2>2, <3>1, Recorded DEF FenceInv
  <2> QED BY <1>3, <2>1, <2>2
<1>5. \A s : CallsIn(ReclaimFrames(s))' = CallsIn(ReclaimFrames(s))
  BY <1>1, SetsCount DEF CountsKeptBy
<1> QED BY <1>1, <1>4, <1>5, UntouchedFences DEF FencesUntouched

----------------------------------------------------------------------------
(* What the steps of a job and of a submission do *)

LEMMA BeginSets ==
  ASSUME NEW x, NEW z, NEW y, NEW f, Recount(x, z, z, y, f), Uncounted(z),
         NEW F, Counting(F)
  PROVE  /\ y \notin CallsIn(F)
         /\ f \notin F => CallsIn(F)' = CallsIn(F)
         /\ f \in F => CallsIn(F)' = CallsIn(F) \cup {y}
<1>1. z \notin F
  BY DEF Recount, Counting
<1>2. /\ x \notin CallsIn(F) /\ y \notin CallsIn(F)
      /\ CallsIn(F)' = (CallsIn(F) \ {x}) \cup Where(x, z, F) \cup Where(y, f, F)
  BY <1>1 DEF Recount
<1>3. PICK A, B : A = CallsIn(F) /\ B = CallsIn(F)'
  OBVIOUS
<1>4. x \notin A /\ y \notin A /\ B = (A \ {x}) \cup (IF f \in F THEN {y} ELSE {})
  BY <1>1, <1>2, <1>3 DEF Where
<1>5. /\ f \notin F => B = A
      /\ f \in F => B = A \cup {y}
  BY <1>4
<1> QED BY <1>3, <1>4, <1>5

\* A job of batch d is begun.
Starts(t, d, x, y, z, f) ==
  /\ Recount(x, z, z, y, f) /\ Uncounted(z) /\ f.at = "job" /\ f.id = d
  /\ d \in queue /\ d \in Ids /\ d.slot \in Slots
  /\ Set(d.slot, "toStart", Slot(d).toStart - 1)
  /\ queue' = IF Slot(d).toStart = 1 THEN queue \ {d} ELSE queue
  /\ UNCHANGED <<free, workLeft, allWork, batches, issued>>
  /\ NoStray /\ d \in Handles => NoStray'

LEMMA StartJobDoes ==
  ASSUME PoolInv, NEW t \in Threads, StartJob(t)
  PROVE  \E d, x, y, z, f : Starts(t, d, x, y, z, f)
<1>1. /\ stack[t] = <<>> /\ PoolTyped /\ UNCHANGED <<free, workLeft, allWork, batches, issued>>
  BY DEF StartJob, PoolInv
<1>2. PICK d \in queue :
        /\ Set(d.slot, "toStart", Slot(d).toStart - 1)
        /\ queue' = IF Slot(d).toStart = 1 THEN queue \ {d} ELSE queue
        /\ stack' = [stack EXCEPT ![t] = <<Frame("job", d, <<>>)>>]
  BY DEF StartJob
<1>3. d \in Ids /\ d.slot \in Slots
  BY <1>1 DEF PoolTyped, Ids
<1> DEFINE f == Frame("job", d, <<>>)
           z == Frame("unpin", d, <<>>)
           x == <<Main, 0>>
           y == <<t, Len(stack[t]) + 1>>
<1>4. /\ f \in CallFrames /\ f.at = "job" /\ f.id = d /\ (d \in Handles => f \notin StrayFrames)
      /\ z \in CallFrames /\ z.at = "unpin"
  BY <1>3, BarePasses DEF Points
<1>5. stack' = [stack EXCEPT ![t] = <<f>> \o @]
  <2>1. stack[t] \in Seq(CallFrames) /\ <<f>> \in Seq(CallFrames)
    BY <1>1, <1>4 DEF PoolTyped
  <2>2. <<f>> \o stack[t] = <<f>>
    BY <1>1, <2>1, ConcatEmptySeq
  <2> QED BY <1>1, <1>2, <2>2
<1> HIDE DEF f, z
<1>6. Restack(t, Len(stack[t]), <<f>>)
  BY <1>1, <1>4, <1>5, Called
<1>7. Uncounted(z)
  BY <1>4 DEF Uncounted, CountedPoints, RunPoints, DonePoints
<1>8. Recount(x, z, z, y, f)
  BY <1>4, <1>6, <1>7, CalledRecount
<1>9. NoStray /\ d \in Handles => NoStray'
  BY <1>4, <1>6, CountsOfOwn
<1> HIDE DEF x, y
<1>10. Starts(t, d, x, y, z, f)
  BY <1>1, <1>2, <1>3, <1>4, <1>7, <1>8, <1>9 DEF Starts
<1> QED BY <1>10

LEMMA FinishJobDoes ==
  ASSUME PoolInv, NEW t \in Threads, FinishJob(t)
  PROVE  LET h == Head(stack[t]) IN
         /\ stack[t] # <<>> /\ h.at = "job" /\ h \in CallFrames /\ h.id \in Ids
         /\ UNCHANGED <<free, queue, workLeft, allWork, batches, issued>>
         /\ NoStray => NoStray'
         /\ \/ CountsKeptBy /\ Set(h.id.slot, "refCount", Slot(h.id).refCount + 1)
            \/ /\ ~(Slot(h.id).generation = h.id.gen /\ Slot(h.id).refCount > 0)
               /\ UNCHANGED slots /\ \E x, y, z : GoesOn(t, x, h, z, y, z)
<1> DEFINE h == Head(stack[t])
           f == Frame("signal", Id(t), <<>>)
<1>1. /\ stack[t] # <<>> /\ h.at = "job" /\ PoolTyped
      /\ UNCHANGED <<free, queue, workLeft, allWork, batches, issued>>
  BY DEF FinishJob, At, PoolInv
<1>2. Id(t) = h.id /\ h \in CallFrames /\ h.id \in Ids
  BY <1>1, Innermost
<1>3. /\ f \in CallFrames /\ f.at = "signal" /\ f.id = h.id
      /\ h.id \in Handles => f \notin StrayFrames
  BY <1>2, BarePasses DEF Points
<1>4. \/ Continue(t, <<f>>) /\ Set(h.id.slot, "refCount", Slot(h.id).refCount + 1)
      \/ /\ ~(Slot(h.id).generation = h.id.gen /\ Slot(h.id).refCount > 0)
         /\ Continue(t, <<>>) /\ UNCHANGED slots
  BY <1>2 DEF FinishJob
<1> HIDE DEF f
<1>5. CASE Continue(t, <<f>>) /\ Set(h.id.slot, "refCount", Slot(h.id).refCount + 1)
  <2>1. Restack(t, Len(stack[t]) - 1, <<f>>)
    BY <1>1, <1>3, <1>5, Continued1
  <2>2. AlikeCounts(h, f)
    BY <1>1, <1>3 DEF AlikeCounts, CountAlike, RunPoints
  <2>3. CountsKeptBy /\ (NoStray => NoStray')
    BY <1>1, <1>3, <2>1, <2>2, OwnHandles, CountsOfOwn
  <2> QED BY <1>1, <1>2, <1>5, <2>3
<1>6. CASE /\ ~(Slot(h.id).generation = h.id.gen /\ Slot(h.id).refCount > 0)
           /\ Continue(t, <<>>) /\ UNCHANGED slots
  BY <1>1, <1>2, <1>6, CallEnds
<1> QED BY <1>4, <1>5, <1>6

LEMMA SignalCompleteDoes ==
  ASSUME PoolInv, NEW t \in Threads, SignalComplete(t)
  PROVE  LET h == Head(stack[t])
             n == slots[h.id.slot].remainingJobs - 1
         IN
         /\ stack[t] # <<>> /\ h.at = "signal" /\ h \in CallFrames /\ h.id \in Ids
         /\ h.id.slot \in Slots /\ Slot(h.id).generation = h.id.gen
         /\ Set(h.id.slot, "remainingJobs", n)
         /\ UNCHANGED <<free, queue, workLeft, allWork, issued>>
         /\ NoStray => NoStray'
         /\ \/ n # 0 /\ UNCHANGED batches /\ \E x, y, z : GoesOn(t, x, h, z, y, z)
            \/ /\ n = 0 /\ Record(h.id, "finished", TRUE)
               /\ \E x, f, y, z : GoesOn(t, x, h, f, y, z) /\ f.at = "complete"
<1> DEFINE h == Head(stack[t])
           L == Len(stack[t])
<1>1. /\ stack[t] # <<>> /\ h.at = "signal" /\ PoolTyped
      /\ UNCHANGED <<free, queue, workLeft, allWork, issued>>
  BY DEF SignalComplete, At, PoolInv
<1>2. PICK d \in Ids : d = h.id
  BY <1>1, Innermost
<1>3. Id(t) = d /\ h \in CallFrames /\ d.slot \in Slots /\ L \in Nat /\ L >= 1 /\ h = CallAt(t, L)
  BY <1>1, <1>2, Innermost
<1> DEFINE n == slots[d.slot].remainingJobs - 1
           f == Frame("complete", d, <<>>)
           g == Frame("unpin", d, <<>>)
<1>4. /\ Set(d.slot, "remainingJobs", n)
      /\ Continue(t, <<g>> \o (IF n = 0 THEN <<f>> ELSE <<>>))
      /\ IF n = 0 THEN Record(d, "finished", TRUE) ELSE UNCHANGED batches
  BY <1>3 DEF SignalComplete, Slot
<1>5. /\ f \in CallFrames /\ f.at = "complete" /\ (d \in Handles => f \notin StrayFrames)
      /\ g \in CallFrames /\ g.at = "unpin" /\ (d \in Handles => g \notin StrayFrames)
  BY BarePasses DEF Points
<1>6. Slot(d).generation = d.gen
  <2>1. L \in 1 .. Len(stack[t])
    BY <1>3
  <2>2. CallAt(t, L).at = "signal" /\ CallAt(t, L).id = d
    BY <1>1, <1>2, <1>3
  <2> HIDE DEF L
  <2> QED BY <2>1, <2>2, HeldByCall
<1> HIDE DEF f, g
<1>7. <<g>> \o <<f>> = <<g, f>> /\ <<g>> \o <<>> = <<g>>
  BY <1>5, Joined
<1>8. Uncounted(g)
  BY <1>5 DEF Uncounted, CountedPoints, RunPoints, DonePoints
<1>9. NoStray => d \in Handles
  BY <1>1, <1>2, OwnHandles
<1>10. CASE n = 0
  <2>1. Continue(t, <<g, f>>)
    BY <1>4, <1>7, <1>10
  <2>2. Restack(t, L - 1, <<g, f>>)
    BY <1>1, <1>5, <2>1, Continued2
  <2>3. Recount(<<t, L>>, h, f, <<t, L + 1>>, g)
    BY <1>1, <1>5, <1>8, <2>2, OwnRecount
  <2>4. NoStray => NoStray'
    BY <1>1, <1>5, <1>9, <2>2, CountsOfOwn
  <2>5. GoesOn(t, <<t, L>>, h, f, <<t, L + 1>>, g)
    BY <1>1, <1>2, <1>3, <1>8, <2>3 DEF GoesOn
  <2> HIDE DEF h, L
  <2> QED BY <1>1, <1>2, <1>3, <1>4, <1>5, <1>6, <1>10, <2>4, <2>5 DEF h
<1>11. CASE n # 0
  <2>1. Continue(t, <<g>>)
    BY <1>4, <1>7, <1>11
  <2>2. Restack(t, L - 1, <<g>>)
    BY <1>1, <1>5, <2>1, Continued1
  <2>3. Recount(<<t, L>>, h, g, <<t, L + 1>>, g)
    BY <1>1, <1>5, <1>8, <2>2, OwnRecount
  <2>4. NoStray => NoStray'
    BY <1>1, <1>5, <1>9, <2>2, CountsOfOwn
  <2>5. GoesOn(t, <<t, L>>, h, g, <<t, L + 1>>, g)
    BY <1>1, <1>2, <1>3, <1>8, <2>3 DEF GoesOn
  <2> HIDE DEF h, L
  <2> QED BY <1>1, <1>2, <1>3, <1>4, <1>6, <1>11, <2>4, <2>5 DEF h
<1> QED BY <1>10, <1>11

LEMMA StartJobFences == ASSUME PoolInv, FenceInv, NEW t \in Threads, StartJob(t) PROVE FenceInv'
<1>1. PICK d, x, y, z, f : Starts(t, d, x, y, z, f)
  BY StartJobDoes
<1>2. UNCHANGED <<free, workLeft, batches>>
  BY <1>1 DEF Starts
<1>3. \A s : CallsIn(ReclaimFrames(s))' = CallsIn(ReclaimFrames(s))
  <2>1. z.at # "reclaim" /\ f.at # "reclaim"
    BY <1>1 DEF Starts, Uncounted, CountedPoints
  <2> QED BY <1>1, <2>1, ReclaimKept DEF Starts
<1>4. \A s \in Slots : slots'[s].fence = slots[s].fence
  <2>1. PICK r \in Slots, v \in Int : Set(r, "toStart", v) /\ r = d.slot
    <3>1. d.slot \in Slots /\ Slot(d).toStart \in Int
      BY <1>1 DEF Starts, PoolInv, PoolTyped, SlotStates, Slot
    <3> QED BY <1>1, <3>1 DEF Starts
  <2> QED BY <2>1, CountSet DEF PoolInv
<1>5. FencesUntouched
  BY <1>2, <1>3, <1>4, BatchesSame DEF FencesUntouched, FenceInv
<1> QED BY <1>5, UntouchedFences

LEMMA FinishJobFences == ASSUME PoolInv, FenceInv, NEW t \in Threads, FinishJob(t) PROVE FenceInv'
<1>1. PICK h : h = Head(stack[t])
  OBVIOUS
<1>2. /\ stack[t] # <<>> /\ h.at = "job" /\ h \in CallFrames /\ h.id \in Ids
      /\ UNCHANGED <<free, queue, workLeft, allWork, batches, issued>>
      /\ \/ CountsKeptBy /\ Set(h.id.slot, "refCount", Slot(h.id).refCount + 1)
         \/ UNCHANGED slots /\ \E x, y, z : GoesOn(t, x, h, z, y, z)
  BY <1>1, FinishJobDoes
<1>3. \A s : CallsIn(ReclaimFrames(s))' = CallsIn(ReclaimFrames(s))
  <2>1. CASE CountsKeptBy
    BY <2>1, SetsCount DEF CountsKeptBy
  <2>2. CASE \E x, y, z : GoesOn(t, x, h, z, y, z)
    <3>1. PICK x, y, z : GoesOn(t, x, h, z, y, z)
      BY <2>2
    <3>2. h.at # "reclaim" /\ z.at # "reclaim"
      BY <1>2, <3>1 DEF GoesOn, Uncounted, CountedPoints
    <3> QED BY <3>1, <3>2, ReclaimKept DEF GoesOn
  <2> QED BY <1>2, <2>1, <2>2
<1>4. \A s \in Slots : slots'[s].fence = slots[s].fence
  <2>1. CASE Set(h.id.slot, "refCount", Slot(h.id).refCount + 1)
    <3>1. PICK r \in Slots, v \in Int : Set(r, "refCount", v) /\ v = slots[r].refCount + 1
      <4>1. h.id.slot \in Slots
        BY <1>2, HandlesAreReal
      <4>2. Slot(h.id).refCount \in Int
        BY <4>1 DEF PoolInv, PoolTyped, SlotStates, Slot
      <4> QED BY <2>1, <4>1, <4>2 DEF Slot
    <3> QED BY <3>1, CountSet DEF PoolInv
  <2> QED BY <1>2, <2>1
<1>5. FencesUntouched
  BY <1>2, <1>3, <1>4, BatchesSame DEF FencesUntouched, FenceInv
<1> QED BY <1>5, UntouchedFences

LEMMA SignalCompleteFences ==
  ASSUME PoolInv, FenceInv, NEW t \in Threads, SignalComplete(t) PROVE FenceInv'
<1>1. PICK h, n : h = Head(stack[t]) /\ n = slots[h.id.slot].remainingJobs - 1
  OBVIOUS
<1>2. /\ h.at = "signal" /\ h \in CallFrames /\ h.id \in Ids /\ h.id.slot \in Slots
      /\ Set(h.id.slot, "remainingJobs", n)
      /\ UNCHANGED <<free, queue, workLeft, allWork, issued>>
      /\ \/ n # 0 /\ UNCHANGED batches /\ \E x, y, z : GoesOn(t, x, h, z, y, z)
         \/ /\ n = 0 /\ Record(h.id, "finished", TRUE)
            /\ \E x, f, y, z : GoesOn(t, x, h, f, y, z) /\ f.at = "complete"
  BY <1>1, SignalCompleteDoes
<1>3. PICK x, f, y, z : GoesOn(t, x, h, f, y, z) /\ f.at # "reclaim"
  <2>1. ASSUME NEW x, NEW y, NEW z, GoesOn(t, x, h, z, y, z)
        PROVE  z.at # "reclaim"
    BY <2>1 DEF GoesOn, Uncounted, CountedPoints
  <2> QED BY <1>2, <2>1
<1>4. \A s : CallsIn(ReclaimFrames(s))' = CallsIn(ReclaimFrames(s))
  <2>1. h.at # "reclaim" /\ z.at # "reclaim"
    BY <1>2, <1>3 DEF GoesOn, Uncounted, CountedPoints
  <2> QED BY <1>3, <2>1, ReclaimKept DEF GoesOn
<1>5. \A s \in Slots : slots'[s].fence = slots[s].fence
  <2>1. PICK r \in Slots : r = h.id.slot
    BY <1>2
  <2>2. Set(r, "remainingJobs", n)
    BY <1>2, <2>1
  <2>3. n \in Int
    <3>1. slots[r].remainingJobs \in Int
      BY DEF PoolInv, PoolTyped, SlotStates
    <3> QED BY <1>1, <2>1, <3>1
  <2> QED BY <2>2, <2>3, CountSet DEF PoolInv
<1>6. batches' \in Seq(BatchStates) /\ Leaked' = Leaked
  <2>1. CASE UNCHANGED batches
    BY <2>1, BatchesSame DEF FenceInv
  <2>2. CASE Record(h.id, "finished", TRUE)
    <3>1. PICK d \in Ids : d = h.id
      BY <1>2
    <3>2. Record(d, "finished", TRUE)
      BY <2>2, <3>1
    <3> QED BY <3>2, Recorded DEF FenceInv
  <2> QED BY <1>2, <2>1, <2>2
<1>7. FencesUntouched
  BY <1>2, <1>4, <1>5, <1>6 DEF FencesUntouched
<1> QED BY <1>7, UntouchedFences

LEMMA WorkDoneFences == ASSUME PoolInv, FenceInv, NEW t \in Threads, WorkDone(t) PROVE FenceInv'
<1>1. PICK h : h = Head(stack[t])
  OBVIOUS
<1>2. /\ stack[t] # <<>> /\ h.at = "workDone" /\ Continue(t, <<>>)
      /\ UNCHANGED <<slots, free, queue, workLeft, batches, issued>>
  BY <1>1 DEF WorkDone, At
<1>3. PICK x, y, z : GoesOn(t, x, h, z, y, z)
  BY <1>1, <1>2, CallEnds
<1>4. h.at # "reclaim" /\ z.at # "reclaim"
  BY <1>2, <1>3 DEF GoesOn, Uncounted, CountedPoints
<1>5. \A s : CallsIn(ReclaimFrames(s))' = CallsIn(ReclaimFrames(s))
  BY <1>3, <1>4, ReclaimKept DEF GoesOn
<1>6. FencesUntouched
  BY <1>2, <1>5, BatchesSame DEF FencesUntouched, FenceInv
<1> QED BY <1>6, UntouchedFences

\* The history gets longer by b.
LEMMA Lengthened ==
  ASSUME batches \in Seq(BatchStates), NEW b \in BatchStates, batches' = Append(batches, b)
  PROVE  LET n == Len(batches) + 1
         IN /\ batches' \in Seq(BatchStates) /\ Len(batches') = n
            /\ n \in DOMAIN batches' /\ batches'[n] = b /\ n \notin DOMAIN batches
            /\ \A i \in DOMAIN batches : i \in DOMAIN batches' /\ batches'[i] = batches[i]
            /\ \A i \in DOMAIN batches' : i \in DOMAIN batches \/ i = n
            /\ b.id # NoHandle => Leaked' = Leaked /\ WorkLeaked' = WorkLeaked
            /\ b.id = NoHandle =>
                 /\ Leaked' = Leaked + (IF b.fence THEN 1 ELSE 0)
                 /\ WorkLeaked' = WorkLeaked + (IF b.deps = {} THEN 0 ELSE 1)
            /\ Cardinality(Active') = Cardinality(Active) + (IF b.finished THEN 0 ELSE 1)
<1> DEFINE n == Len(batches) + 1
           A == {i \in Failed : batches[i].fence}
           B == {i \in Failed : batches[i].deps # {}}
<1>1. PICK q \in Seq(BatchStates) : q = batches
  OBVIOUS
<1>2. PICK v : v = Append(q, b)
  OBVIOUS
<1>3. /\ Len(q) \in Nat /\ DOMAIN q = 1 .. Len(q) /\ v \in Seq(BatchStates)
      /\ Len(v) = Len(q) + 1 /\ v[Len(q) + 1] = b
      /\ \A i \in 1 .. Len(q) : v[i] = q[i]
  BY <1>2, AppendProperties, LenProperties
<1>4. DOMAIN v = 1 .. Len(q) + 1
  BY <1>3, LenProperties
<1>5. /\ Len(q) + 1 \in DOMAIN v /\ Len(q) + 1 \notin DOMAIN q
      /\ \A i \in DOMAIN q : i \in DOMAIN v /\ v[i] = q[i]
      /\ \A i \in DOMAIN v : i \in DOMAIN q \/ i = Len(q) + 1
  BY <1>3, <1>4
<1>6. /\ batches' \in Seq(BatchStates) /\ Len(batches') = n
      /\ n \in DOMAIN batches' /\ batches'[n] = b /\ n \notin DOMAIN batches
      /\ \A i \in DOMAIN batches : i \in DOMAIN batches' /\ batches'[i] = batches[i]
      /\ \A i \in DOMAIN batches' : i \in DOMAIN batches \/ i = n
  BY <1>1, <1>2, <1>3, <1>5
<1>7. /\ IsFiniteSet(A) /\ IsFiniteSet(B) /\ IsFiniteSet(Active)
      /\ A \subseteq DOMAIN batches /\ B \subseteq DOMAIN batches /\ Active \subseteq DOMAIN batches
  <2>1. /\ A \subseteq Failed /\ B \subseteq Failed /\ Failed \subseteq DOMAIN batches
        /\ IsFiniteSet(Failed) /\ IsFiniteSet(Active) /\ Active \subseteq DOMAIN batches
    BY LeakedNatural DEF Active
  <2> HIDE DEF A, B
  <2> QED BY <2>1, FS_Subset
<1> HIDE DEF n
<1>8. n \notin A /\ n \notin B /\ n \notin Active
  BY <1>6, <1>7
<1>9. /\ Failed' = IF b.id = NoHandle THEN Failed \cup {n} ELSE Failed
      /\ Active' = IF b.finished THEN Active ELSE Active \cup {n}
  BY <1>6 DEF Failed, Active
<1>10. /\ {i \in Failed' : batches'[i].fence} =
            IF b.id = NoHandle /\ b.fence THEN A \cup {n} ELSE A
       /\ {i \in Failed' : batches'[i].deps # {}} =
            IF b.id = NoHandle /\ b.deps # {} THEN B \cup {n} ELSE B
  <2>1. \A i \in Failed : batches'[i] = batches[i] /\ i # n
    BY <1>6 DEF Failed
  <2> QED BY <1>6, <1>9, <2>1
<1> HIDE DEF A, B
<1>11. /\ Cardinality(A \cup {n}) = Cardinality(A) + 1
       /\ Cardinality(B \cup {n}) = Cardinality(B) + 1
       /\ Cardinality(Active \cup {n}) = Cardinality(Active) + 1
       /\ Cardinality(A) \in Nat /\ Cardinality(B) \in Nat /\ Cardinality(Active) \in Nat
  BY <1>7, <1>8, FS_AddElement, FS_CardinalityType
<1>12. /\ Leaked = Cardinality(A) /\ WorkLeaked = Cardinality(B)
       /\ Leaked' = Cardinality(IF b.id = NoHandle /\ b.fence THEN A \cup {n} ELSE A)
       /\ WorkLeaked' = Cardinality(IF b.id = NoHandle /\ b.deps # {} THEN B \cup {n} ELSE B)
  BY <1>10 DEF Leaked, WorkLeaked, A, B
<1>13. b.id # NoHandle => Leaked' = Leaked /\ WorkLeaked' = WorkLeaked
  BY <1>12
<1>14. b.id = NoHandle => /\ Leaked' = Leaked + (IF b.fence THEN 1 ELSE 0)
                          /\ WorkLeaked' = WorkLeaked + (IF b.deps = {} THEN 0 ELSE 1)
  BY <1>11, <1>12
<1>15. Cardinality(Active') = Cardinality(Active) + (IF b.finished THEN 0 ELSE 1)
  BY <1>9, <1>11
<1> QED BY <1>6, <1>13, <1>14, <1>15 DEF n

\* A batch b, with handle d, is submitted in slot r, and its submission goes on with
\* what its dependencies ask for.
Submits(r, d, deps, size, fenced, b) ==
  /\ r \in Slots /\ d \in Ids /\ d.slot = r /\ d.gen = slots[r].generation
  /\ Listed(r) /\ ~Listed(r)' /\ \A s : s # r => (Listed(s)' <=> Listed(s))
  /\ CountsKeptBy /\ \A s \in Slots : s # r => slots'[s] = slots[s]
  /\ slots'[r].generation = slots[r].generation /\ slots'[r].dependencyCount >= 0
  /\ slots'[r].dependents = <<>> /\ slots'[r].fence = fenced
  /\ slots'[r].remainingJobs = size /\ slots'[r].toStart = size
  /\ size \in Nat /\ size > 0 /\ fenced \in BOOLEAN
  /\ b \in BatchStates /\ b.id = d /\ b.pushes = 0 /\ ~b.finished
  /\ batches' = Append(batches, b) /\ Len(batches) < MaxBatches
  /\ issued' = issued \cup {d} /\ queue' = queue
  /\ workLeft' = workLeft + (IF fenced THEN 1 ELSE 0) /\ allWork' = allWork + 1
  /\ \A i \in DOMAIN deps : deps[i] \in issued
  /\ NoStray /\ d \in Handles /\ Known(deps) => NoStray'

LEMMA SubmitDoes ==
  ASSUME PoolInv, NEW t \in Threads, NEW size \in Sizes, NEW fenced \in BOOLEAN,
         NEW deps \in DependencyLists(t), Submit(t, size, fenced, deps)
  PROVE  \E r, d, b : Submits(r, d, deps, size, fenced, b)
<1>0. PICK r \in Slots : r = Head(free)
  <2>1. free # <<>> /\ free \in Seq(Slots)
    BY DEF Submit, PoolInv, PoolTyped
  <2> QED BY <2>1, Removed
<1> DEFINE id == [slot |-> r, gen |-> slots[r].generation]
           at == IF deps = <<>> THEN "push" ELSE "addDependents"
           none == <<>>
           count == IF deps = <<>> THEN 0 ELSE 1
           e == [generation |-> slots[r].generation, refCount |-> 1,
                 dependencyCount |-> count, dependentCount |-> 0, dependents |-> none,
                 remainingJobs |-> size, toStart |-> size, fence |-> fenced]
           b == [id |-> id, deps |-> {deps[i] : i \in DOMAIN deps}, fence |-> fenced,
                 pushes |-> 0, finished |-> FALSE]
<1>1. /\ PoolTyped /\ SlotsPlaced /\ free # <<>> /\ free' = Tail(free)
      /\ queue' = queue /\ issued' = issued \cup {id} /\ slots' = [slots EXCEPT ![r] = e]
      /\ stack' = [stack EXCEPT ![t] = <<Frame(at, id, deps)>> \o @]
      /\ batches' = Append(batches, b) /\ Len(batches) < MaxBatches
      /\ workLeft' = workLeft + (IF fenced THEN 1 ELSE 0) /\ allWork' = allWork + 1
  BY <1>0 DEF Submit, MaySubmit, PoolInv
<1>2. /\ r \in Slots /\ free \in Seq(Slots) /\ slots[r] \in SlotStates
      /\ slots[r].generation \in Nat
      /\ id \in Ids /\ id.slot = r /\ id.gen = slots[r].generation
  BY <1>1 DEF PoolTyped, SlotStates, Ids
<1>3. /\ deps \in Seq(Ids) /\ {deps[i] : i \in DOMAIN deps} \subseteq issued
      /\ issued \subseteq Ids
  BY <1>1, DependenciesTyped, DependenciesIssued DEF PoolTyped
<1>4. size \in Nat /\ size > 0 /\ size \in Int
  BY PoolAssumption
<1>5. /\ e \in SlotStates /\ e.generation = slots[r].generation /\ e.dependencyCount = count
      /\ e.remainingJobs = size /\ e.toStart = size /\ e.fence = fenced /\ e.dependents = none
      /\ count >= 0
  <2>1. none \in Seq(Ids) /\ count \in Int /\ count >= 0
    OBVIOUS
  <2> HIDE DEF none, count
  <2> QED BY <1>2, <1>4, <2>1 DEF SlotStates
<1>6. b \in BatchStates /\ b.id = id /\ b.pushes = 0 /\ ~b.finished
  BY <1>2, <1>3 DEF BatchStates
<1>7. Listed(r) /\ ~Listed(r)' /\ \A s : s # r => (Listed(s)' <=> Listed(s))
  <2>1. /\ r = free[1] /\ 1 \in DOMAIN free
        /\ \A i \in DOMAIN Tail(free) :
             i + 1 \in DOMAIN free /\ i + 1 # 1 /\ Tail(free)[i] = free[i + 1]
        /\ \A i \in DOMAIN free : i # 1 => i - 1 \in DOMAIN Tail(free) /\ Tail(free)[i - 1] = free[i]
    BY <1>0, <1>1, <1>2, Removed
  <2>2. \A i, j \in DOMAIN free : free[i] = free[j] => i = j
    BY <1>1 DEF SlotsPlaced
  <2>3. Listed(r)
    BY <2>1 DEF Listed
  <2>4. ASSUME NEW s, Listed(s)'
        PROVE  Listed(s) /\ s # r
    <3>1. PICK i \in DOMAIN Tail(free) : Tail(free)[i] = s
      BY <1>1, <2>4 DEF Listed
    <3> QED BY <2>1, <2>2, <3>1 DEF Listed
  <2>5. ASSUME NEW s, Listed(s), s # r
        PROVE  Listed(s)'
    <3>1. PICK i \in DOMAIN free : free[i] = s
      BY <2>5 DEF Listed
    <3>2. i - 1 \in DOMAIN Tail(free) /\ Tail(free)[i - 1] = s
      BY <2>1, <2>5, <3>1
    <3> QED BY <1>1, <3>2 DEF Listed
  <2> QED BY <2>3, <2>4, <2>5
<1>8. at \in Points /\ at \in {"push", "addDependents"}
  BY DEF Points
<1>9. \A i \in DOMAIN deps : deps[i] \in issued
  BY <1>3
<1> HIDE DEF e, id, b, at
<1>10. slots'[r] = e /\ \A s \in Slots : s # r => slots'[s] = slots[s]
  BY <1>1, <1>5, SlotSet
<1>11. CountsKeptBy /\ (NoStray /\ id \in Handles /\ Known(deps) => NoStray')
  <2>1. PICK f : f = Frame(at, id, deps)
    OBVIOUS
  <2>2. /\ f \in CallFrames /\ f.at = at
        /\ id \in Handles /\ Known(deps) => f \notin StrayFrames
    BY <1>2, <1>3, <1>8, <2>1, FramePasses
  <2>3. Uncounted(f)
    BY <1>8, <2>2 DEF Uncounted, CountedPoints, RunPoints, DonePoints
  <2>4. Restack(t, Len(stack[t]), <<f>>)
    BY <1>1, <2>1, <2>2, Called
  <2> QED BY <2>2, <2>3, <2>4, CountsOfOwn
<1>12. Submits(r, id, deps, size, fenced, b)
  BY <1>1, <1>2, <1>3, <1>4, <1>5, <1>6, <1>7, <1>9, <1>10, <1>11 DEF Submits
<1> QED BY <1>12

LEMMA SubmitFences ==
  ASSUME PoolInv, FenceInv, NEW r, NEW d, NEW deps, NEW size, NEW fenced, NEW b,
         Submits(r, d, deps, size, fenced, b)
  PROVE  FenceInv'
<1>1. /\ r \in Slots /\ d \in Ids /\ fenced \in BOOLEAN /\ Listed(r) /\ ~Listed(r)'
      /\ \A s : s # r => (Listed(s)' <=> Listed(s))
      /\ \A s \in Slots : s # r => slots'[s] = slots[s]
      /\ slots'[r].fence = fenced /\ b \in BatchStates /\ b.id = d /\ batches' = Append(batches, b)
      /\ workLeft' = workLeft + (IF fenced THEN 1 ELSE 0)
  BY DEF Submits
<1>2. \A s : CallsIn(ReclaimFrames(s))' = CallsIn(ReclaimFrames(s))
  BY SetsCount DEF Submits, CountsKeptBy
<1>3. CallsIn(ReclaimFrames(r)) = {}
  BY <1>1, ReclaimersDrop DEF PoolInv, SlotsPlaced
<1>4. r \notin Fenced /\ (r \in Fenced' <=> fenced)
  BY <1>1, <1>2, <1>3 DEF Fenced
<1>5. \A s \in Slots : s # r => (s \in Fenced' <=> s \in Fenced)
  BY <1>1, <1>2 DEF Fenced
<1>6. \A s : s \in Fenced' \/ s \in Fenced => s \in Slots
  BY DEF Fenced
<1>7. Fenced' = IF fenced THEN Fenced \cup {r} ELSE Fenced
  BY <1>4, <1>5, <1>6
<1>8. b.id # NoHandle
  BY <1>1, HandlesAreReal
<1>9. batches' \in Seq(BatchStates) /\ Leaked' = Leaked
  BY <1>1, <1>8, Lengthened DEF FenceInv
<1>10. Cardinality(Fenced \cup {r}) = Cardinality(Fenced) + 1
  BY <1>4, FencedFinite, FS_AddElement
<1>11. workLeft' = Leaked' + Cardinality(Fenced')
  <2>1. PICK a \in Nat, c \in Nat : a = Leaked /\ c = Cardinality(Fenced)
    BY FencedFinite, LeakedNatural DEF FenceInv
  <2>2. workLeft = a + c
    BY <2>1 DEF FenceInv
  <2>3. CASE fenced
    BY <1>1, <1>7, <1>9, <1>10, <2>1, <2>2, <2>3
  <2>4. CASE ~fenced
    BY <1>1, <1>7, <1>9, <2>1, <2>2, <2>4
  <2> QED BY <2>3, <2>4
<1> QED BY <1>9, <1>11 DEF FenceInv

\* A submission finds no slot: what it leaves.
LEMMA SubmitFailsDoes ==
  ASSUME NEW t \in Threads, PoolTyped, NEW fenced \in BOOLEAN,
         NEW deps \in DependencyLists(t), SubmitFails(t, fenced, deps)
  PROVE  \E b \in BatchStates :
           /\ b.id = NoHandle /\ b.finished /\ b.fence = fenced /\ b.pushes = 0
           /\ b.deps = {} <=> deps = <<>>
           /\ batches' = Append(batches, b) /\ Len(batches) < MaxBatches
           /\ workLeft' = workLeft + (IF fenced THEN 1 ELSE 0)
           /\ allWork' = allWork + (IF deps = <<>> THEN 0 ELSE 1)
           /\ UNCHANGED <<slots, free, queue, stack, issued>>
<1> DEFINE b == [id |-> NoHandle, deps |-> {deps[i] : i \in DOMAIN deps}, fence |-> fenced,
                 pushes |-> 0, finished |-> TRUE]
<1>1. deps \in Seq(Ids) /\ {deps[i] : i \in DOMAIN deps} \subseteq Ids
  <2>1. deps \in Seq(Ids)
    BY DependenciesTyped
  <2> QED BY <2>1
<1>2. b \in BatchStates
  BY <1>1 DEF BatchStates
<1>3. b.deps = {} <=> deps = <<>>
  <2>1. b.deps = {} <=> DOMAIN deps = {}
    OBVIOUS
  <2>2. PICK n \in Nat : n = Len(deps) /\ DOMAIN deps = 1 .. n
    BY <1>1, LenProperties
  <2>3. 1 .. n = {} <=> n = 0
    BY <2>2
  <2> QED BY <1>1, <2>1, <2>2, <2>3, EmptySeq
<1> QED BY <1>2, <1>3 DEF SubmitFails, MaySubmit

\* Nothing but the history and the fences changes.
LEMMA StacksSame ==
  ASSUME UNCHANGED <<slots, free, stack>>
  PROVE  /\ \A F : CallsIn(F)' = CallsIn(F)
         /\ \A s : Listed(s)' = Listed(s) /\ Gone(s)' = Gone(s)
         /\ Fenced' = Fenced
<1>1. \A F : CallsIn(F)' = CallsIn(F)
  BY DEF CallsIn, Calls, CallAt
<1>2. \A s : Listed(s)' = Listed(s)
  BY DEF Listed
<1> QED BY <1>1, <1>2 DEF Gone, Fenced

LEMMA SubmitFailsFences ==
  ASSUME PoolInv, FenceInv, NEW t \in Threads, NEW fenced \in BOOLEAN,
         NEW deps \in DependencyLists(t), SubmitFails(t, fenced, deps)
  PROVE  FenceInv'
<1>1. PICK b \in BatchStates :
           /\ b.id = NoHandle /\ b.fence = fenced /\ batches' = Append(batches, b)
           /\ workLeft' = workLeft + (IF fenced THEN 1 ELSE 0)
           /\ UNCHANGED <<slots, free, stack>>
  BY SubmitFailsDoes DEF PoolInv
<1>2. batches' \in Seq(BatchStates) /\ Leaked' = Leaked + (IF fenced THEN 1 ELSE 0)
  BY <1>1, Lengthened DEF FenceInv
<1>3. Fenced' = Fenced
  BY <1>1, StacksSame
<1>4. workLeft' = Leaked' + Cardinality(Fenced')
  <2>1. PICK a \in Nat, c \in Nat : a = Leaked /\ c = Cardinality(Fenced)
    BY FencedFinite, LeakedNatural DEF FenceInv
  <2>2. workLeft = a + c
    BY <2>1 DEF FenceInv
  <2> QED BY <1>1, <1>2, <1>3, <2>1, <2>2
<1> QED BY <1>2, <1>4 DEF FenceInv

----------------------------------------------------------------------------
(* What the fence of the main thread counts *)

LEMMA FenceInvStep == ASSUME PoolInv, FenceInv, [Next]_vars PROVE FenceInv'
<1>1. ASSUME NEW t \in Threads, Step(t)
      PROVE  FenceInv'
  <2>1. CASE \/ PinCheck(t) \/ PinTake(t) \/ PinVerify(t) \/ Unpin(t) \/ DropNextDependent(t)
             \/ DropResolve(t) \/ AddDependent(t) \/ RegisterDependent(t) \/ ReleaseGuard(t)
             \/ CompleteBatch(t)
    <3>1. Calm
      BY <2>1, PinCheckCalm, PinTakeCalm, PinVerifyCalm, UnpinCalm, DropNextDependentCalm,
         DropResolveCalm, AddDependentCalm, RegisterDependentCalm, ReleaseGuardCalm,
         CompleteBatchCalm
    <3> QED BY <3>1, CalmFences
  <2>2. CASE \/ DropInvalidate(t) \/ DropFence(t) \/ DropReclaim(t) \/ Push(t) \/ StartJob(t)
             \/ FinishJob(t) \/ SignalComplete(t) \/ WorkDone(t)
    BY <2>2, DropInvalidateFences, DropFenceFences, DropReclaimFences, PushFences,
       StartJobFences, FinishJobFences, SignalCompleteFences, WorkDoneFences
  <2> QED BY <1>1, <2>1, <2>2 DEF Step
<1>2. ASSUME NEW t \in Threads, SubmitSome(t)
      PROVE  FenceInv'
  <2>1. PICK fenced \in {FALSE, t = Main}, deps \in DependencyLists(t) :
          \/ \E size \in Sizes : Submit(t, size, fenced, deps)
          \/ SubmitFails(t, fenced, deps)
    BY <1>2 DEF SubmitSome
  <2>2. fenced \in BOOLEAN
    BY <2>1
  <2>3. CASE SubmitFails(t, fenced, deps)
    BY <2>2, <2>3, SubmitFailsFences
  <2>4. ASSUME NEW size \in Sizes, Submit(t, size, fenced, deps)
        PROVE  FenceInv'
    <3>1. PICK r, d, b : Submits(r, d, deps, size, fenced, b)
      BY <2>2, <2>4, SubmitDoes
    <3> QED BY <3>1, SubmitFences
  <2> QED BY <2>1, <2>3, <2>4
<1>3. CASE UNCHANGED vars
  <2>1. Fenced' = Fenced /\ Leaked' = Leaked
    BY <1>3, StacksSame, BatchesSame DEF vars
  <2> QED BY <1>3, <2>1 DEF FenceInv, vars
<1> QED BY <1>1, <1>2, <1>3 DEF Next, Rest

LEMMA FenceInvInit == Init => FenceInv
<1> SUFFICES ASSUME Init
             PROVE  FenceInv
  OBVIOUS
<1> DEFINE none == <<>>
<1>1. batches = none /\ none \in Seq(BatchStates) /\ DOMAIN none = {}
  BY DEF Init
<1>2. \A s \in Slots : ~slots[s].fence
  BY DEF Init, EmptySlot
<1>3. Fenced = {}
  BY <1>2 DEF Fenced
<1>4. Failed = {}
  BY <1>1 DEF Failed
<1>5. {i \in Failed : batches[i].fence} = {}
  BY <1>4
<1>6. Leaked = 0 /\ Cardinality(Fenced) = 0
  BY <1>3, <1>5, FS_EmptySet DEF Leaked
<1> HIDE DEF none
<1> QED BY <1>1, <1>6 DEF FenceInv, Init

LEMMA SameSize ==
  ASSUME NEW S, NEW T, IsFiniteSet(S), NEW f \in [S -> T],
         \A x, y \in S : f[x] = f[y] => x = y, \A z \in T : \E x \in S : f[x] = z
  PROVE  IsFiniteSet(T) /\ Cardinality(T) = Cardinality(S)
<1>1. f \in Surjection(S, T) /\ f \in Injection(S, T)
  BY DEF Surjection, Injection, IsInjective
<1> QED BY <1>1, FS_Surjection

\* The slots with a fence are referenced, or one call is in the course of taking it
\* down.
LEMMA WorkCountedHolds == PoolInv /\ FenceInv => WorkCounted
<1> SUFFICES ASSUME PoolInv, FenceInv
             PROVE  WorkCounted
  OBVIOUS
<1> DEFINE A == {s \in Slots : slots[s].fence /\ slots[s].refCount > 0}
           B == Fenced \ A
           D == InFlight("drop") \cup InFlight("dependents") \cup InFlight("resolve")
           G == {f \in D : slots[f.id.slot].fence}
<1>1. PoolTyped /\ SlotsPlaced
  BY DEF PoolInv
<1>2. A \subseteq Fenced
  <2>1. SUFFICES ASSUME NEW s \in A
                 PROVE  s \in Fenced
    OBVIOUS
  <2>2. Droppers(s) = {} /\ ~Listed(s) /\ s \in Slots /\ slots[s].fence
    BY <1>1 DEF SlotsPlaced
  <2>3. CallsIn(ReclaimFrames(s)) = {}
    BY <2>2, ReclaimersDrop
  <2> QED BY <2>2, <2>3 DEF Fenced
<1>3. \A s \in B : s \in Slots /\ slots[s].fence /\ Droppers(s) # {}
                   /\ CallsIn(ReclaimFrames(s)) = {}
  BY <1>1 DEF Fenced, SlotsPlaced
<1>4. \A f : f \in D <=> \E t \in Threads :
               f \in Frames(t) /\ f.at \in {"drop", "dependents", "resolve"}
  BY DEF InFlight
<1> HIDE DEF D
<1>5. ASSUME NEW c, NEW s \in B, c \in Droppers(s)
      PROVE  CallAt(c[1], c[2]) \in G /\ CallAt(c[1], c[2]).id.slot = s
  <2>1. PICK t \in Threads : \E d \in 1 .. Len(stack[t]) : c = <<t, d>>
    BY <1>5 DEF Droppers, Calls
  <2>2. PICK d \in 1 .. Len(stack[t]) : c = <<t, d>>
    BY <2>1
  <2>3. PICK f : f = CallAt(t, d)
    OBVIOUS
  <2>4. f \in CallFrames /\ f.at \in DropPoints /\ f.id.slot = s
    BY <1>1, <1>5, <2>2, <2>3, CallTyped DEF Droppers
  <2>5. f.at # "reclaim"
    <3>1. f.at = "reclaim" => c \in CallsIn(ReclaimFrames(s))
      BY <2>2, <2>3, <2>4, CallsInForm DEF ReclaimFrames
    <3> QED BY <1>3, <3>1
  <2>6. f \in Frames(t)
    BY <1>1, <2>3, FramesAreCalls
  <2> QED BY <1>3, <1>4, <2>2, <2>3, <2>4, <2>5, <2>6 DEF DropPoints
<1>6. ASSUME NEW f \in G
      PROVE  \E s \in B : \E c \in Droppers(s) : CallAt(c[1], c[2]) = f
  <2>1. PICK t \in Threads : f \in Frames(t) /\ f.at \in {"drop", "dependents", "resolve"}
    BY <1>4
  <2>2. PICK d \in 1 .. Len(stack[t]) : f = CallAt(t, d)
    BY <1>1, <2>1, FramesAreCalls
  <2>3. f \in CallFrames
    BY <1>1, <2>2, CallTyped
  <2>4. PICK s \in Slots : s = f.id.slot
    BY <2>3, HandlesAreReal DEF CallFrames
  <2>5. PICK c : c = <<t, d>>
    OBVIOUS
  <2>6. c \in Droppers(s)
    BY <2>1, <2>2, <2>4, <2>5 DEF Droppers, Calls, DropPoints
  <2>7. ~Listed(s) /\ ~(slots[s].refCount > 0) /\ \A e \in Droppers(s) : e = c
    BY <1>1, <2>6 DEF SlotsPlaced
  <2>8. CallsIn(ReclaimFrames(s)) = {}
    <3>1. c \notin CallsIn(ReclaimFrames(s))
      BY <2>1, <2>2, <2>5 DEF CallsIn, ReclaimFrames
    <3> QED BY <2>7, <3>1, ReclaimersDrop
  <2>9. s \in B
    BY <2>4, <2>7, <2>8 DEF Fenced
  <2> QED BY <2>2, <2>5, <2>6, <2>9
<1> HIDE DEF B, G
<1>7. Cardinality(G) = Cardinality(B)
  <2> DEFINE g == [s \in B |-> CallAt((CHOOSE c \in Droppers(s) : TRUE)[1],
                                      (CHOOSE c \in Droppers(s) : TRUE)[2])]
  <2>1. \A s \in B : \E c \in Droppers(s) : g[s] = CallAt(c[1], c[2])
    BY <1>3
  <2>2. \A s \in B : g[s] \in G /\ g[s].id.slot = s
    BY <1>5, <2>1
  <2>3. g \in [B -> G]
    BY <2>2
  <2> HIDE DEF g
  <2>4. \A r, s \in B : g[r] = g[s] => r = s
    BY <2>2
  <2>5. \A f \in G : \E s \in B : g[s] = f
    <3>1. SUFFICES ASSUME NEW f \in G
                   PROVE  \E s \in B : g[s] = f
      OBVIOUS
    <3>2. PICK s \in B : \E c \in Droppers(s) : CallAt(c[1], c[2]) = f
      BY <1>6
    <3>3. \A c, e \in Droppers(s) : c = e
      BY <1>1, <1>3 DEF SlotsPlaced
    <3> QED BY <2>1, <3>2, <3>3
  <2>6. IsFiniteSet(B)
    BY FencedFinite, FS_Subset DEF B
  <2> QED BY <2>3, <2>4, <2>5, <2>6, SameSize
<1>8. Cardinality(Fenced) = Cardinality(A) + Cardinality(B)
  <2>1. A \cup B = Fenced /\ A \cap B = {}
    BY <1>2 DEF B
  <2>2. IsFiniteSet(A) /\ IsFiniteSet(B)
    BY <1>2, FencedFinite, FS_Subset DEF B
  <2> HIDE DEF A
  <2>3. Cardinality(A \cap B) = 0 /\ Cardinality(A) \in Nat /\ Cardinality(B) \in Nat
    BY <2>1, <2>2, FS_EmptySet, FS_CardinalityType
  <2>4. Cardinality(A \cup B) = Cardinality(A) + Cardinality(B) - Cardinality(A \cap B)
    BY <2>2, FS_Union
  <2> QED BY <2>1, <2>3, <2>4
<1>9. workLeft = Leaked + Cardinality(A) + Cardinality(G)
  <2>1. Leaked \in Nat /\ Cardinality(A) \in Nat /\ Cardinality(B) \in Nat
    <3>1. IsFiniteSet(A) /\ IsFiniteSet(B)
      BY <1>2, FencedFinite, FS_Subset DEF B
    <3> HIDE DEF A
    <3> QED BY <3>1, FS_CardinalityType, LeakedNatural DEF FenceInv
  <2>2. workLeft = Leaked + Cardinality(Fenced)
    BY DEF FenceInv
  <2> HIDE DEF A
  <2> QED BY <1>7, <1>8, <2>1, <2>2
<1> QED BY <1>9 DEF WorkCounted, G, D

\* What jobFenceWait of the main thread waits for (submitJobBatch, dropHandle): its
\* fence counts the batches that were submitted with it and whose slot no thread has
\* finished dropping, each once, and for ever what failed submissions have left on
\* it, for any number of threads, slots and batches and in every order of steps.
THEOREM FenceOfMainCounts == Spec => []WorkCounted
<1>1. Init => FenceInv
  BY FenceInvInit
<1>2. PoolInv /\ FenceInv /\ [Next]_vars => FenceInv'
  BY FenceInvStep
<1>3. Spec => []FenceInv
  BY <1>1, <1>2, BatchPoolInvariant, PTL DEF Spec
<1> QED BY <1>3, BatchPoolInvariant, WorkCountedHolds, PTL

----------------------------------------------------------------------------
(* What the counts of jobs mean *)

LEMMA RunnersOf ==
  ASSUME PoolTyped, NEW h \in Ids
  PROVE  CallsIn(RunFrames(h)) \subseteq Running(h.slot)
<1>1. RunFrames(h) \subseteq RunningFrames(h.slot)
  BY DEF RunFrames, RunningFrames
<1> QED BY <1>1 DEF CallsIn, Running

\* A slot that is not referenced has no jobs.
LEMMA IdleSlot ==
  ASSUME PoolInv, WorkInv, NEW s \in Slots, ~(slots[s].refCount > 0)
  PROVE  /\ slots[s].remainingJobs = 0 /\ slots[s].toStart = 0 /\ Running(s) = {}
         /\ \A h \in Ids : h.slot = s => ~Busy(h)
<1>1. ~(slots[s].remainingJobs > 0)
  BY LiveSlot
<1>2. /\ slots[s].toStart >= 0 /\ IsFiniteSet(Running(s))
      /\ slots[s].remainingJobs = slots[s].toStart + Cardinality(Running(s))
  BY JobsParts DEF WorkInv, JobsOfSlots
<1>3. PICK c \in Nat, a \in Int, m \in Int :
         c = Cardinality(Running(s)) /\ a = slots[s].toStart /\ m = slots[s].remainingJobs
  BY <1>2, FS_CardinalityType DEF PoolInv, PoolTyped, SlotStates
<1>4. c = 0 /\ a = 0 /\ m = 0
  BY <1>1, <1>2, <1>3
<1>5. Running(s) = {}
  BY <1>2, <1>3, <1>4, FS_EmptySet
<1>6. ASSUME NEW h \in Ids, h.slot = s, Busy(h)
      PROVE  FALSE
  <2>0. QueuedHaveJobs
    BY JobsParts DEF WorkInv
  <2>1. h \notin queue
    <3>1. slots[s].toStart = 0
      BY <1>3, <1>4
    <3>2. ~(slots[h.slot].toStart > 0)
      BY <1>6, <3>1
    <3> QED BY <2>0, <3>2 DEF QueuedHaveJobs, Slot
  <2> QED BY <1>5, <1>6, <2>1, RunnersOf DEF Busy, PoolInv
<1> QED BY <1>3, <1>4, <1>5, <1>6

\* A batch with a job in the queue, or one that runs, is there.
LEMMA BusyLives ==
  ASSUME PoolInv, WorkInv, NEW h \in Ids, Busy(h)
  PROVE  Live(h) /\ slots[h.slot].refCount > 0 /\ ~Gone(h.slot)
<1>1. h.slot \in Slots
  BY HandlesAreReal
<1>2. Slot(h).generation = h.gen
  BY JobsParts DEF WorkInv, BusyAreThere
<1>3. slots[h.slot].refCount > 0
  BY <1>1, IdleSlot
<1>4. slots[h.slot].remainingJobs > 0
  <2>1. /\ slots[h.slot].toStart >= 0 /\ IsFiniteSet(Running(h.slot))
        /\ slots[h.slot].remainingJobs = slots[h.slot].toStart + Cardinality(Running(h.slot))
    BY <1>1, JobsParts DEF WorkInv, JobsOfSlots
  <2>2. PICK c \in Nat, a \in Int :
          c = Cardinality(Running(h.slot)) /\ a = slots[h.slot].toStart
    BY <1>1, <2>1, FS_CardinalityType DEF PoolInv, PoolTyped, SlotStates
  <2>3. CASE h \in queue
    <3>1. a > 0
      BY <2>2, <2>3, JobsParts DEF WorkInv, QueuedHaveJobs, Slot
    <3> QED BY <2>1, <2>2, <3>1
  <2>4. CASE CallsIn(RunFrames(h)) # {}
    <3>1. Running(h.slot) # {}
      BY <2>4, RunnersOf DEF PoolInv
    <3>2. c # 0
      BY <2>1, <2>2, <3>1, FS_EmptySet
    <3> QED BY <2>1, <2>2, <3>2
  <2> QED BY <2>3, <2>4 DEF Busy
<1> QED BY <1>1, <1>2, <1>3, <1>4, LiveSlot DEF Live, Slot

\* ... and was pushed, and is not done.
LEMMA BusyIssued ==
  ASSUME PoolInv, WaitInv, WorkInv, NEW h \in Ids, Busy(h)
  PROVE  /\ h \in issued
         /\ \E i \in DOMAIN batches :
              batches[i].id = h /\ batches[i].pushes > 0 /\ ~batches[i].finished
<1>1. PICK i \in DOMAIN batches : batches[i].id = h /\ batches[i].pushes > 0
  BY DEF WaitInv, RunnersPushed, Pushed
<1>2. h # NoHandle
  BY HandlesAreReal
<1>3. ~batches[i].finished
  BY <1>1, <1>2, BusyLives, JobsParts DEF WorkInv, FinishedAreGone
<1> QED BY <1>1, <1>2, <1>3 DEF WorkInv, GenerationsIssued

LEMMA IssuedAreHandles ==
  ASSUME PoolTyped, WaitInv, HandlesPassed
  PROVE  issued \subseteq Handles
<1> SUFFICES ASSUME NEW h \in issued
             PROVE  h \in Handles
  OBVIOUS
<1>1. h \in Ids /\ h # NoHandle /\ h.slot \in Slots /\ h.gen \in Nat
  BY HandlesAreReal DEF PoolTyped
<1>2. PICK i \in DOMAIN batches : batches[i].id = h
  BY DEF WaitInv, BatchesKnown
<1>3. h.gen <= Slot(h).generation
  BY <1>1, <1>2 DEF WaitInv, BatchesPlaced
<1>4. Slot(h).generation <= MaxBatches /\ Slot(h).generation \in Nat
  BY <1>1 DEF HandlesPassed, Slot, PoolTyped, SlotStates
<1>5. h.gen \in 0 .. MaxBatches
  BY <1>1, <1>3, <1>4, PoolAssumption
<1> QED BY <1>1, <1>5 DEF Ids, Handles

\* A batch of the history for every generation: there is one for the next, too, when
\* the slot has the batch of the last.
LEMMA RoomForGeneration ==
  ASSUME PoolTyped, WaitInv, WorkInv, NEW s \in Slots, ~Gone(s)
  PROVE  slots[s].generation + 1 <= MaxBatches
<1>1. PICK g \in Nat : g = slots[s].generation
  BY DEF PoolTyped, SlotStates
<1>2. \A n \in 0 .. g : [slot |-> s, gen |-> n] \in issued
  <2>1. \A n \in Nat : n < g => [slot |-> s, gen |-> n] \in issued
    BY <1>1 DEF WorkInv, GenerationsIssued
  <2>2. [slot |-> s, gen |-> g] \in issued
    BY <1>1 DEF WorkInv, GenerationsIssued
  <2>3. \A n \in 0 .. g : n \in Nat /\ (n < g \/ n = g)
    BY <1>1
  <2> QED BY <2>1, <2>2, <2>3
<1>3. \A n \in 0 .. g : \E i \in DOMAIN batches : batches[i].id = [slot |-> s, gen |-> n]
  BY <1>2 DEF WaitInv, BatchesKnown
<1>4. PICK L \in Nat : L = Len(batches) /\ DOMAIN batches = 1 .. L /\ L <= MaxBatches
  BY LenProperties DEF WaitInv, BatchesKnown, WorkInv, GenerationsIssued
<1> DEFINE f == [n \in 0 .. g |-> CHOOSE i \in DOMAIN batches :
                                     batches[i].id = [slot |-> s, gen |-> n]]
<1>5. /\ f \in [0 .. g -> 1 .. L]
      /\ \A n \in 0 .. g : batches[f[n]].id = [slot |-> s, gen |-> n]
  BY <1>3, <1>4
<1> HIDE DEF f
<1>6. \A m, n \in 0 .. g : f[m] = f[n] => m = n
  <2>1. SUFFICES ASSUME NEW m \in 0 .. g, NEW n \in 0 .. g, f[m] = f[n]
                 PROVE  m = n
    OBVIOUS
  <2>2. [slot |-> s, gen |-> m] = [slot |-> s, gen |-> n]
    BY <1>5, <2>1
  <2>3. [slot |-> s, gen |-> m].gen = [slot |-> s, gen |-> n].gen
    BY <2>2
  <2> QED BY <2>3
<1>7. g + 1 <= L
  <2>1. PICK S : S = 0 .. g
    OBVIOUS
  <2>2. PICK T : T = 1 .. L
    OBVIOUS
  <2>3. IsFiniteSet(S) /\ Cardinality(S) = g + 1 /\ IsFiniteSet(T) /\ Cardinality(T) = L
    <3>1. /\ IsFiniteSet(0 .. g) /\ Cardinality(0 .. g) = IF 0 > g THEN 0 ELSE g - 0 + 1
          /\ IsFiniteSet(1 .. L) /\ Cardinality(1 .. L) = IF 1 > L THEN 0 ELSE L - 1 + 1
      BY FS_Interval
    <3> QED BY <2>1, <2>2, <3>1
  <2>4. f \in [S -> T] /\ \A m, n \in S : f[m] = f[n] => m = n
    BY <1>5, <1>6, <2>1, <2>2
  <2>5. ~(Cardinality(T) < Cardinality(S))
    BY <2>3, <2>4, FS_PigeonHole
  <2> QED BY <2>3, <2>5
<1> QED BY <1>1, <1>4, <1>7, PoolAssumption

\* A batch that is about to be pushed is there, and not yet in the queue.
LEMMA PusherLives ==
  ASSUME PoolInv, WaitInv, WorkInv, NEW h \in Ids, Pushers(h) # {}
  PROVE  /\ Live(h) /\ Slot(h).toStart > 0 /\ ~Busy(h) /\ Unpushed(h)
<1>1. Waiting(h)
  BY DEF Waiting
<1>2. Unpushed(h) /\ Live(h)
  BY <1>1, WaiterLives DEF WaitInv, WaitersUnpushed
<1>3. PICK i \in DOMAIN batches : batches[i].id = h /\ batches[i].pushes = 0 /\ ~batches[i].finished
  BY <1>2 DEF Unpushed
<1>4. Slot(h).toStart > 0
  BY <1>3, HandlesAreReal, JobsParts DEF WorkInv, FinishedAreGone
<1>5. ~Busy(h)
  BY <1>2, PushedOrNot DEF WaitInv, RunnersPushed
<1> QED BY <1>2, <1>4, <1>5

----------------------------------------------------------------------------
(* Handles, jobs and the fence of all work: the steps that change what is counted *)

\* A call that begins to drop the batch in slot r is the only one that drops it.
LEMMA FirstDrops ==
  ASSUME PoolInv, NEW t \in Threads, stack[t] # <<>>, Head(stack[t]).at = "drop",
         NEW r \in Slots, r = Head(stack[t]).id.slot
  PROVE  ~Gone(r) /\ ~(slots[r].refCount > 0)
<1> DEFINE c == <<t, Len(stack[t])>>
<1>0. PICK n \in Nat : n = Len(stack[t]) /\ n >= 1 /\ CallAt(t, n) = Head(stack[t])
  BY Innermost
<1>1. /\ Len(stack[t]) \in 1 .. Len(stack[t]) /\ PoolTyped /\ SlotsPlaced
      /\ CallAt(t, Len(stack[t])) = Head(stack[t])
  BY <1>0 DEF PoolInv
<1>2. c \in Droppers(r)
  BY <1>1 DEF Droppers, Calls, DropPoints
<1>3. c \notin CallsIn(ReleaseFrames(r))
  BY <1>1 DEF CallsIn, ReleaseFrames, ReleasePoints
<1> HIDE DEF c
<1>4. /\ ~(slots[r].refCount > 0) /\ ~Listed(r) /\ \A e \in Droppers(r) : e = c
  BY <1>1, <1>2 DEF SlotsPlaced
<1>5. CallsIn(ReleaseFrames(r)) = {}
  BY <1>3, <1>4, ReclaimersDrop
<1> QED BY <1>4, <1>5 DEF Gone

LEMMA DropInvalidateWork ==
  ASSUME PoolInv, WaitInv, FenceInv, WorkInv, NEW t \in Threads, DropInvalidate(t)
  PROVE  WorkInv'
<1>1. PICK x, h, f, y, z : Invalidates(t, x, h, f, y, z)
  BY DropInvalidateDoes
<1>2. PICK r \in Slots : r = h.id.slot
  BY <1>1 DEF Invalidates
<1>3. /\ h = Head(stack[t]) /\ stack[t] # <<>> /\ h.at = "drop" /\ f.at = "dependents"
      /\ f.id = h.id /\ f.todo \in ReadDependents(r) /\ f \in CallFrames /\ h \in CallFrames
      /\ Restack(t, Len(stack[t]) - 1, <<f>>)
      /\ UNCHANGED <<free, queue, workLeft, allWork, batches, issued>>
      /\ Recount(x, h, f, y, z) /\ Uncounted(z)
  BY <1>1, <1>2 DEF Invalidates, Recount
<1>4. ~Gone(r) /\ ~(slots[r].refCount > 0)
  BY <1>2, <1>3, FirstDrops
<1>5. /\ PoolTyped /\ batches \in Seq(BatchStates) /\ HandlesPassed /\ GenerationsIssued
      /\ WaitsNatural /\ JobsOfSlots /\ BusyAreThere /\ QueuedHaveJobs /\ FinishedAreGone
  BY JobsParts DEF PoolInv, FenceInv, WorkInv
<1>6. /\ \A s \in Slots : /\ slots'[s].toStart = slots[s].toStart
                          /\ slots'[s].remainingJobs = slots[s].remainingJobs
                          /\ slots'[s].dependencyCount = slots[s].dependencyCount
                          /\ s # r => slots'[s] = slots[s]
      /\ slots'[r].generation = slots[r].generation + 1 /\ slots'[r].dependents = <<>>
  <2>1. slots' = [slots EXCEPT ![r].generation = @ + 1, ![r].dependentCount = 0,
                               ![r].dependents = <<>>]
    BY <1>1, <1>2 DEF Invalidates
  <2> QED BY <1>5, <2>1, InvalidCounts
<1>7. /\ \A s : Running(s)' = Running(s)
      /\ \A k : CallsIn(RunFrames(k))' = CallsIn(RunFrames(k))
      /\ CallsIn(DoneFrames)' = CallsIn(DoneFrames)
      /\ \A s : s # r => CallsIn(ReleaseFrames(s))' = CallsIn(ReleaseFrames(s))
      /\ CallsIn(ReleaseFrames(r))' # {}
  <2>1. /\ \A s : f \notin RunningFrames(s) /\ h \notin RunningFrames(s)
        /\ \A k : f \notin RunFrames(k) /\ h \notin RunFrames(k)
        /\ f \notin DoneFrames /\ h \notin DoneFrames
        /\ \A s : s # r => f \notin ReleaseFrames(s) /\ h \notin ReleaseFrames(s)
        /\ f \in ReleaseFrames(r)
    BY <1>2, <1>3 DEF RunningFrames, RunFrames, DoneFrames, ReleaseFrames, RunPoints, DonePoints,
       ReleasePoints
  <2>2. /\ \A s : CallsIn(RunningFrames(s))' = CallsIn(RunningFrames(s))
        /\ \A k : CallsIn(RunFrames(k))' = CallsIn(RunFrames(k))
        /\ CallsIn(DoneFrames)' = CallsIn(DoneFrames)
        /\ \A s : s # r => CallsIn(ReleaseFrames(s))' = CallsIn(ReleaseFrames(s))
    BY <1>3, <2>1, SetsCount, RecountSets
  <2>3. CallsIn(ReleaseFrames(r))' = CallsIn(ReleaseFrames(r)) \cup {x}
    BY <1>3, <2>1, SetsCount, RecountSets
  <2> QED BY <2>2, <2>3 DEF Running
<1>8. HandlesPassed'
  <2>1. PICK q \in Seq(Ids) : q = slots[r].dependents
    BY <1>5 DEF PoolTyped, SlotStates
  <2>2. f.todo = q /\ Known(q)
    BY <1>3, <1>5, <2>1, ReadsStored DEF WaitInv, ListsInOrder, HandlesPassed, Known
  <2>3. NoStray /\ h.id \in Handles
    BY <1>3, <1>5, OwnHandles DEF HandlesPassed, NoStray
  <2>4. f \notin StrayFrames
    BY <1>3, <2>2, <2>3 DEF StrayFrames, Known
  <2>5. NoStray'
    BY <1>3, <2>3, <2>4, CountsOfOwn
  <2>6. slots[r].generation + 1 <= MaxBatches
    BY <1>4, <1>5, RoomForGeneration
  <2>7. \A i \in DOMAIN slots'[r].dependents : FALSE
    BY <1>6
  <2> QED BY <1>5, <1>6, <2>5, <2>6, <2>7 DEF HandlesPassed, NoStray
<1>9. GenerationsIssued'
  <2>1. \A s \in Slots : s # r => (Gone(s)' <=> Gone(s))
    BY <1>3, <1>7 DEF Gone, Listed
  <2>2. Gone(r)'
    BY <1>7 DEF Gone
  <2>3. \A n \in Nat : n < slots'[r].generation => [slot |-> r, gen |-> n] \in issued
    <3>1. PICK g \in Nat : g = slots[r].generation
      BY <1>5 DEF PoolTyped, SlotStates
    <3>2. /\ \A n \in Nat : n < g => [slot |-> r, gen |-> n] \in issued
          /\ [slot |-> r, gen |-> g] \in issued
      BY <1>4, <1>5, <3>1 DEF GenerationsIssued
    <3>3. \A n \in Nat : n < g + 1 => n < g \/ n = g
      OBVIOUS
    <3> QED BY <1>6, <3>1, <3>2, <3>3
  <2> QED BY <1>3, <1>5, <1>6, <2>1, <2>2, <2>3 DEF GenerationsIssued
<1>10. WaitsNatural'
  BY <1>5, <1>6 DEF WaitsNatural
<1>11. /\ slots[r].remainingJobs = 0 /\ slots[r].toStart = 0
       /\ \A k \in Ids : k.slot = r => ~Busy(k)
  BY <1>4, IdleSlot
<1>12. JobsOfSlots' /\ QueuedHaveJobs'
  <2>1. \A k \in queue : k.slot \in Slots
    BY <1>5, HandlesAreReal DEF PoolTyped
  <2> QED BY <1>3, <1>5, <1>6, <1>7, <2>1 DEF JobsOfSlots, QueuedHaveJobs, Slot
<1>13. BusyAreThere'
  <2>1. \A k : Busy(k)' <=> Busy(k)
    BY <1>3, <1>7 DEF Busy
  <2> QED BY <1>5, <1>6, <1>11, <2>1, HandlesAreReal DEF BusyAreThere, Slot
<1>14. FinishedAreGone'
  <2>1. SUFFICES ASSUME NEW i \in DOMAIN batches, batches[i].id # NoHandle
                 PROVE  LET k == batches[i].id IN
                        /\ batches[i].finished => ~Live(k)'
                        /\ batches[i].pushes = 0 /\ ~batches[i].finished => Slot(k)'.toStart > 0
    BY <1>3 DEF FinishedAreGone, Live, Slot
  <2>2. PICK k \in Ids : k = batches[i].id /\ k.slot \in Slots
    BY <1>5, <2>1, HandleOf
  <2>3. /\ batches[i].finished => ~Live(k)
        /\ batches[i].pushes = 0 /\ ~batches[i].finished => Slot(k).toStart > 0
    BY <1>5, <2>1, <2>2 DEF FinishedAreGone
  <2>4. CASE k.slot = r
    BY <1>3, <1>6, <1>11, <2>2, <2>3, <2>4 DEF Live, Slot
  <2>5. CASE k.slot # r
    BY <1>3, <1>6, <2>2, <2>3, <2>5 DEF Live, Slot
  <2> QED BY <2>2, <2>4, <2>5
<1>15. WorkPending'
  BY <1>3, <1>7, BatchesSame DEF WorkInv, WorkPending
<1> QED BY <1>8, <1>9, <1>10, <1>12, <1>13, <1>14, <1>15, JobsParts DEF WorkInv

\* A call that moves on from taking down the fence, or ends, and counts otherwise.
LEMMA DropFenceWork ==
  ASSUME PoolInv, FenceInv, WorkInv, NEW t \in Threads, DropFence(t)
  PROVE  WorkInv'
<1>1. UNCHANGED <<slots, free, queue, allWork, batches, issued>> /\ (NoStray => NoStray')
  BY DropFenceDoes
<1>2. PICK x, h, f, y, z :
        /\ GoesOn(t, x, h, f, y, z)
        /\ h.at = "dependents" /\ f.at = "reclaim" /\ f.id = h.id
  BY DropFenceDoes
<1>3. /\ Recount(x, h, f, y, z) /\ Uncounted(z) /\ h \in CallFrames /\ f \in CallFrames
  BY <1>2 DEF GoesOn, Recount
<1>4. /\ \A s : f \notin RunningFrames(s) /\ h \notin RunningFrames(s)
      /\ \A k : f \notin RunFrames(k) /\ h \notin RunFrames(k)
      /\ f \notin DoneFrames /\ h \notin DoneFrames
      /\ \A s : f \in ReleaseFrames(s) <=> h \in ReleaseFrames(s)
  BY <1>2, <1>3 DEF RunningFrames, RunFrames, DoneFrames, ReleaseFrames, RunPoints, DonePoints,
     ReleasePoints
<1>5. /\ \A s : CallsIn(RunningFrames(s))' = CallsIn(RunningFrames(s))
      /\ \A k : CallsIn(RunFrames(k))' = CallsIn(RunFrames(k))
      /\ CallsIn(DoneFrames)' = CallsIn(DoneFrames)
      /\ \A s : CallsIn(ReleaseFrames(s))' = CallsIn(ReleaseFrames(s))
  BY <1>3, <1>4, SetsCount, RecountSets
<1>6. JobsKept /\ Passes /\ StayNatural
  BY <1>1, <1>5, SlotsKeptCalm, PassedOn DEF JobsKept, Gone, Listed, Busy, Running
<1>7. WorkPending'
  BY <1>1, <1>5, BatchesSame DEF WorkInv, WorkPending
<1> QED BY <1>6, <1>7, JobsKeptKeep DEF WorkInv, PoolInv

LEMMA DropReclaimWork ==
  ASSUME PoolInv, FenceInv, WorkInv, NEW t \in Threads, DropReclaim(t)
  PROVE  WorkInv'
<1>1. PICK h : h = Head(stack[t])
  OBVIOUS
<1>2. /\ stack[t] # <<>> /\ h.at = "reclaim" /\ free' = <<Id(t).slot>> \o free
      /\ Continue(t, <<>>) /\ UNCHANGED <<slots, queue, workLeft, allWork, batches, issued>>
  BY <1>1 DEF DropReclaim, At
<1>3. PICK x, y, z : GoesOn(t, x, h, z, y, z)
  BY <1>1, <1>2, CallEnds
<1>4. NoStray => NoStray'
  BY <1>2, CallEnds
<1>5. PICK r \in Slots : r = h.id.slot /\ r = Id(t).slot
  BY <1>1, <1>2, Innermost
<1>6. Recount(x, h, z, y, z) /\ Uncounted(z) /\ h \in CallFrames /\ z \in CallFrames
  BY <1>3 DEF GoesOn, Recount
<1>7. /\ \A s : z \notin RunningFrames(s) /\ h \notin RunningFrames(s)
      /\ \A k : z \notin RunFrames(k) /\ h \notin RunFrames(k)
      /\ z \notin DoneFrames /\ h \notin DoneFrames
      /\ \A s : s # r => z \notin ReleaseFrames(s) /\ h \notin ReleaseFrames(s)
      /\ h \in ReleaseFrames(r)
  BY <1>2, <1>5, <1>6 DEF Uncounted, CountedPoints, RunningFrames, RunFrames, DoneFrames,
     ReleaseFrames, RunPoints, DonePoints, ReleasePoints
<1>8. /\ \A s : CallsIn(RunningFrames(s))' = CallsIn(RunningFrames(s))
      /\ \A k : CallsIn(RunFrames(k))' = CallsIn(RunFrames(k))
      /\ CallsIn(DoneFrames)' = CallsIn(DoneFrames)
      /\ \A s : s # r => CallsIn(ReleaseFrames(s))' = CallsIn(ReleaseFrames(s))
  BY <1>6, <1>7, SetsCount, RecountSets
<1>9. x \in CallsIn(ReleaseFrames(r))
  BY <1>6, <1>7, SetsCount, RecountSets
<1>10. Listed(r)' /\ \A s : s # r => (Listed(s)' <=> Listed(s))
  <2>1. /\ \A i \in DOMAIN free' : \/ i = 1 /\ free'[i] = r
                                   \/ i - 1 \in DOMAIN free /\ free'[i] = free[i - 1]
        /\ 1 \in DOMAIN free' /\ free'[1] = r
        /\ \A i \in DOMAIN free : i + 1 \in DOMAIN free' /\ free'[i + 1] = free[i]
    BY <1>2, <1>5, Prepended DEF PoolInv, PoolTyped
  <2> QED BY <2>1 DEF Listed
<1>11. \A s \in Slots : Gone(s)' <=> Gone(s)
  BY <1>8, <1>9, <1>10 DEF Gone
<1>12. JobsKept /\ Passes /\ StayNatural
  BY <1>2, <1>4, <1>8, <1>11, SlotsKeptCalm, PassedOn DEF JobsKept, Busy, Running
<1>13. WorkPending'
  BY <1>2, <1>8, BatchesSame DEF WorkInv, WorkPending
<1> QED BY <1>12, <1>13, JobsKeptKeep DEF WorkInv, PoolInv

\* What FinishedAreGone says of one batch, now and after a step.
LEMMA FinishedNow ==
  ASSUME FinishedAreGone, NEW i \in DOMAIN batches, NEW k, k = batches[i].id, k # NoHandle
  PROVE  /\ batches[i].finished =>
              ~(slots[k.slot].generation = k.gen /\ slots[k.slot].remainingJobs > 0)
         /\ batches[i].pushes = 0 /\ ~batches[i].finished => slots[k.slot].toStart > 0
BY DEF FinishedAreGone, Live, Slot

LEMMA FinishedNext ==
  ASSUME \A i \in DOMAIN batches' : \A k :
           k = batches'[i].id /\ k # NoHandle =>
             /\ batches'[i].finished =>
                  ~(slots'[k.slot].generation = k.gen /\ slots'[k.slot].remainingJobs > 0)
             /\ batches'[i].pushes = 0 /\ ~batches'[i].finished => slots'[k.slot].toStart > 0
  PROVE  FinishedAreGone'
BY DEF FinishedAreGone, Live, Slot

\* A record of a batch keeps the handles of the history.
LEMMA IssuedKept ==
  ASSUME GenerationsIssued, UNCHANGED issued, Len(batches') = Len(batches),
         DOMAIN batches' = DOMAIN batches,
         \A i \in DOMAIN batches : batches'[i].id = batches[i].id,
         \A s \in Slots : /\ slots'[s].generation = slots[s].generation
                          /\ Gone(s)' <=> Gone(s)
  PROVE  GenerationsIssued'
BY DEF GenerationsIssued

\* When a push finds room the batch counts until it is done.
LEMMA PushWork ==
  ASSUME PushesFit, PoolInv, WaitInv, FenceInv, WorkInv,
         NEW t \in Threads, Push(t)
  PROVE  WorkInv'
<1>1. PICK h : h = Head(stack[t])
  OBVIOUS
<1>2. PICK d \in Ids : d = h.id /\ d # NoHandle /\ d.slot \in Slots
  BY <1>1, PushDoes, HandlesAreReal
<1>3. /\ stack[t] # <<>> /\ h.at = "push" /\ CountsKeptBy /\ (NoStray => NoStray')
      /\ UNCHANGED <<slots, free, workLeft, issued>>
      /\ \/ /\ UNCHANGED allWork /\ queue' = queue \cup {d} /\ Record(d, "pushes", Pushes(d) + 1)
         \/ ~(Cardinality(queue) < QueueSize)
  BY <1>1, <1>2, PushDoes
<1>4. Pushers(d) # {}
  <2>1. h \in PushFrames(d)
    BY <1>1, <1>2, <1>3, Innermost DEF PushFrames
  <2> QED BY <1>1, <1>3, <2>1, Innermost DEF Pushers
<1>5. Live(d) /\ Slot(d).toStart > 0 /\ ~Busy(d) /\ Unpushed(d)
  BY <1>4, PusherLives
<1>6. Cardinality(queue) < QueueSize
  BY DEF PushesFit, Push
<1>7. UNCHANGED allWork /\ queue' = queue \cup {d} /\ Record(d, "pushes", Pushes(d) + 1)
  BY <1>3, <1>6
<1>8. /\ PoolTyped /\ batches \in Seq(BatchStates) /\ HandlesPassed /\ GenerationsIssued
      /\ WaitsNatural /\ JobsOfSlots /\ BusyAreThere /\ QueuedHaveJobs /\ FinishedAreGone
  BY JobsParts DEF PoolInv, FenceInv, WorkInv
<1>9. Pushes(d) \in Nat
  BY <1>5, <1>8, PushesNatural DEF Unpushed
<1>10. /\ DOMAIN batches' = DOMAIN batches /\ Len(batches') = Len(batches)
       /\ \A i \in DOMAIN batches :
            /\ batches'[i].id = batches[i].id /\ batches'[i].finished = batches[i].finished
            /\ batches[i].id # d => batches'[i] = batches[i]
            /\ batches[i].id = d => batches'[i].pushes = Pushes(d) + 1
       /\ WorkLeaked' = WorkLeaked
  <2>1. PICK n \in Nat : n = Pushes(d) + 1
    BY <1>9
  <2>2. Record(d, "pushes", n) /\ \A i \in DOMAIN batches : batches[i].id = d => n \in Nat
    BY <1>7, <2>1
  <2> QED BY <1>8, <2>1, <2>2, Recorded
<1>11. /\ \A s : Running(s)' = Running(s) /\ Gone(s)' = Gone(s)
       /\ \A k : CallsIn(RunFrames(k))' = CallsIn(RunFrames(k))
       /\ CallsIn(DoneFrames)' = CallsIn(DoneFrames)
  BY <1>3, SetsCount DEF CountsKeptBy, Running, Gone, Listed
<1>12. HandlesPassed' /\ WaitsNatural'
  BY <1>3, <1>8 DEF HandlesPassed, NoStray, WaitsNatural
<1>13. GenerationsIssued'
  BY <1>3, <1>8, <1>10, <1>11, IssuedKept
<1>14. JobsOfSlots'
  BY <1>3, <1>8, <1>11 DEF JobsOfSlots
<1>15. BusyAreThere'
  <2>1. \A k : Busy(k)' => Busy(k) \/ k = d
    BY <1>7, <1>11 DEF Busy
  <2> QED BY <1>3, <1>5, <1>8, <2>1 DEF BusyAreThere, Live, Slot
<1>16. QueuedHaveJobs'
  BY <1>3, <1>5, <1>7, <1>8 DEF QueuedHaveJobs, Slot
<1>17. FinishedAreGone'
  <2>1. ASSUME NEW i \in DOMAIN batches', NEW k, k = batches'[i].id, k # NoHandle
        PROVE  /\ batches'[i].finished =>
                    ~(slots'[k.slot].generation = k.gen /\ slots'[k.slot].remainingJobs > 0)
               /\ batches'[i].pushes = 0 /\ ~batches'[i].finished => slots'[k.slot].toStart > 0
    <3>1. i \in DOMAIN batches /\ k = batches[i].id
      BY <1>10, <2>1
    <3>2. /\ batches[i].finished =>
                ~(slots[k.slot].generation = k.gen /\ slots[k.slot].remainingJobs > 0)
          /\ batches[i].pushes = 0 /\ ~batches[i].finished => slots[k.slot].toStart > 0
      BY <1>8, <2>1, <3>1, FinishedNow
    <3>3. batches'[i].pushes = 0 => batches'[i] = batches[i]
      BY <1>9, <1>10, <3>1
    <3> QED BY <1>3, <1>10, <3>1, <3>2, <3>3
  <2> QED BY <2>1, FinishedNext
<1>18. WorkPending'
  <2>1. Active' = Active
    BY <1>10 DEF Active
  <2> QED BY <1>7, <1>10, <1>11, <2>1 DEF WorkInv, WorkPending
<1> QED BY <1>12, <1>13, <1>14, <1>15, <1>16, <1>17, <1>18, JobsParts DEF WorkInv

LEMMA StartJobWork ==
  ASSUME PoolInv, WaitInv, FenceInv, WorkInv, NEW t \in Threads, StartJob(t)
  PROVE  WorkInv'
<1>1. PICK d, x, y, z, f : Starts(t, d, x, y, z, f)
  BY StartJobDoes
<1>2. /\ Recount(x, z, z, y, f) /\ Uncounted(z) /\ f.at = "job" /\ f.id = d
      /\ d \in queue /\ d \in Ids /\ d.slot \in Slots /\ f \in CallFrames
      /\ queue' = IF Slot(d).toStart = 1 THEN queue \ {d} ELSE queue
      /\ UNCHANGED <<free, workLeft, allWork, batches, issued>>
      /\ NoStray /\ d \in Handles => NoStray'
  BY <1>1 DEF Starts, Recount
<1>3. PICK r \in Slots, n \in Int : r = d.slot /\ n = slots[r].toStart /\ Set(r, "toStart", n - 1)
  <2>1. slots[d.slot].toStart \in Int
    BY <1>2 DEF PoolInv, PoolTyped, SlotStates
  <2> QED BY <1>1, <1>2, <2>1 DEF Starts, Slot
<1>4. /\ PoolTyped /\ batches \in Seq(BatchStates) /\ HandlesPassed /\ GenerationsIssued
      /\ WaitsNatural /\ JobsOfSlots /\ BusyAreThere /\ QueuedHaveJobs /\ FinishedAreGone
  BY JobsParts DEF PoolInv, FenceInv, WorkInv
<1>5. /\ \A s \in Slots : /\ slots'[s].generation = slots[s].generation
                          /\ slots'[s].dependents = slots[s].dependents
                          /\ slots'[s].dependencyCount = slots[s].dependencyCount
                          /\ slots'[s].remainingJobs = slots[s].remainingJobs
                          /\ s # r => slots'[s] = slots[s]
      /\ slots'[r].toStart = n - 1
  BY <1>3, <1>4, CountSet
<1>6. Busy(d) /\ n > 0
  BY <1>2, <1>3, <1>4 DEF Busy, QueuedHaveJobs, Slot
<1>7. PICK j \in DOMAIN batches : batches[j].id = d /\ batches[j].pushes > 0
  BY <1>2, <1>6, BusyIssued
<1>8. d \in issued /\ d \in Handles /\ d # NoHandle
  BY <1>2, <1>4, <1>6, BusyIssued, IssuedAreHandles, HandlesAreReal
<1>9. /\ f \in RunningFrames(r) /\ \A s : s # r => f \notin RunningFrames(s)
      /\ \A k : f \in RunFrames(k) <=> k = d
      /\ f \notin DoneFrames /\ \A s : f \notin ReleaseFrames(s)
  BY <1>2, <1>3 DEF RunningFrames, RunFrames, DoneFrames, ReleaseFrames, RunPoints, DonePoints,
     ReleasePoints
<1>10. /\ Running(r)' = Running(r) \cup {y} /\ y \notin Running(r)
       /\ \A s : s # r => Running(s)' = Running(s)
       /\ \A k : k # d => CallsIn(RunFrames(k))' = CallsIn(RunFrames(k))
       /\ CallsIn(DoneFrames)' = CallsIn(DoneFrames)
       /\ \A s : CallsIn(ReleaseFrames(s))' = CallsIn(ReleaseFrames(s))
  <2>1. CallsIn(RunningFrames(r))' = CallsIn(RunningFrames(r)) \cup {y}
        /\ y \notin CallsIn(RunningFrames(r))
    BY <1>2, <1>9, SetsCount, BeginSets
  <2>2. /\ \A s : s # r => CallsIn(RunningFrames(s))' = CallsIn(RunningFrames(s))
        /\ \A k : k # d => CallsIn(RunFrames(k))' = CallsIn(RunFrames(k))
        /\ CallsIn(DoneFrames)' = CallsIn(DoneFrames)
        /\ \A s : CallsIn(ReleaseFrames(s))' = CallsIn(ReleaseFrames(s))
    BY <1>2, <1>9, SetsCount, BeginSets
  <2> QED BY <2>1, <2>2 DEF Running
<1>11. \A s : Gone(s)' <=> Gone(s)
  BY <1>2, <1>10 DEF Gone, Listed
<1>12. HandlesPassed' /\ WaitsNatural'
  BY <1>2, <1>4, <1>5, <1>8 DEF HandlesPassed, NoStray, WaitsNatural
<1>13. GenerationsIssued'
  BY <1>2, <1>4, <1>5, <1>11, IssuedKept
<1>14. JobsOfSlots'
  <2>1. /\ IsFiniteSet(Running(r)') /\ slots'[r].toStart >= 0
        /\ slots'[r].remainingJobs = slots'[r].toStart + Cardinality(Running(r)')
    <3>1. /\ IsFiniteSet(Running(r))
          /\ slots[r].remainingJobs = n + Cardinality(Running(r))
      BY <1>3, <1>4 DEF JobsOfSlots
    <3>2. PICK c \in Nat : c = Cardinality(Running(r))
      BY <3>1, FS_CardinalityType
    <3>3. IsFiniteSet(Running(r)') /\ Cardinality(Running(r)') = c + 1
      <4>1. IsFiniteSet(Running(r) \cup {y}) /\ Cardinality(Running(r) \cup {y}) = c + 1
        BY <1>10, <3>1, <3>2, FS_AddElement
      <4> QED BY <1>10, <4>1
    <3> QED BY <1>5, <1>6, <3>1, <3>2, <3>3
  <2>2. \A s \in Slots : s # r => slots'[s] = slots[s] /\ Running(s)' = Running(s)
    BY <1>5, <1>10
  <2> QED BY <1>4, <2>1, <2>2 DEF JobsOfSlots
<1>15. BusyAreThere'
  <2>1. \A k : Busy(k)' => Busy(k)
    BY <1>2, <1>6, <1>10 DEF Busy
  <2> QED BY <1>4, <1>5, <2>1, HandlesAreReal DEF BusyAreThere, Slot
<1>16. \A k \in Ids : Busy(k) /\ k.slot = r => k = d
  BY <1>2, <1>3, <1>4, <1>6 DEF BusyAreThere, Slot, Ids
<1>17. QueuedHaveJobs'
  <2>1. SUFFICES ASSUME NEW k \in queue'
                 PROVE  slots'[k.slot].toStart > 0
    BY DEF QueuedHaveJobs, Slot
  <2>2. k \in queue /\ k \in Ids /\ k.slot \in Slots /\ Busy(k)
    BY <1>2, <1>4, HandlesAreReal DEF PoolTyped, Busy
  <2>3. CASE k.slot = r
    <3>1. k = d
      BY <1>16, <2>2, <2>3
    <3>2. n # 1
      BY <1>2, <1>3, <2>1, <3>1 DEF Slot
    <3> QED BY <1>5, <1>6, <2>3, <3>2
  <2>4. CASE k.slot # r
    BY <1>4, <1>5, <2>2, <2>4 DEF QueuedHaveJobs, Slot
  <2> QED BY <2>3, <2>4
<1>18. FinishedAreGone'
  <2>1. ASSUME NEW i \in DOMAIN batches', NEW k, k = batches'[i].id, k # NoHandle
        PROVE  /\ batches'[i].finished =>
                    ~(slots'[k.slot].generation = k.gen /\ slots'[k.slot].remainingJobs > 0)
               /\ batches'[i].pushes = 0 /\ ~batches'[i].finished => slots'[k.slot].toStart > 0
    <3>1. i \in DOMAIN batches /\ k = batches[i].id /\ batches'[i] = batches[i]
      BY <1>2, <2>1
    <3>2. k \in Ids /\ k.slot \in Slots
      BY <1>4, <2>1, <3>1, HandleOf
    <3>3. /\ batches[i].finished =>
                ~(slots[k.slot].generation = k.gen /\ slots[k.slot].remainingJobs > 0)
          /\ batches[i].pushes = 0 /\ ~batches[i].finished => slots[k.slot].toStart > 0
      BY <1>4, <2>1, <3>1, FinishedNow
    <3>4. CASE k.slot # r
      BY <1>5, <3>1, <3>2, <3>3, <3>4
    <3>5. CASE k.slot = r
      <4>1. ~(batches[i].pushes = 0 /\ ~batches[i].finished)
        <5>1. SUFFICES ASSUME batches[i].pushes = 0, ~batches[i].finished
                       PROVE  FALSE
          OBVIOUS
        <5>2. Live(k)
          BY <2>1, <3>1, <5>1 DEF WaitInv, BatchesPlaced
        <5>3. Slot(d).generation = d.gen
          BY <1>2, <1>4, <1>6 DEF BusyAreThere
        <5>4. k = d
          BY <1>2, <1>3, <3>2, <3>5, <5>2, <5>3 DEF Live, Slot, Ids
        <5>5. i = j
          BY <1>7, <1>8, <3>1, <5>4 DEF WaitInv, BatchesKnown
        <5> QED BY <1>7, <5>1, <5>5
      <4> QED BY <1>5, <3>1, <3>2, <3>3, <4>1
    <3> QED BY <3>4, <3>5
  <2> QED BY <2>1, FinishedNext
<1>19. WorkPending'
  BY <1>2, <1>10, BatchesSame DEF WorkInv, WorkPending
<1> QED BY <1>12, <1>13, <1>14, <1>15, <1>17, <1>18, <1>19, JobsParts DEF WorkInv

\* getSlot finds the batch of a job that is over: the job itself keeps it there.
LEMMA FinishJobWork ==
  ASSUME PoolInv, FenceInv, WorkInv, NEW t \in Threads, FinishJob(t)
  PROVE  WorkInv'
<1>1. PICK h : h = Head(stack[t])
  OBVIOUS
<1>2. PICK d \in Ids : d = h.id /\ d.slot \in Slots
  BY <1>1, FinishJobDoes, HandlesAreReal
<1>3. /\ stack[t] # <<>> /\ h.at = "job" /\ h \in CallFrames
      /\ UNCHANGED <<free, queue, workLeft, allWork, batches, issued>>
      /\ NoStray => NoStray'
      /\ \/ CountsKeptBy /\ Set(d.slot, "refCount", Slot(d).refCount + 1)
         \/ ~(Slot(d).generation = d.gen /\ Slot(d).refCount > 0)
  BY <1>1, <1>2, FinishJobDoes
<1>4. Busy(d)
  <2>1. h \in RunFrames(d)
    BY <1>2, <1>3 DEF RunFrames, RunPoints
  <2> QED BY <1>1, <1>3, <2>1, Innermost DEF Busy
<1>5. CountsKeptBy /\ Set(d.slot, "refCount", Slot(d).refCount + 1)
  BY <1>3, <1>4, BusyLives DEF Live, Slot
<1>6. /\ SlotsKeep /\ StayNatural
      /\ \A s \in Slots : /\ slots'[s].generation = slots[s].generation
                          /\ slots'[s].dependents = slots[s].dependents
  <2>1. PICK r \in Slots : r = d.slot
    BY <1>2
  <2>2. PICK n : n = Slot(d).refCount + 1
    OBVIOUS
  <2>3. Set(r, "refCount", n)
    BY <1>5, <2>1, <2>2
  <2> QED BY <2>3, RefSetCalm DEF PoolInv
<1>7. Calm /\ Passes
  BY <1>3, <1>5, <1>6, PassedOn DEF Calm
<1> QED BY <1>6, <1>7, CalmWork DEF PoolInv

\* A job that is over is one less to do; after the last one the batch is done, and
\* counts until processBatchCompletion says so.
LEMMA SignalCompleteWork ==
  ASSUME PoolInv, WaitInv, FenceInv, WorkInv, NEW t \in Threads, SignalComplete(t)
  PROVE  WorkInv'
<1>1. PICK h : h = Head(stack[t])
  OBVIOUS
<1>2. PICK d \in Ids : d = h.id /\ d # NoHandle /\ d.slot \in Slots
  BY <1>1, SignalCompleteDoes, HandlesAreReal
<1>3. PICK r \in Slots, m \in Int : r = d.slot /\ m = slots[r].remainingJobs
  BY <1>2 DEF PoolInv, PoolTyped, SlotStates
<1>4. /\ stack[t] # <<>> /\ h.at = "signal" /\ h \in CallFrames /\ Slot(d).generation = d.gen
      /\ Set(r, "remainingJobs", m - 1)
      /\ UNCHANGED <<free, queue, workLeft, allWork, issued>>
      /\ NoStray => NoStray'
      /\ \/ m - 1 # 0 /\ UNCHANGED batches /\ \E x, y, z : GoesOn(t, x, h, z, y, z)
         \/ /\ m - 1 = 0 /\ Record(d, "finished", TRUE)
            /\ \E x, f, y, z : GoesOn(t, x, h, f, y, z) /\ f.at = "complete"
  BY <1>1, <1>2, <1>3, SignalCompleteDoes
<1>5. PICK x, f, y, z :
        /\ GoesOn(t, x, h, f, y, z)
        /\ \/ m # 1 /\ UNCHANGED batches /\ Uncounted(f)
           \/ m = 1 /\ Record(d, "finished", TRUE) /\ f.at = "complete"
  <2>1. CASE m - 1 # 0 /\ UNCHANGED batches /\ \E x, y, z : GoesOn(t, x, h, z, y, z)
    <3>1. PICK x, y, z : GoesOn(t, x, h, z, y, z)
      BY <2>1
    <3>2. Uncounted(z) /\ m # 1
      BY <1>3, <2>1, <3>1 DEF GoesOn
    <3> QED BY <2>1, <3>1, <3>2
  <2>2. CASE /\ m - 1 = 0 /\ Record(d, "finished", TRUE)
             /\ \E x, f, y, z : GoesOn(t, x, h, f, y, z) /\ f.at = "complete"
    <3>1. m = 1
      BY <1>3, <2>2
    <3> QED BY <2>2, <3>1
  <2> QED BY <1>4, <2>1, <2>2
<1>6. /\ Recount(x, h, f, y, z) /\ Uncounted(z) /\ f \in CallFrames
      /\ f.at \in DonePoints \/ Uncounted(f)
  BY <1>5 DEF GoesOn, Recount, DonePoints
<1>7. /\ PoolTyped /\ batches \in Seq(BatchStates) /\ HandlesPassed /\ GenerationsIssued
      /\ WaitsNatural /\ JobsOfSlots /\ BusyAreThere /\ QueuedHaveJobs /\ FinishedAreGone
  BY JobsParts DEF PoolInv, FenceInv, WorkInv
<1>8. /\ \A s \in Slots : /\ slots'[s].generation = slots[s].generation
                          /\ slots'[s].dependents = slots[s].dependents
                          /\ slots'[s].dependencyCount = slots[s].dependencyCount
                          /\ slots'[s].toStart = slots[s].toStart
                          /\ s # r => slots'[s] = slots[s]
      /\ slots'[r].remainingJobs = m - 1
  BY <1>4, <1>7, CountSet
<1>9. /\ h \in RunningFrames(r) /\ \A s : s # r => h \notin RunningFrames(s)
      /\ \A s : f \notin RunningFrames(s)
      /\ \A k : f \notin RunFrames(k)
      /\ \A s : f \notin ReleaseFrames(s) /\ h \notin ReleaseFrames(s)
      /\ h \notin DoneFrames /\ h \in RunFrames(d)
      /\ f.at = "complete" => f \in DoneFrames
      /\ Uncounted(f) => f \notin DoneFrames
  BY <1>2, <1>3, <1>4, <1>6 DEF RunningFrames, RunFrames, DoneFrames, ReleaseFrames, RunPoints,
     DonePoints, ReleasePoints, Uncounted, CountedPoints
<1>10. /\ Running(r)' = Running(r) \ {x} /\ x \in Running(r)
       /\ \A s : s # r => Running(s)' = Running(s)
       /\ \A s : CallsIn(ReleaseFrames(s))' = CallsIn(ReleaseFrames(s))
       /\ \A k : CallsIn(RunFrames(k))' \subseteq CallsIn(RunFrames(k))
       /\ x \notin CallsIn(DoneFrames)
  <2>1. /\ CallsIn(RunningFrames(r))' = CallsIn(RunningFrames(r)) \ {x}
        /\ x \in CallsIn(RunningFrames(r)) /\ x \notin CallsIn(DoneFrames)
    BY <1>6, <1>9, SetsCount, RecountSets
  <2>2. /\ \A s : s # r => CallsIn(RunningFrames(s))' = CallsIn(RunningFrames(s))
        /\ \A s : CallsIn(ReleaseFrames(s))' = CallsIn(ReleaseFrames(s))
    BY <1>6, <1>9, SetsCount, RecountSets
  <2>3. \A k : CallsIn(RunFrames(k))' = CallsIn(RunFrames(k)) \ {x}
    BY <1>6, <1>9, SetsCount, RecountSets
  <2> QED BY <2>1, <2>2, <2>3 DEF Running
<1>11. \A s : Gone(s)' <=> Gone(s)
  BY <1>4, <1>10 DEF Gone, Listed
<1>12. Busy(d) /\ Live(d)
  <2>1. Busy(d)
    BY <1>1, <1>4, <1>9, Innermost DEF Busy
  <2> QED BY <2>1, BusyLives
<1>13. PICK j \in DOMAIN batches : batches[j].id = d /\ ~batches[j].finished
  BY <1>12, BusyIssued
<1>14. \A i \in DOMAIN batches : batches[i].id = d => i = j
  BY <1>2, <1>13 DEF WaitInv, BatchesKnown
<1>15. /\ DOMAIN batches' = DOMAIN batches /\ Len(batches') = Len(batches)
       /\ \A i \in DOMAIN batches :
            /\ batches'[i].id = batches[i].id /\ batches'[i].pushes = batches[i].pushes
            /\ batches[i].id # d => batches'[i] = batches[i]
            /\ batches[i].id = d => /\ m = 1 => batches'[i].finished
                                    /\ m # 1 => batches'[i] = batches[i]
       /\ WorkLeaked' = WorkLeaked
  <2>1. CASE UNCHANGED batches /\ m # 1
    BY <2>1, BatchesSame
  <2>2. CASE Record(d, "finished", TRUE) /\ m = 1
    <3>1. /\ DOMAIN batches' = DOMAIN batches /\ Len(batches') = Len(batches)
          /\ \A i \in DOMAIN batches :
               /\ batches'[i].id = batches[i].id /\ batches'[i].pushes = batches[i].pushes
               /\ batches[i].id # d => batches'[i] = batches[i]
               /\ batches[i].id = d => batches'[i].finished = TRUE
          /\ WorkLeaked' = WorkLeaked
      <4>0. PICK v : v = TRUE
        OBVIOUS
      <4>1. PICK field \in {"pushes", "finished"} : field = "finished" /\ v = TRUE
        BY <4>0
      <4>2. Record(d, field, v)
        BY <2>2, <4>1
      <4>3. \A i \in DOMAIN batches :
              batches[i].id = d => /\ field = "pushes" => v \in Nat
                                   /\ field = "finished" => v \in BOOLEAN
        BY <4>1
      <4>4. /\ DOMAIN batches' = DOMAIN batches
            /\ Len(batches') = Len(batches)
            /\ \A i \in DOMAIN batches :
                 /\ batches'[i].id = batches[i].id /\ batches'[i].deps = batches[i].deps
                 /\ batches'[i].fence = batches[i].fence
                 /\ field = "pushes" => batches'[i].finished = batches[i].finished
                 /\ field = "finished" => batches'[i].pushes = batches[i].pushes
                 /\ batches[i].id # d => batches'[i] = batches[i]
                 /\ batches[i].id = d => /\ field = "pushes" => batches'[i].pushes = v
                                         /\ field = "finished" => batches'[i].finished = v
            /\ Leaked' = Leaked /\ WorkLeaked' = WorkLeaked
        BY ONLY <1>7, <4>2, <4>3, Recorded, d \in Ids, field \in {"pushes", "finished"}
      <4> QED BY <4>1, <4>4
    <3> QED BY <2>2, <3>1
  <2> QED BY <1>5, <2>1, <2>2
<1>16. HandlesPassed' /\ WaitsNatural'
  BY <1>4, <1>7, <1>8 DEF HandlesPassed, NoStray, WaitsNatural
<1>17. GenerationsIssued'
  BY <1>4, <1>7, <1>8, <1>11, <1>15, IssuedKept
<1>18. JobsOfSlots'
  <2>1. /\ IsFiniteSet(Running(r)') /\ slots'[r].toStart >= 0
        /\ slots'[r].remainingJobs = slots'[r].toStart + Cardinality(Running(r)')
    <3>1. /\ IsFiniteSet(Running(r)) /\ slots[r].toStart >= 0
          /\ m = slots[r].toStart + Cardinality(Running(r))
      BY <1>3, <1>7 DEF JobsOfSlots
    <3>2. PICK c \in Nat, a \in Int : c = Cardinality(Running(r)) /\ a = slots[r].toStart
      BY <1>7, <3>1, FS_CardinalityType DEF PoolTyped, SlotStates
    <3>3. IsFiniteSet(Running(r)') /\ Cardinality(Running(r)') = c - 1
      <4>1. IsFiniteSet(Running(r) \ {x}) /\ Cardinality(Running(r) \ {x}) = c - 1
        BY <1>10, <3>1, <3>2, FS_RemoveElement
      <4> QED BY <1>10, <4>1
    <3> QED BY <1>8, <3>1, <3>2, <3>3
  <2>2. \A s \in Slots : s # r => slots'[s] = slots[s] /\ Running(s)' = Running(s)
    BY <1>8, <1>10
  <2> QED BY <1>7, <2>1, <2>2 DEF JobsOfSlots
<1>19. BusyAreThere'
  <2>1. \A k : Busy(k)' => Busy(k)
    BY <1>4, <1>10 DEF Busy
  <2> QED BY <1>7, <1>8, <2>1, HandlesAreReal DEF BusyAreThere, Slot
<1>20. QueuedHaveJobs'
  <2>1. \A k \in queue : k.slot \in Slots
    BY <1>7, HandlesAreReal DEF PoolTyped
  <2> QED BY <1>4, <1>7, <1>8, <2>1 DEF QueuedHaveJobs, Slot
<1>21. FinishedAreGone'
  <2>1. ASSUME NEW i \in DOMAIN batches', NEW k, k = batches'[i].id, k # NoHandle
        PROVE  /\ batches'[i].finished =>
                    ~(slots'[k.slot].generation = k.gen /\ slots'[k.slot].remainingJobs > 0)
               /\ batches'[i].pushes = 0 /\ ~batches'[i].finished => slots'[k.slot].toStart > 0
    <3>1. i \in DOMAIN batches /\ k = batches[i].id
      BY <1>15, <2>1
    <3>2. k \in Ids /\ k.slot \in Slots
      BY <1>7, <2>1, <3>1, HandleOf
    <3>3. /\ batches[i].finished =>
                ~(slots[k.slot].generation = k.gen /\ slots[k.slot].remainingJobs > 0)
          /\ batches[i].pushes = 0 /\ ~batches[i].finished => slots[k.slot].toStart > 0
      BY <1>7, <2>1, <3>1, FinishedNow
    <3>4. CASE k = d /\ m = 1
      <4>1. slots'[k.slot].remainingJobs = 0
        BY <1>3, <1>8, <3>4
      <4>2. batches'[i].finished
        BY <1>15, <3>1, <3>4
      <4> QED BY <4>1, <4>2
    <3>5. CASE ~(k = d /\ m = 1)
      <4>1. batches'[i] = batches[i]
        BY <1>15, <3>1, <3>5
      <4>2. CASE k.slot # r
        BY <1>8, <3>2, <3>3, <4>1, <4>2
      <4>3. CASE k.slot = r
        BY <1>3, <1>8, <3>2, <3>3, <4>1, <4>3
      <4> QED BY <4>2, <4>3
    <3> QED BY <3>4, <3>5
  <2> QED BY <2>1, FinishedNext
<1>22. WorkPending'
  <2>1. /\ IsFiniteSet(CallsIn(DoneFrames))
        /\ allWork = WorkLeaked + Cardinality(Active) + Cardinality(CallsIn(DoneFrames))
    BY DEF WorkInv, WorkPending
  <2>2. PICK w \in Nat, a \in Nat, c \in Nat :
          w = WorkLeaked /\ a = Cardinality(Active) /\ c = Cardinality(CallsIn(DoneFrames))
    BY <1>7, <2>1, LeakedNatural, FS_CardinalityType
  <2>3. CASE m # 1
    <3>1. Active' = Active
      BY <1>15, <2>3 DEF Active
    <3>2. CallsIn(DoneFrames)' = CallsIn(DoneFrames)
      <4>1. f \notin DoneFrames
        BY <1>5, <1>9, <2>3
      <4> QED BY <1>6, <1>9, <4>1, SetsCount, RecountSets
    <3> QED BY <1>4, <1>15, <2>1, <3>1, <3>2 DEF WorkPending
  <2>4. CASE m = 1
    <3>1. Active' = Active \ {j} /\ j \in Active
      BY <1>13, <1>14, <1>15, <2>4 DEF Active
    <3>2. Cardinality(Active') = a - 1
      <4>1. Cardinality(Active \ {j}) = a - 1
        BY <1>7, <2>2, <3>1, LeakedNatural, FS_RemoveElement
      <4> QED BY <3>1, <4>1
    <3>3. CallsIn(DoneFrames)' = CallsIn(DoneFrames) \cup {x}
      <4>1. f \in DoneFrames
        BY <1>5, <1>9, <2>4
      <4> QED BY <1>6, <4>1, SetsCount, RecountSets
    <3>4. IsFiniteSet(CallsIn(DoneFrames)') /\ Cardinality(CallsIn(DoneFrames)') = c + 1
      <4>1. /\ IsFiniteSet(CallsIn(DoneFrames) \cup {x})
            /\ Cardinality(CallsIn(DoneFrames) \cup {x}) = c + 1
        BY <1>10, <2>1, <2>2, FS_AddElement
      <4> QED BY <3>3, <4>1
    <3>5. allWork' = WorkLeaked' + Cardinality(Active') + Cardinality(CallsIn(DoneFrames)')
      BY <1>4, <1>15, <2>1, <2>2, <3>2, <3>4
    <3> QED BY <3>4, <3>5 DEF WorkPending
  <2> QED BY <2>3, <2>4
<1> QED BY <1>16, <1>17, <1>18, <1>19, <1>20, <1>21, <1>22, JobsParts DEF WorkInv

LEMMA WorkDoneWork ==
  ASSUME PoolInv, FenceInv, WorkInv, NEW t \in Threads, WorkDone(t)
  PROVE  WorkInv'
<1>1. PICK h : h = Head(stack[t])
  OBVIOUS
<1>2. /\ stack[t] # <<>> /\ h.at = "workDone" /\ Continue(t, <<>>) /\ allWork' = allWork - 1
      /\ UNCHANGED <<slots, free, queue, workLeft, batches, issued>>
  BY <1>1 DEF WorkDone, At
<1>3. PICK x, y, z : GoesOn(t, x, h, z, y, z)
  BY <1>1, <1>2, CallEnds
<1>4. NoStray => NoStray'
  BY <1>2, CallEnds
<1>5. Recount(x, h, z, y, z) /\ Uncounted(z) /\ h \in CallFrames /\ z \in CallFrames
  BY <1>3 DEF GoesOn, Recount
<1>6. /\ \A s : z \notin RunningFrames(s) /\ h \notin RunningFrames(s)
      /\ \A k : z \notin RunFrames(k) /\ h \notin RunFrames(k)
      /\ \A s : z \notin ReleaseFrames(s) /\ h \notin ReleaseFrames(s)
      /\ z \notin DoneFrames /\ h \in DoneFrames
  BY <1>2, <1>5 DEF Uncounted, CountedPoints, RunningFrames, RunFrames, DoneFrames,
     ReleaseFrames, RunPoints, DonePoints, ReleasePoints
<1>7. /\ \A s : CallsIn(RunningFrames(s))' = CallsIn(RunningFrames(s))
      /\ \A k : CallsIn(RunFrames(k))' = CallsIn(RunFrames(k))
      /\ \A s : CallsIn(ReleaseFrames(s))' = CallsIn(ReleaseFrames(s))
  BY <1>5, <1>6, SetsCount, RecountSets
<1>8. CallsIn(DoneFrames)' = CallsIn(DoneFrames) \ {x} /\ x \in CallsIn(DoneFrames)
  BY <1>5, <1>6, SetsCount, RecountSets
<1>9. JobsKept /\ Passes /\ StayNatural
  BY <1>2, <1>4, <1>7, SlotsKeptCalm, PassedOn DEF JobsKept, Gone, Listed, Busy, Running
<1>10. WorkPending'
  <2>1. /\ IsFiniteSet(CallsIn(DoneFrames))
        /\ allWork = WorkLeaked + Cardinality(Active) + Cardinality(CallsIn(DoneFrames))
    BY DEF WorkInv, WorkPending
  <2>2. PICK w \in Nat, a \in Nat, c \in Nat :
          w = WorkLeaked /\ a = Cardinality(Active) /\ c = Cardinality(CallsIn(DoneFrames))
    BY <2>1, LeakedNatural, FS_CardinalityType DEF FenceInv
  <2>3. IsFiniteSet(CallsIn(DoneFrames)') /\ Cardinality(CallsIn(DoneFrames)') = c - 1
    <3>1. /\ IsFiniteSet(CallsIn(DoneFrames) \ {x})
          /\ Cardinality(CallsIn(DoneFrames) \ {x}) = c - 1
      BY <1>8, <2>1, <2>2, FS_RemoveElement
    <3> QED BY <1>8, <3>1
  <2>4. WorkLeaked' = WorkLeaked /\ Active' = Active
    BY <1>2, BatchesSame
  <2>5. allWork' = WorkLeaked' + Cardinality(Active') + Cardinality(CallsIn(DoneFrames)')
    BY <1>2, <2>1, <2>2, <2>3, <2>4
  <2> QED BY <2>3, <2>5 DEF WorkPending
<1> QED BY <1>9, <1>10, JobsKeptKeep DEF WorkInv, PoolInv

\* The batch gets a slot that had no jobs and no batch of the history in it.
LEMMA SubmitWork ==
  ASSUME PoolInv, WaitInv, FenceInv, WorkInv, NEW r, NEW d, NEW deps, NEW size, NEW fenced, NEW b,
         Submits(r, d, deps, size, fenced, b)
  PROVE  WorkInv'
<1>1. /\ r \in Slots /\ d \in Ids /\ d.slot = r /\ d.gen = slots[r].generation
      /\ Listed(r) /\ ~Listed(r)' /\ \A s : s # r => (Listed(s)' <=> Listed(s))
      /\ CountsKeptBy /\ \A s \in Slots : s # r => slots'[s] = slots[s]
      /\ slots'[r].generation = slots[r].generation /\ slots'[r].dependencyCount >= 0
      /\ slots'[r].dependents = <<>>
      /\ slots'[r].remainingJobs = size /\ slots'[r].toStart = size
      /\ size \in Nat /\ size > 0
  BY DEF Submits
<1>2. /\ b \in BatchStates /\ b.id = d /\ b.pushes = 0 /\ ~b.finished
      /\ batches' = Append(batches, b) /\ Len(batches) < MaxBatches
      /\ issued' = issued \cup {d} /\ queue' = queue /\ allWork' = allWork + 1
      /\ \A i \in DOMAIN deps : deps[i] \in issued
      /\ NoStray /\ d \in Handles /\ Known(deps) => NoStray'
  BY DEF Submits
<1>3. /\ PoolTyped /\ batches \in Seq(BatchStates) /\ HandlesPassed /\ GenerationsIssued
      /\ WaitsNatural /\ JobsOfSlots /\ BusyAreThere /\ QueuedHaveJobs /\ FinishedAreGone
  BY JobsParts DEF PoolInv, FenceInv, WorkInv
<1>4. d # NoHandle /\ d.gen \in Nat
  BY <1>1, HandlesAreReal
<1>5. PICK n : n = Len(batches) + 1
  OBVIOUS
<1>6. /\ Len(batches') = n /\ n \in DOMAIN batches' /\ batches'[n] = b /\ n \notin DOMAIN batches
      /\ \A i \in DOMAIN batches : i \in DOMAIN batches' /\ batches'[i] = batches[i]
      /\ \A i \in DOMAIN batches' : i \in DOMAIN batches \/ i = n
      /\ WorkLeaked' = WorkLeaked /\ Cardinality(Active') = Cardinality(Active) + 1
  BY <1>2, <1>3, <1>4, <1>5, Lengthened
<1>7. /\ \A s : /\ Running(s)' = Running(s)
                /\ CallsIn(ReleaseFrames(s))' = CallsIn(ReleaseFrames(s))
      /\ \A k : CallsIn(RunFrames(k))' = CallsIn(RunFrames(k))
      /\ CallsIn(DoneFrames)' = CallsIn(DoneFrames)
  BY <1>1, SetsCount DEF CountsKeptBy, Running
<1>8. ~(slots[r].refCount > 0) /\ CallsIn(ReleaseFrames(r)) = {}
  BY <1>1, ReclaimersDrop DEF PoolInv, SlotsPlaced
<1>9. /\ Gone(r) /\ ~Gone(r)' /\ \A s : s # r => (Gone(s)' <=> Gone(s))
  BY <1>1, <1>7, <1>8 DEF Gone
<1>10. Running(r) = {}
  BY <1>1, <1>8, IdleSlot
<1>11. \A s \in Slots : slots'[s].generation = slots[s].generation
  BY <1>1
<1>12. HandlesPassed'
  <2>1. d \in Handles
    <3>1. d.gen \in 0 .. MaxBatches
      BY <1>1, <1>3, <1>4, PoolAssumption DEF HandlesPassed
    <3> QED BY <1>1, <3>1 DEF Ids, Handles
  <2>2. Known(deps)
    BY <1>2, <1>3, IssuedAreHandles DEF Known
  <2>3. NoStray'
    BY <1>2, <1>3, <2>1, <2>2 DEF HandlesPassed, NoStray
  <2>4. \A s \in Slots : \A i \in DOMAIN slots'[s].dependents : slots'[s].dependents[i] \in Handles
    BY <1>1, <1>3 DEF HandlesPassed
  <2> QED BY <1>3, <1>11, <2>3, <2>4 DEF HandlesPassed, NoStray
<1>13. GenerationsIssued'
  <2>1. Len(batches') <= MaxBatches
    <3>1. PICK m \in Nat : m = Len(batches)
      BY <1>3, LenProperties
    <3> QED BY <1>2, <1>5, <1>6, <3>1, PoolAssumption
  <2>2. \A i \in DOMAIN batches' : batches'[i].id # NoHandle => batches'[i].id \in issued'
    BY <1>2, <1>3, <1>6 DEF GenerationsIssued
  <2>3. \A s \in Slots : \A m \in Nat :
          m < slots'[s].generation => [slot |-> s, gen |-> m] \in issued'
    BY <1>2, <1>3, <1>11 DEF GenerationsIssued
  <2>4. \A s \in Slots : ~Gone(s)' => [slot |-> s, gen |-> slots'[s].generation] \in issued'
    <3>1. [slot |-> r, gen |-> slots[r].generation] = d
      BY <1>1 DEF Ids
    <3> QED BY <1>2, <1>3, <1>9, <1>11, <3>1 DEF GenerationsIssued
  <2> QED BY <2>1, <2>2, <2>3, <2>4 DEF GenerationsIssued
<1>14. WaitsNatural'
  BY <1>1, <1>3 DEF WaitsNatural
<1>15. JobsOfSlots'
  <2>1. /\ IsFiniteSet(Running(r)') /\ slots'[r].toStart >= 0
        /\ slots'[r].remainingJobs = slots'[r].toStart + Cardinality(Running(r)')
    <3>1. Running(r)' = {}
      BY <1>7, <1>10
    <3>2. IsFiniteSet(Running(r)') /\ Cardinality(Running(r)') = 0
      BY <3>1, FS_EmptySet
    <3> QED BY <1>1, <3>2
  <2>2. \A s \in Slots : s # r => slots'[s] = slots[s] /\ Running(s)' = Running(s)
    BY <1>1, <1>7
  <2> QED BY <1>3, <2>1, <2>2 DEF JobsOfSlots
<1>16. BusyAreThere'
  <2>1. \A k : Busy(k)' <=> Busy(k)
    BY <1>2, <1>7 DEF Busy
  <2> QED BY <1>3, <1>11, <2>1, HandlesAreReal DEF BusyAreThere, Slot
<1>17. QueuedHaveJobs'
  <2>1. \A k \in queue : k.slot \in Slots
    BY <1>3, HandlesAreReal DEF PoolTyped
  <2> QED BY <1>1, <1>2, <1>3, <2>1 DEF QueuedHaveJobs, Slot
<1>18. FinishedAreGone'
  <2>1. ASSUME NEW i \in DOMAIN batches', NEW k, k = batches'[i].id, k # NoHandle
        PROVE  /\ batches'[i].finished =>
                    ~(slots'[k.slot].generation = k.gen /\ slots'[k.slot].remainingJobs > 0)
               /\ batches'[i].pushes = 0 /\ ~batches'[i].finished => slots'[k.slot].toStart > 0
    <3>1. CASE i = n
      BY <1>1, <1>2, <1>6, <2>1, <3>1
    <3>2. CASE i \in DOMAIN batches
      <4>1. k = batches[i].id /\ batches'[i] = batches[i]
        BY <1>6, <2>1, <3>2
      <4>2. k \in Ids /\ k.slot \in Slots
        BY <1>3, <2>1, <3>2, <4>1, HandleOf
      <4>3. /\ batches[i].finished =>
                  ~(slots[k.slot].generation = k.gen /\ slots[k.slot].remainingJobs > 0)
            /\ batches[i].pushes = 0 /\ ~batches[i].finished => slots[k.slot].toStart > 0
        BY <1>3, <2>1, <3>2, <4>1, FinishedNow
      <4>4. CASE k.slot # r
        BY <1>1, <4>1, <4>2, <4>3, <4>4
      <4>5. CASE k.slot = r
        <5>1. k.gen < slots[r].generation
          BY <1>9, <2>1, <3>2, <4>1, <4>5 DEF WaitInv, BatchesPlaced, Slot
        <5>2. slots[r].generation \in Nat /\ k.gen \in Nat
          BY <1>1, <1>4, <4>2, HandlesAreReal
        <5>3. slots'[r].generation # k.gen
          BY <1>1, <5>1, <5>2
        <5> QED BY <1>1, <4>5, <5>3
      <4> QED BY <4>4, <4>5
    <3> QED BY <1>6, <2>1, <3>1, <3>2
  <2> QED BY <2>1, FinishedNext
<1>19. WorkPending'
  <2>1. /\ IsFiniteSet(CallsIn(DoneFrames))
        /\ allWork = WorkLeaked + Cardinality(Active) + Cardinality(CallsIn(DoneFrames))
    BY DEF WorkInv, WorkPending
  <2>2. PICK w \in Nat, a \in Nat, c \in Nat :
          w = WorkLeaked /\ a = Cardinality(Active) /\ c = Cardinality(CallsIn(DoneFrames))
    BY <1>3, <2>1, LeakedNatural, FS_CardinalityType
  <2>3. allWork' = WorkLeaked' + Cardinality(Active') + Cardinality(CallsIn(DoneFrames)')
    BY <1>2, <1>6, <1>7, <2>1, <2>2
  <2> QED BY <1>7, <2>1, <2>3 DEF WorkPending
<1> QED BY <1>12, <1>13, <1>14, <1>15, <1>16, <1>17, <1>18, <1>19, JobsParts DEF WorkInv

LEMMA SubmitFailsWork ==
  ASSUME PoolInv, FenceInv, WorkInv, NEW t \in Threads, NEW fenced \in BOOLEAN,
         NEW deps \in DependencyLists(t), SubmitFails(t, fenced, deps)
  PROVE  WorkInv'
<1>1. PICK b \in BatchStates :
           /\ b.id = NoHandle /\ b.finished /\ (b.deps = {} <=> deps = <<>>)
           /\ batches' = Append(batches, b) /\ Len(batches) < MaxBatches
           /\ allWork' = allWork + (IF deps = <<>> THEN 0 ELSE 1)
           /\ UNCHANGED <<slots, free, queue, stack, issued>>
  BY SubmitFailsDoes DEF PoolInv
<1>2. /\ PoolTyped /\ batches \in Seq(BatchStates) /\ HandlesPassed /\ GenerationsIssued
      /\ WaitsNatural /\ JobsOfSlots /\ BusyAreThere /\ QueuedHaveJobs /\ FinishedAreGone
  BY JobsParts DEF PoolInv, FenceInv, WorkInv
<1>3. PICK n : n = Len(batches) + 1
  OBVIOUS
<1>4. PICK a \in {0, 1} : a = IF b.deps = {} THEN 0 ELSE 1
  OBVIOUS
<1>5. /\ Len(batches') = n /\ batches'[n] = b /\ n \notin DOMAIN batches
      /\ \A i \in DOMAIN batches : i \in DOMAIN batches' /\ batches'[i] = batches[i]
      /\ \A i \in DOMAIN batches' : i \in DOMAIN batches \/ i = n
      /\ WorkLeaked' = WorkLeaked + (IF b.deps = {} THEN 0 ELSE 1)
      /\ Cardinality(Active') = Cardinality(Active) + (IF b.finished THEN 0 ELSE 1)
  BY <1>1, <1>2, <1>3, Lengthened
<1>6. /\ \A F : CallsIn(F)' = CallsIn(F)
      /\ \A s : Listed(s)' = Listed(s) /\ Gone(s)' = Gone(s)
  BY <1>1, StacksSame
<1>7. /\ \A s : Running(s)' = Running(s)
      /\ \A k : Busy(k)' <=> Busy(k)
      /\ CallsIn(DoneFrames)' = CallsIn(DoneFrames) /\ CallsIn(StrayFrames)' = CallsIn(StrayFrames)
  <2>1. /\ \A s : CallsIn(RunningFrames(s))' = CallsIn(RunningFrames(s))
        /\ \A k : CallsIn(RunFrames(k))' = CallsIn(RunFrames(k))
        /\ CallsIn(DoneFrames)' = CallsIn(DoneFrames) /\ CallsIn(StrayFrames)' = CallsIn(StrayFrames)
    BY <1>6
  <2> QED BY <1>1, <2>1 DEF Running, Busy
<1>8. HandlesPassed' /\ WaitsNatural'
  BY <1>1, <1>2, <1>7 DEF HandlesPassed, WaitsNatural
<1>9. GenerationsIssued'
  <2>1. Len(batches') <= MaxBatches
    <3>1. PICK m \in Nat : m = Len(batches)
      BY <1>2, LenProperties
    <3> QED BY <1>1, <1>3, <1>5, <3>1, PoolAssumption
  <2>2. \A i \in DOMAIN batches' : batches'[i].id # NoHandle => batches'[i].id \in issued'
    BY <1>1, <1>2, <1>5 DEF GenerationsIssued
  <2> QED BY <1>1, <1>2, <1>6, <2>1, <2>2 DEF GenerationsIssued
<1>10. JobsOfSlots' /\ BusyAreThere' /\ QueuedHaveJobs'
  BY <1>1, <1>2, <1>7 DEF JobsOfSlots, BusyAreThere, QueuedHaveJobs, Slot
<1>11. FinishedAreGone'
  <2>1. ASSUME NEW i \in DOMAIN batches', NEW k, k = batches'[i].id, k # NoHandle
        PROVE  /\ batches'[i].finished =>
                    ~(slots'[k.slot].generation = k.gen /\ slots'[k.slot].remainingJobs > 0)
               /\ batches'[i].pushes = 0 /\ ~batches'[i].finished => slots'[k.slot].toStart > 0
    <3>1. i \in DOMAIN batches /\ batches'[i] = batches[i] /\ k = batches[i].id
      BY <1>1, <1>5, <2>1
    <3> QED BY <1>1, <1>2, <2>1, <3>1, FinishedNow
  <2> QED BY <2>1, FinishedNext
<1>12. WorkPending'
  <2>1. /\ IsFiniteSet(CallsIn(DoneFrames))
        /\ allWork = WorkLeaked + Cardinality(Active) + Cardinality(CallsIn(DoneFrames))
    BY DEF WorkInv, WorkPending
  <2>2. PICK w \in Nat, c \in Nat, d \in Nat :
          w = WorkLeaked /\ c = Cardinality(Active) /\ d = Cardinality(CallsIn(DoneFrames))
    BY <1>2, <2>1, LeakedNatural, FS_CardinalityType
  <2>3. allWork' = allWork + a /\ WorkLeaked' = WorkLeaked + a /\ Cardinality(Active') = c
    <3>1. Cardinality(Active') = Cardinality(Active) + 0
      BY <1>1, <1>5
    <3> QED BY <1>1, <1>4, <1>5, <2>2, <3>1
  <2>4. allWork' = WorkLeaked' + Cardinality(Active') + Cardinality(CallsIn(DoneFrames)')
    BY <1>4, <1>7, <2>1, <2>2, <2>3
  <2> QED BY <1>7, <2>1, <2>4 DEF WorkPending
<1> QED BY <1>8, <1>9, <1>10, <1>11, <1>12, JobsParts DEF WorkInv

LEMMA UnchangedCalm ==
  ASSUME UNCHANGED vars
  PROVE  Calm /\ Passes /\ StayNatural
<1>1. UNCHANGED <<slots, free, queue, workLeft, allWork, stack, batches, issued>>
  BY DEF vars
<1>2. CountsKeptBy /\ (NoStray => NoStray')
  BY <1>1, StacksSame DEF CountsKeptBy, NoStray
<1> QED BY <1>1, <1>2, SlotsKeptCalm, PassedOn DEF Calm

----------------------------------------------------------------------------
(* The invariant of the fences *)

LEMMA WorkInvStep ==
  ASSUME PushesFit, PoolInv, WaitInv, FenceInv, WorkInv, [Next]_vars
  PROVE  WorkInv'
<1>1. ASSUME NEW t \in Threads, Step(t)
      PROVE  WorkInv'
  <2>1. CASE \/ PinCheck(t) \/ PinTake(t) \/ PinVerify(t) \/ Unpin(t) \/ DropNextDependent(t)
             \/ DropResolve(t) \/ AddDependent(t) \/ RegisterDependent(t) \/ ReleaseGuard(t)
             \/ CompleteBatch(t)
    <3>1. Calm /\ Passes /\ StayNatural
      BY <2>1, PinCheckCalm, PinTakeCalm, PinVerifyCalm, UnpinCalm, DropNextDependentCalm,
         DropResolveCalm, AddDependentCalm, RegisterDependentCalm, ReleaseGuardCalm,
         CompleteBatchCalm
    <3> QED BY <3>1, CalmWork DEF PoolInv
  <2>2. CASE \/ DropInvalidate(t) \/ DropFence(t) \/ DropReclaim(t) \/ Push(t) \/ StartJob(t)
             \/ FinishJob(t) \/ SignalComplete(t) \/ WorkDone(t)
    BY <2>2, DropInvalidateWork, DropFenceWork, DropReclaimWork, PushWork,
       StartJobWork, FinishJobWork, SignalCompleteWork, WorkDoneWork
  <2> QED BY <1>1, <2>1, <2>2 DEF Step
<1>2. ASSUME NEW t \in Threads, SubmitSome(t)
      PROVE  WorkInv'
  <2>1. PICK fenced \in {FALSE, t = Main}, deps \in DependencyLists(t) :
          \/ \E size \in Sizes : Submit(t, size, fenced, deps)
          \/ SubmitFails(t, fenced, deps)
    BY <1>2 DEF SubmitSome
  <2>2. fenced \in BOOLEAN
    BY <2>1
  <2>3. CASE SubmitFails(t, fenced, deps)
    BY <2>2, <2>3, SubmitFailsWork
  <2>4. ASSUME NEW size \in Sizes, Submit(t, size, fenced, deps)
        PROVE  WorkInv'
    <3>1. PICK r, d, b : Submits(r, d, deps, size, fenced, b)
      BY <2>2, <2>4, SubmitDoes
    <3> QED BY <3>1, SubmitWork
  <2> QED BY <2>1, <2>3, <2>4
<1>3. CASE UNCHANGED vars
  BY <1>3, UnchangedCalm, CalmWork DEF PoolInv
<1> QED BY <1>1, <1>2, <1>3 DEF Next, Rest

LEMMA WorkInvInit == Init => WorkInv
<1> SUFFICES ASSUME Init
             PROVE  WorkInv
  OBVIOUS
<1> DEFINE none == <<>>
<1>1. \A t \in Threads : stack[t] = none /\ Len(none) = 0
  BY DEF Init
<1>2. Calls = {}
  BY <1>1 DEF Calls
<1>3. \A F : CallsIn(F) = {}
  BY <1>2 DEF CallsIn
<1>4. /\ batches = none /\ DOMAIN none = {} /\ issued = {} /\ queue = {} /\ allWork = 0
  BY DEF Init
<1>5. \A s \in Slots :
        /\ slots[s].dependents = none /\ slots[s].generation = 0 /\ slots[s].dependencyCount = 0
        /\ slots[s].remainingJobs = 0 /\ slots[s].toStart = 0
  BY DEF Init, EmptySlot
<1>6. \A s \in Slots : Listed(s)
  <2>1. DOMAIN free = Slots /\ \A i \in Slots : free[i] = i
    BY DEF Init
  <2> QED BY <2>1 DEF Listed
<1> HIDE DEF none
<1>7. HandlesPassed
  BY <1>3, <1>4, <1>5, PoolAssumption DEF HandlesPassed
<1>8. GenerationsIssued
  <2>1. \A s \in Slots : Gone(s)
    BY <1>6 DEF Gone
  <2>2. \A n \in Nat : ~(n < 0)
    OBVIOUS
  <2>3. Len(batches) = 0
    BY <1>1, <1>4 DEF none, Init
  <2> QED BY <1>4, <1>5, <2>1, <2>2, <2>3, PoolAssumption DEF GenerationsIssued
<1>9. WaitsNatural
  BY <1>5 DEF WaitsNatural
<1>10. \A s : Running(s) = {}
  <2>1. \A s : CallsIn(RunningFrames(s)) = {}
    BY <1>3
  <2> QED BY <2>1 DEF Running
<1>11. JobsOfSlots
  BY <1>5, <1>10, FS_EmptySet DEF JobsOfSlots
<1>12. BusyAreThere /\ QueuedHaveJobs /\ FinishedAreGone
  <2>1. \A k : ~Busy(k)
    BY <1>3, <1>4 DEF Busy
  <2> QED BY <1>4, <2>1 DEF BusyAreThere, QueuedHaveJobs, FinishedAreGone
<1>13. WorkPending
  <2>1. Active = {} /\ Failed = {}
    BY <1>4 DEF Active, Failed
  <2>2. {i \in Failed : batches[i].deps # {}} = {}
    BY <2>1
  <2>3. WorkLeaked = 0 /\ Cardinality(Active) = 0
    BY <2>1, <2>2, FS_EmptySet DEF WorkLeaked
  <2>4. IsFiniteSet(CallsIn(DoneFrames)) /\ Cardinality(CallsIn(DoneFrames)) = 0
    BY <1>3, FS_EmptySet
  <2> QED BY <1>4, <2>3, <2>4 DEF WorkPending
<1> QED BY <1>7, <1>8, <1>9, <1>11, <1>12, <1>13, JobsParts DEF WorkInv

----------------------------------------------------------------------------
(* What a fence that is down means *)

\* A call in flight is counted among those of its frame.
LEMMA FlightCounted ==
  ASSUME PoolTyped, NEW t \in Threads, NEW f \in Frames(t)
  PROVE  f \in CallFrames /\ \A F : f \in F => CallsIn(F) # {}
<1>1. PICK d \in 1 .. Len(stack[t]) : f = CallAt(t, d)
  BY FramesAreCalls
<1>2. PICK c : c = <<t, d>>
  OBVIOUS
<1>3. \A F : f \in F => c \in CallsIn(F)
  BY <1>1, <1>2, CallsInForm
<1> QED BY <1>1, <1>3, CallTyped

LEMMA CountsTyped ==
  ASSUME PoolInv, WaitInv, FenceInv, WorkInv
  PROVE  TypeOK
<1>1. /\ PoolTyped /\ HandlesPassed /\ WaitsNatural /\ JobsOfSlots
      /\ slots \in [Slots -> SlotStates] /\ free \in Seq(Slots)
  BY JobsParts DEF PoolInv, PoolTyped, WorkInv
<1>2. ASSUME NEW s \in Slots
      PROVE  /\ slots[s].generation \in 0 .. MaxBatches
             /\ slots[s].refCount \in Nat
             /\ slots[s].dependencyCount \in Nat
             /\ slots[s].dependentCount \in Nat
             /\ slots[s].remainingJobs \in Nat
             /\ slots[s].toStart \in Nat
             /\ slots[s].fence \in BOOLEAN
             /\ \A i \in DOMAIN slots[s].dependents : slots[s].dependents[i] \in Handles
  <2>1. PICK x : x = slots[s]
    OBVIOUS
  <2>2. /\ x.generation \in Nat /\ x.refCount \in Nat /\ x.dependencyCount \in Int
        /\ x.dependentCount \in Int /\ x.remainingJobs \in Int /\ x.toStart \in Int
        /\ x.fence \in BOOLEAN /\ x.dependents \in Seq(Ids)
    BY <1>1, <2>1 DEF SlotStates
  <2>3. x.generation <= MaxBatches /\ x.dependencyCount >= 0 /\ x.toStart >= 0
    BY <1>1, <2>1 DEF HandlesPassed, WaitsNatural, JobsOfSlots
  <2>4. x.generation \in 0 .. MaxBatches /\ x.dependencyCount \in Nat /\ x.toStart \in Nat
    BY <2>2, <2>3, PoolAssumption
  <2>5. x.dependentCount \in Nat
    <3>1. x.dependentCount = Len(x.dependents)
      BY <2>1 DEF WaitInv, ListsInOrder
    <3> QED BY <2>2, <3>1, LenProperties
  <2>6. x.remainingJobs \in Nat
    <3>1. IsFiniteSet(Running(s)) /\ x.remainingJobs = x.toStart + Cardinality(Running(s))
      BY <1>1, <2>1 DEF JobsOfSlots
    <3>2. PICK c \in Nat : c = Cardinality(Running(s))
      BY <3>1, FS_CardinalityType
    <3> QED BY <2>4, <3>1, <3>2
  <2>7. \A i \in DOMAIN x.dependents : x.dependents[i] \in Handles
    BY <1>1, <2>1 DEF HandlesPassed
  <2> QED BY <2>1, <2>2, <2>4, <2>5, <2>6, <2>7
<1>3. queue \subseteq issued
  <2>1. \A h \in queue : h \in Ids /\ Busy(h)
    BY <1>1 DEF PoolTyped, Busy
  <2> QED BY <2>1, BusyIssued
<1>4. issued \subseteq Handles
  BY <1>1, IssuedAreHandles
<1>5. workLeft \in Nat
  <2>1. PICK a \in Nat, c \in Nat : a = Leaked /\ c = Cardinality(Fenced)
    BY LeakedNatural, FencedFinite DEF FenceInv
  <2> QED BY <2>1 DEF FenceInv
<1>6. allWork \in Nat
  <2>1. /\ IsFiniteSet(CallsIn(DoneFrames))
        /\ allWork = WorkLeaked + Cardinality(Active) + Cardinality(CallsIn(DoneFrames))
    BY DEF WorkInv, WorkPending
  <2>2. PICK w \in Nat, a \in Nat, c \in Nat :
          w = WorkLeaked /\ a = Cardinality(Active) /\ c = Cardinality(CallsIn(DoneFrames))
    BY <2>1, LeakedNatural, FS_CardinalityType DEF FenceInv
  <2> QED BY <2>1, <2>2
<1>7. ASSUME NEW t \in Threads, NEW f \in Frames(t)
      PROVE  f.at \in Points /\ f.id \in Handles
  <2>1. f \in CallFrames /\ f \notin StrayFrames
    BY <1>1, <1>7, FlightCounted DEF HandlesPassed
  <2> QED BY <2>1 DEF CallFrames, StrayFrames
<1> QED BY <1>1, <1>2, <1>3, <1>4, <1>5, <1>6, <1>7 DEF TypeOK

\* When no work is counted, no batch is active; and all there is to do is for one.
LEMMA DoneHolds ==
  ASSUME PoolInv, WaitInv, FenceInv, WorkInv
  PROVE  DoneMeansDone
<1> SUFFICES ASSUME allWork = 0
             PROVE  /\ queue = {}
                    /\ \A i \in DOMAIN batches : batches[i].finished
                    /\ \A at \in {"push", "job", "signal", "complete"} : InFlight(at) = {}
  BY DEF DoneMeansDone
<1>1. PoolTyped
  BY DEF PoolInv
<1>2. Active = {} /\ CallsIn(DoneFrames) = {}
  <2>1. /\ IsFiniteSet(CallsIn(DoneFrames))
        /\ allWork = WorkLeaked + Cardinality(Active) + Cardinality(CallsIn(DoneFrames))
    BY DEF WorkInv, WorkPending
  <2>2. WorkLeaked \in Nat /\ IsFiniteSet(Active)
    BY LeakedNatural DEF FenceInv
  <2>3. PICK w \in Nat, a \in Nat, c \in Nat :
          w = WorkLeaked /\ a = Cardinality(Active) /\ c = Cardinality(CallsIn(DoneFrames))
    BY <2>1, <2>2, FS_CardinalityType
  <2>4. a = 0 /\ c = 0
    <3>1. allWork = w + a + c
      BY <2>1, <2>3
    <3> QED BY <3>1
  <2> QED BY <2>1, <2>2, <2>3, <2>4, FS_EmptySet
<1>3. \A i \in DOMAIN batches : batches[i].finished
  <2>1. \A i \in DOMAIN batches : i \notin Active
    BY <1>2
  <2> QED BY <2>1 DEF Active
<1>4. \A h \in Ids : ~Busy(h) /\ Pushers(h) = {}
  BY <1>3, BusyIssued, PusherLives DEF Unpushed
<1>5. queue = {}
  BY <1>1, <1>4 DEF PoolTyped, Busy
<1>6. ASSUME NEW t \in Threads, NEW f \in Frames(t),
             f.at \in {"push", "job", "signal", "complete"}
      PROVE  FALSE
  <2>1. f \in CallFrames /\ f.id \in Ids /\ \A F : f \in F => CallsIn(F) # {}
    BY <1>1, <1>6, FlightCounted DEF CallFrames
  <2>2. CASE f.at = "push"
    BY <1>4, <2>1, <2>2 DEF Pushers, PushFrames
  <2>3. CASE f.at \in {"job", "signal"}
    <3>1. f \in RunFrames(f.id)
      BY <2>1, <2>3 DEF RunFrames, RunPoints
    <3> QED BY <1>4, <2>1, <3>1 DEF Busy
  <2>4. CASE f.at = "complete"
    <3>1. f \in DoneFrames
      BY <2>1, <2>4 DEF DoneFrames, DonePoints
    <3> QED BY <1>2, <2>1, <3>1
  <2> QED BY <1>6, <2>2, <2>3, <2>4
<1>7. \A at \in {"push", "job", "signal", "complete"} : InFlight(at) = {}
  BY <1>6 DEF InFlight
<1> QED BY <1>3, <1>5, <1>7

LEMMA FenceCountsHolds == PoolInv /\ WaitInv /\ FenceInv /\ WorkInv => FenceCounts
BY CountsTyped, WorkCountedHolds, DoneHolds DEF FenceCounts

\* As long as no batch has more dependents than there is room for, and no push finds
\* the queue full: no count goes below zero, the fence of the main thread counts what
\* it waits for, and when allWorkDoneFence is down and nobody is submitting, every job
\* has run and no thread has one to start, push or report (jobFenceWait,
\* processBatchCompletion, finishAndExit).  The second hypothesis: without room
\* submitToMainQueue takes the batch off allWorkDoneFence and lets it lie, so that
\* work that never runs counts as done.
THEOREM FencesCount == Spec /\ []DependentsFit /\ []PushesFit => []FenceCounts
<1>1. Init => FenceInv /\ WorkInv
  BY FenceInvInit, WorkInvInit
<1>2. PoolInv /\ FenceInv /\ [Next]_vars => FenceInv'
  BY FenceInvStep
<1>3. PoolInv /\ WaitInv /\ FenceInv /\ WorkInv /\ PushesFit /\ [Next]_vars => WorkInv'
  BY WorkInvStep
<1>4. Spec => []FenceInv
  BY <1>1, <1>2, BatchPoolInvariant, PTL DEF Spec
<1>5. Spec /\ []DependentsFit /\ []PushesFit => []WorkInv
  BY <1>1, <1>3, <1>4, BatchPoolInvariant, BatchWaitInvariant, PTL DEF Spec
<1> QED BY <1>4, <1>5, BatchPoolInvariant, BatchWaitInvariant, FenceCountsHolds, PTL

=============================================================================
