---------------------------- MODULE LockFree_proofs ----------------------------
(***************************************************************************)
(* Proofs about three small components that threads share through atomic   *)
(* accesses.  PoolInv is an inductive invariant of JobInstancePool, for    *)
(* every set of threads and batches, every pool size and every bound on    *)
(* tags.  LockInv is one of SpinRwLock, for every finite set of threads.   *)
(* LogInv is one of Logger, for any number of threads and messages and any *)
(* queue of two slots or more.                                             *)
(***************************************************************************)
EXTENDS JobInstancePool, SpinRwLock, Logger, FiniteSetTheorems, SequenceTheorems,
        WellFoundedInduction, NaturalsInduction, TLAPS

----------------------------------------------------------------------------
(* The job instance pool *)

LEMMA SlotFacts ==
  /\ 0 \in PoolSlots
  /\ \A s \in PoolSlots : s \in Int /\ s \in Links /\ s # NoJob
  /\ NoJob \in Links
BY PoolSizeAssumption, NoJobAssumption DEF PoolSlots, Links

\* The pool starts with all its slots in the list, in order.
LEMMA InitPoolInv == PoolInit => PoolInv
<1> SUFFICES ASSUME PoolInit PROVE PoolInv
  OBVIOUS
<1> USE SlotFacts, PoolSizeAssumption, NoJobAssumption, BatchesAssumption
<1>1. TypeOK
  <2>1. \A s \in PoolSlots : s # PoolSize - 1 => s + 1 \in PoolSlots
    BY DEF PoolSlots
  <2>2. content \in [PoolSlots -> Links \cup Batches]
    BY <2>1 DEF PoolInit, Links
  <2>3. height \in [PoolSlots -> Nat]
    BY DEF PoolInit, PoolSlots
  <2>4. head \in Heads /\ \A t \in Callers : oldHead[t] \in Heads
    BY MaxTagAssumption DEF PoolInit, Heads
  <2> QED BY <2>2, <2>3, <2>4 DEF PoolInit, TypeOK
<1>2. OneOwner
  <2>1. \A s \in PoolSlots : height[s] > 0 /\ holds[s] = NoBatch
    BY DEF PoolInit, PoolSlots
  <2>2. \A t \in Callers : ~ Owns(t)
    BY DEF PoolInit, Owns, FreePoints
  <2> QED BY <2>1, <2>2, <1>1 DEF OneOwner, TypeOK
<1>3. InstancesIntact
  BY DEF PoolInit, InstancesIntact
<1>4. ListShape
  <2>1. Height(head.index) = PoolSize
    BY DEF PoolInit, Height
  <2>2. \A s \in PoolSlots : height[s] = PoolSize - s /\ height[s] <= PoolSize
    BY DEF PoolInit, PoolSlots
  <2>3. ASSUME NEW s \in PoolSlots
        PROVE  /\ content[s] \in Links
               /\ content[s] # NoJob => height[content[s]] > 0
               /\ Height(content[s]) = height[s] - 1
    <3>1. CASE s = PoolSize - 1
      BY <3>1, <2>2 DEF PoolInit, Height
    <3>2. CASE s # PoolSize - 1
      <4>1. s + 1 \in PoolSlots /\ content[s] = s + 1
        BY <3>2 DEF PoolInit, PoolSlots
      <4>2. height[s + 1] = height[s] - 1 /\ height[s + 1] > 0
        BY <4>1, <2>2, <3>2 DEF PoolSlots
      <4> QED BY <4>1, <4>2 DEF Height
    <3> QED BY <3>1, <3>2
  <2>4. \A r, s \in PoolSlots : height[r] = height[s] => r = s
    BY <2>2
  <2>5. head.index # NoJob => height[head.index] > 0
    BY DEF PoolInit
  <2> QED BY <2>1, <2>2, <2>3, <2>4, <2>5 DEF ListShape
<1>5. AnswersHold
  BY DEF PoolInit, AnswersHold, AllocatePoints
<1> QED BY <1>1, <1>2, <1>3, <1>4, <1>5 DEF PoolInv

\* The swap of a thread that allocates takes the head out of the list.
LEMMA AllocateSwapStep ==
  ASSUME PoolInv, NEW t \in Callers, AllocateSwap(t)
  PROVE  PoolInv'
<1> USE SlotFacts DEF PoolInv
<1> DEFINE h == head.index
<1>1. /\ h \in PoolSlots /\ h = oldHead[t].index /\ head = oldHead[t]
      /\ next[t] = content[h] /\ head.tag \in Nat /\ head.tag < MaxTag
      /\ head' = [index |-> content[h], tag |-> head.tag + 1]
  BY DEF AllocateSwap, SwapHead, AnswersHold, TypeOK, Heads
<1>2. /\ height[h] > 0 /\ holds[h] = NoBatch /\ content[h] \in Links
      /\ Height(content[h]) = height[h] - 1
  BY <1>1 DEF ListShape, OneOwner
<1>3. /\ height' = [height EXCEPT ![h] = 0] /\ jobId' = [jobId EXCEPT ![t] = h]
      /\ UNCHANGED <<content, holds, batch, oldHead, next>>
      /\ point' = [point EXCEPT ![t] = "allocFill"] /\ point[t] = "allocSwap"
  BY <1>1 DEF AllocateSwap, Reach
<1> HIDE DEF h
<1>4. \A u \in Callers : Owns(u) => jobId[u] # h
  BY <1>1, <1>2 DEF OneOwner, TypeOK
<1>5. \A u \in Callers : Owns(u)' <=> (u = t \/ Owns(u))
  BY <1>3 DEF Owns, TypeOK, FreePoints
<1>6. ~ Owns(t)
  BY <1>3 DEF Owns, FreePoints
<1>7. TypeOK'
  <2>1. head' \in Heads
    BY <1>1, <1>2, MaxTagAssumption DEF Heads
  <2>2. height' \in [PoolSlots -> Nat] /\ jobId' \in [Callers -> Links]
    BY <1>1, <1>3 DEF TypeOK
  <2>3. point' \in [Callers -> {"idle", "beyondPool"} \cup AllocatePoints \cup FreePoints]
    BY <1>3 DEF TypeOK, AllocatePoints
  <2> QED BY <1>3, <2>1, <2>2, <2>3 DEF TypeOK
<1>8. OneOwner'
  <2>1. \A s \in PoolSlots : height'[s] > 0 => holds'[s] = NoBatch
    BY <1>1, <1>3 DEF OneOwner, TypeOK
  <2>2. \A u \in Callers : Owns(u)' =>
           jobId'[u] \in PoolSlots /\ height'[jobId'[u]] = 0 /\ holds'[jobId'[u]] = NoBatch
    BY <1>1, <1>2, <1>3, <1>4, <1>5 DEF OneOwner, TypeOK
  <2>3. \A u, v \in Callers : (u # v /\ Owns(u)' /\ Owns(v)') => jobId'[u] # jobId'[v]
    BY <1>3, <1>4, <1>5 DEF OneOwner, TypeOK
  <2>4. ASSUME NEW s \in PoolSlots, height'[s] = 0, holds'[s] = NoBatch
        PROVE  \E u \in Callers : Owns(u)' /\ jobId'[u] = s
    <3>1. CASE s = h
      BY <1>3, <1>5, <3>1 DEF TypeOK
    <3>2. CASE s # h
      <4>1. PICK u \in Callers : Owns(u) /\ jobId[u] = s
        BY <1>3, <2>4, <3>2 DEF OneOwner, TypeOK
      <4> QED BY <1>3, <1>5, <1>6, <4>1 DEF TypeOK
    <3> QED BY <3>1, <3>2
  <2> QED BY <2>1, <2>2, <2>3, <2>4 DEF OneOwner
<1>9. InstancesIntact'
  BY <1>3 DEF InstancesIntact
<1>10. ListShape'
  <2>1. \A s \in PoolSlots : s # h => height'[s] = height[s]
    BY <1>1, <1>3 DEF TypeOK
  <2>2. height'[h] = 0
    BY <1>1, <1>3 DEF TypeOK
  <2>3. content[h] # h
    BY <1>1, <1>2 DEF Height, TypeOK
  <2>4. Height(head.index)' = height[h] - 1
    <3>1. head'.index = content[h]
      BY <1>1
    <3>2. content[h] # NoJob => height'[content[h]] = height[content[h]]
      BY <1>2, <2>1, <2>3 DEF Links
    <3> QED BY <1>2, <3>1, <3>2 DEF Height
  <2>5. ASSUME NEW s \in PoolSlots, height'[s] > 0
        PROVE  /\ s # h /\ height[s] = height'[s] /\ height[s] > 0
               /\ height[s] <= height[h] - 1
               /\ content[s] \in Links /\ content[s] # h
               /\ content[s] # NoJob => height[content[s]] > 0
               /\ Height(content[s]) = height[s] - 1
    <3>1. s # h /\ height[s] = height'[s] /\ height[s] > 0
      BY <2>1, <2>2, <2>5
    <3>2. height[s] <= Height(h) /\ Height(h) = height[h] /\ height[s] # height[h]
      BY <1>1, <1>2, <3>1 DEF ListShape, Height, h
    <3>3. /\ content[s] \in Links /\ Height(content[s]) = height[s] - 1
          /\ content[s] # NoJob => height[content[s]] > 0
      BY <3>1 DEF ListShape
    <3>4. height[s] \in Nat /\ height[h] \in Nat
      BY <1>1 DEF TypeOK
    <3>5. content[s] # h
      BY <1>1, <3>2, <3>3, <3>4 DEF Height
    <3> QED BY <3>1, <3>2, <3>3, <3>4, <3>5
  <2>6. ASSUME NEW s \in PoolSlots, height'[s] > 0
        PROVE  /\ Height(content[s])' = height'[s] - 1
               /\ content'[s] # NoJob => height'[content'[s]] > 0
    BY <1>3, <2>1, <2>5, <2>6 DEF Height, Links
  <2>7. \A r, s \in PoolSlots : (height'[r] > 0 /\ height'[r] = height'[s]) => r = s
    BY <2>5 DEF ListShape
  <2>8. head'.index # NoJob => height'[head'.index] > 0
    <3> SUFFICES ASSUME content[h] # NoJob PROVE height'[content[h]] > 0
      BY <1>1
    <3>1. content[h] \in PoolSlots /\ height[content[h]] > 0
      BY <1>1, <1>2 DEF Links, ListShape
    <3> QED BY <2>1, <2>3, <3>1
  <2> QED BY <1>3, <2>4, <2>5, <2>6, <2>7, <2>8 DEF ListShape
<1>11. AnswersHold'
  BY <1>1, <1>3 DEF AnswersHold, TypeOK, AllocatePoints, Heads
<1> QED BY <1>7, <1>8, <1>9, <1>10, <1>11

\* The swap of a thread that frees puts its slot before the head.
LEMMA FreeSwapStep ==
  ASSUME PoolInv, NEW t \in Callers, FreeSwap(t)
  PROVE  PoolInv'
<1> USE SlotFacts DEF PoolInv
<1> DEFINE r == jobId[t]
<1>1. /\ point[t] = "freeSwap" /\ Owns(t) /\ r \in PoolSlots
      /\ height[r] = 0 /\ holds[r] = NoBatch
      /\ content[r] = head.index /\ head = oldHead[t]
      /\ head.index \in Links /\ head.tag \in Nat /\ head.tag < MaxTag
      /\ head' = [index |-> r, tag |-> head.tag + 1]
  BY DEF FreeSwap, SwapHead, AnswersHold, TypeOK, Heads, OneOwner, Owns, FreePoints
<1>2. /\ height' = [height EXCEPT ![r] = Height(head.index) + 1]
      /\ jobId' = [jobId EXCEPT ![t] = NoJob]
      /\ point' = [point EXCEPT ![t] = "idle"]
      /\ batch' = [batch EXCEPT ![t] = NoBatch]
      /\ next' = [next EXCEPT ![t] = NoJob]
      /\ oldHead' = [oldHead EXCEPT ![t] = [index |-> NoJob, tag |-> 0]]
      /\ UNCHANGED <<content, holds>>
  BY DEF FreeSwap, Return, Reach
<1> HIDE DEF r
<1>3. Height(head.index) \in Nat
  BY <1>1 DEF Height, Links, TypeOK
<1>4. \A u \in Callers : Owns(u)' <=> (u # t /\ Owns(u))
  BY <1>2 DEF Owns, TypeOK, FreePoints
<1>5. \A s \in PoolSlots : height'[s] = IF s = r THEN Height(head.index) + 1 ELSE height[s]
  BY <1>2 DEF TypeOK
<1>6. head.index # r
  BY <1>1 DEF ListShape
<1>7. TypeOK'
  <2>1. head' \in Heads
    BY <1>1, MaxTagAssumption DEF Heads
  <2>2. height' \in [PoolSlots -> Nat]
    BY <1>1, <1>2, <1>3 DEF TypeOK
  <2>3. [index |-> NoJob, tag |-> 0] \in Heads
    BY MaxTagAssumption DEF Heads
  <2> QED BY <1>2, <2>1, <2>2, <2>3 DEF TypeOK
<1>8. OneOwner'
  <2>1. \A s \in PoolSlots : height'[s] > 0 => holds'[s] = NoBatch
    BY <1>1, <1>2, <1>5 DEF OneOwner
  <2>2. \A u \in Callers : (u # t /\ Owns(u)) => jobId'[u] = jobId[u] /\ jobId[u] # r
    BY <1>1, <1>2 DEF OneOwner, TypeOK, r
  <2>3. \A u \in Callers : Owns(u)' =>
           jobId'[u] \in PoolSlots /\ height'[jobId'[u]] = 0 /\ holds'[jobId'[u]] = NoBatch
    BY <1>2, <1>4, <1>5, <2>2 DEF OneOwner
  <2>4. \A u, v \in Callers : (u # v /\ Owns(u)' /\ Owns(v)') => jobId'[u] # jobId'[v]
    BY <1>4, <2>2 DEF OneOwner
  <2>5. ASSUME NEW s \in PoolSlots, height'[s] = 0, holds'[s] = NoBatch
        PROVE  \E u \in Callers : Owns(u)' /\ jobId'[u] = s
    <3>1. s # r /\ height[s] = 0 /\ holds[s] = NoBatch
      BY <1>2, <1>3, <1>5, <2>5
    <3>2. PICK u \in Callers : Owns(u) /\ jobId[u] = s
      BY <3>1 DEF OneOwner
    <3>3. u # t
      BY <3>1, <3>2 DEF r
    <3> QED BY <1>4, <2>2, <3>2, <3>3
  <2> QED BY <2>1, <2>3, <2>4, <2>5 DEF OneOwner
<1>9. InstancesIntact'
  BY <1>2 DEF InstancesIntact
<1>10. ListShape'
  <2>1. head'.index = r /\ Height(head.index)' = Height(head.index) + 1
    BY <1>1, <1>5 DEF Height
  <2>2. ASSUME NEW s \in PoolSlots, height'[s] > 0
        PROVE  /\ height'[s] <= Height(head.index)'
               /\ content'[s] \in Links
               /\ content'[s] # NoJob => height'[content'[s]] > 0
               /\ Height(content[s])' = height'[s] - 1
    <3>1. CASE s = r
      <4>1. head.index # NoJob => height'[head.index] = height[head.index]
                                  /\ height[head.index] > 0
        BY <1>1, <1>5, <1>6 DEF Links, ListShape
      <4> QED BY <1>1, <1>2, <1>3, <1>5, <2>1, <3>1, <4>1 DEF Height
    <3>2. CASE s # r
      <4>1. /\ height'[s] = height[s] /\ height[s] > 0 /\ height[s] \in Nat
            /\ height[s] <= Height(head.index)
            /\ content[s] \in Links
            /\ content[s] # NoJob => height[content[s]] > 0
            /\ Height(content[s]) = height[s] - 1
        BY <1>5, <2>2, <3>2 DEF ListShape, TypeOK
      <4>2. content[s] # r
        BY <1>1, <4>1
      <4>3. content[s] # NoJob => height'[content[s]] = height[content[s]]
        BY <1>5, <4>1, <4>2 DEF Links
      <4> QED BY <1>2, <1>3, <2>1, <4>1, <4>3 DEF Height
    <3> QED BY <3>1, <3>2
  <2>3. \A q, s \in PoolSlots : (height'[q] > 0 /\ height'[q] = height'[s]) => q = s
    <3>1. \A s \in PoolSlots : s # r /\ height[s] > 0 => height[s] # Height(head.index) + 1
      BY <1>3 DEF ListShape, TypeOK
    <3> QED BY <1>3, <1>5, <3>1 DEF ListShape
  <2>4. head'.index # NoJob => height'[head'.index] > 0
    BY <1>1, <1>3, <1>5, <2>1
  <2> QED BY <2>2, <2>3, <2>4 DEF ListShape
<1>11. AnswersHold'
  <2>1. \A u \in Callers : u # t =>
           /\ oldHead'[u] = oldHead[u] /\ jobId'[u] = jobId[u] /\ next'[u] = next[u]
           /\ point'[u] = point[u] /\ batch'[u] = batch[u]
    BY <1>2 DEF TypeOK
  <2>2. point'[t] = "idle" /\ oldHead'[t].tag = 0
    BY <1>2 DEF TypeOK
  <2>3. \A u \in Callers : u # t => oldHead[u].tag <= head.tag /\ oldHead[u].tag \in Nat
    BY DEF AnswersHold, TypeOK, Heads
  <2>4. head'.tag = head.tag + 1
    BY <1>1
  <2>5. \A u \in Callers : oldHead'[u].tag <= head'.tag
    BY <1>1, <2>1, <2>2, <2>3, <2>4
  <2>6. \A u \in Callers : u # t => oldHead[u] # head'
    BY <1>1, <2>3, <2>4
  <2> QED BY <1>2, <2>1, <2>2, <2>5, <2>6 DEF AnswersHold, AllocatePoints
<1> QED BY <1>7, <1>8, <1>9, <1>10, <1>11

\* The slot a thread has taken gets its instance and goes to the scheduler.
LEMMA AllocateFillStep ==
  ASSUME PoolInv, NEW t \in Callers, AllocateFill(t)
  PROVE  PoolInv'
<1> USE SlotFacts, BatchesAssumption DEF PoolInv
<1> DEFINE r == jobId[t]
<1>1. /\ point[t] = "allocFill" /\ Owns(t) /\ r \in PoolSlots
      /\ height[r] = 0 /\ holds[r] = NoBatch /\ batch[t] \in Batches
  BY DEF AllocateFill, AnswersHold, OneOwner, Owns, AllocatePoints
<1>2. /\ content' = [content EXCEPT ![r] = batch[t]]
      /\ holds' = [holds EXCEPT ![r] = batch[t]]
      /\ jobId' = [jobId EXCEPT ![t] = NoJob]
      /\ point' = [point EXCEPT ![t] = "idle"]
      /\ batch' = [batch EXCEPT ![t] = NoBatch]
      /\ next' = [next EXCEPT ![t] = NoJob]
      /\ oldHead' = [oldHead EXCEPT ![t] = [index |-> NoJob, tag |-> 0]]
      /\ UNCHANGED <<head, height>>
  BY DEF AllocateFill, Return, Reach
<1> HIDE DEF r
<1>3. \A u \in Callers : Owns(u)' <=> (u # t /\ Owns(u))
  BY <1>2 DEF Owns, TypeOK, FreePoints
<1>4. \A s \in PoolSlots : /\ content'[s] = IF s = r THEN batch[t] ELSE content[s]
                       /\ holds'[s] = IF s = r THEN batch[t] ELSE holds[s]
  BY <1>2 DEF TypeOK
<1>5. TypeOK'
  <2>1. [index |-> NoJob, tag |-> 0] \in Heads
    BY MaxTagAssumption DEF Heads
  <2> QED BY <1>1, <1>2, <2>1 DEF TypeOK
<1>6. \A u \in Callers : (u # t /\ Owns(u)) => jobId'[u] = jobId[u] /\ jobId[u] # r
  BY <1>1, <1>2 DEF OneOwner, TypeOK, r
<1>7. OneOwner'
  <2>1. \A s \in PoolSlots : height'[s] > 0 => holds'[s] = NoBatch
    BY <1>1, <1>2, <1>4 DEF OneOwner
  <2>2. \A u \in Callers : Owns(u)' =>
           jobId'[u] \in PoolSlots /\ height'[jobId'[u]] = 0 /\ holds'[jobId'[u]] = NoBatch
    BY <1>2, <1>3, <1>4, <1>6 DEF OneOwner
  <2>3. \A u, v \in Callers : (u # v /\ Owns(u)' /\ Owns(v)') => jobId'[u] # jobId'[v]
    BY <1>3, <1>6 DEF OneOwner
  <2>4. ASSUME NEW s \in PoolSlots, height'[s] = 0, holds'[s] = NoBatch
        PROVE  \E u \in Callers : Owns(u)' /\ jobId'[u] = s
    <3>1. s # r /\ height[s] = 0 /\ holds[s] = NoBatch
      BY <1>1, <1>2, <1>4, <2>4
    <3>2. PICK u \in Callers : Owns(u) /\ jobId[u] = s
      BY <3>1 DEF OneOwner
    <3>3. u # t
      BY <3>1, <3>2 DEF r
    <3> QED BY <1>3, <1>6, <3>2, <3>3
  <2> QED BY <2>1, <2>2, <2>3, <2>4 DEF OneOwner
<1>8. InstancesIntact'
  BY <1>4 DEF InstancesIntact
<1>9. ListShape'
  <2>1. \A s \in PoolSlots : height[s] > 0 => content'[s] = content[s]
    BY <1>1, <1>4
  <2>2. \A i \in Links : Height(i)' = Height(i)
    BY <1>2 DEF Height
  <2> QED BY <1>2, <2>1, <2>2 DEF ListShape, TypeOK, Heads
<1>10. AnswersHold'
  <2>1. \A u \in Callers : u # t =>
           /\ oldHead'[u] = oldHead[u] /\ jobId'[u] = jobId[u] /\ next'[u] = next[u]
           /\ point'[u] = point[u] /\ batch'[u] = batch[u]
    BY <1>2 DEF TypeOK
  <2>2. \A u \in Callers : (u # t /\ point[u] = "freeSwap") => jobId[u] # r /\ jobId[u] \in PoolSlots
    BY <1>6 DEF Owns, FreePoints, OneOwner
  <2>3. head.index \in PoolSlots /\ height[head.index] > 0 => content'[head.index] = content[head.index]
    BY <1>1, <1>4
  <2>4. head.index \in PoolSlots => height[head.index] > 0
    BY DEF ListShape
  <2>5. oldHead'[t].tag <= head.tag /\ point'[t] = "idle" /\ head' = head
    BY <1>2 DEF TypeOK, Heads
  <2> QED BY <1>4, <2>1, <2>2, <2>3, <2>4, <2>5 DEF AnswersHold, AllocatePoints
<1> QED BY <1>5, <1>7, <1>8, <1>9, <1>10

\* A thread takes a job from the scheduler to free it.
LEMMA BeginFreeStep ==
  ASSUME PoolInv, NEW t \in Callers, NEW r \in PoolSlots, BeginFree(t, r)
  PROVE  PoolInv'
<1> USE SlotFacts, BatchesAssumption DEF PoolInv
<1>1. /\ point[t] = "idle" /\ ~ Owns(t) /\ holds[r] # NoBatch /\ content[r] = holds[r]
      /\ height[r] = 0
  BY DEF BeginFree, Owns, FreePoints, OneOwner, InstancesIntact, TypeOK
<1>2. /\ holds' = [holds EXCEPT ![r] = NoBatch]
      /\ jobId' = [jobId EXCEPT ![t] = r]
      /\ batch' = [batch EXCEPT ![t] = content[r]]
      /\ point' = [point EXCEPT ![t] = "freeLoad"]
      /\ UNCHANGED <<head, content, oldHead, next, height>>
  BY DEF BeginFree, Reach
<1>3. \A u \in Callers : Owns(u)' <=> (u = t \/ Owns(u))
  BY <1>2 DEF Owns, TypeOK, FreePoints
<1>4. TypeOK'
  <2>1. content[r] \in Batches
    BY <1>1 DEF TypeOK
  <2> QED BY <1>2, <2>1 DEF TypeOK, FreePoints
<1>5. OneOwner'
  <2>1. \A s \in PoolSlots : height'[s] > 0 => holds'[s] = NoBatch
    BY <1>2 DEF OneOwner, TypeOK
  <2>2. \A u \in Callers : u # t => jobId'[u] = jobId[u]
    BY <1>2 DEF TypeOK
  <2>3. jobId'[t] = r /\ holds'[r] = NoBatch
    BY <1>2 DEF TypeOK
  <2>4. \A u \in Callers : Owns(u) => jobId[u] # r
    BY <1>1 DEF OneOwner
  <2>5. \A u \in Callers : Owns(u)' =>
           jobId'[u] \in PoolSlots /\ height'[jobId'[u]] = 0 /\ holds'[jobId'[u]] = NoBatch
    BY <1>1, <1>2, <1>3, <2>2, <2>3 DEF OneOwner, TypeOK
  <2>6. \A u, v \in Callers : (u # v /\ Owns(u)' /\ Owns(v)') => jobId'[u] # jobId'[v]
    BY <1>3, <2>2, <2>3, <2>4 DEF OneOwner
  <2>7. ASSUME NEW s \in PoolSlots, height'[s] = 0, holds'[s] = NoBatch
        PROVE  \E u \in Callers : Owns(u)' /\ jobId'[u] = s
    <3>1. CASE s = r
      BY <1>3, <2>3, <3>1
    <3>2. CASE s # r
      <4>1. PICK u \in Callers : Owns(u) /\ jobId[u] = s
        BY <1>2, <2>7, <3>2 DEF OneOwner, TypeOK
      <4> QED BY <1>1, <1>3, <2>2, <4>1
    <3> QED BY <3>1, <3>2
  <2> QED BY <2>1, <2>5, <2>6, <2>7 DEF OneOwner
<1>6. InstancesIntact'
  BY <1>2 DEF InstancesIntact, TypeOK
<1>7. ListShape'
  BY <1>2 DEF ListShape, Height
<1>8. AnswersHold'
  BY <1>2 DEF AnswersHold, TypeOK, AllocatePoints
<1> QED BY <1>4, <1>5, <1>6, <1>7, <1>8

\* A link is written only into a slot that the thread owns.
LEMMA FreeWriteLinkStep ==
  ASSUME PoolInv, NEW t \in Callers, FreeWriteLink(t)
  PROVE  PoolInv'
<1> USE SlotFacts DEF PoolInv
<1> DEFINE r == jobId[t]
<1>1. /\ point[t] = "freeLink" /\ Owns(t) /\ r \in PoolSlots
      /\ height[r] = 0 /\ holds[r] = NoBatch /\ oldHead[t].index \in Links
  BY DEF FreeWriteLink, OneOwner, Owns, FreePoints, TypeOK, Heads
<1>2. /\ content' = [content EXCEPT ![r] = oldHead[t].index]
      /\ point' = [point EXCEPT ![t] = "freeSwap"]
      /\ UNCHANGED <<head, oldHead, next, jobId, batch, holds, height>>
  BY DEF FreeWriteLink, Reach
<1>3. \A u \in Callers : Owns(u)' <=> Owns(u)
  BY <1>1, <1>2 DEF Owns, TypeOK, FreePoints
<1>4. \A s \in PoolSlots : content'[s] = IF s = r THEN oldHead[t].index ELSE content[s]
  BY <1>2 DEF TypeOK
<1>5. \A u \in Callers : (u # t /\ Owns(u)) => jobId[u] # r /\ jobId[u] \in PoolSlots
  BY <1>1 DEF OneOwner
<1> HIDE DEF r
<1>6. TypeOK'
  BY <1>1, <1>2 DEF TypeOK, FreePoints
<1>7. OneOwner'
  BY <1>2, <1>3 DEF OneOwner
<1>8. InstancesIntact'
  BY <1>1, <1>2, <1>4 DEF InstancesIntact
<1>9. ListShape'
  <2>1. \A s \in PoolSlots : height[s] > 0 => content'[s] = content[s]
    BY <1>1, <1>4
  <2>2. \A i \in Links : Height(i)' = Height(i)
    BY <1>2 DEF Height
  <2> QED BY <1>2, <2>1, <2>2 DEF ListShape, TypeOK, Heads
<1>10. AnswersHold'
  <2>1. head.index \in PoolSlots => content'[head.index] = content[head.index]
    BY <1>1, <1>4 DEF ListShape
  <2>2. \A u \in Callers : u # t => point'[u] = point[u]
    BY <1>2 DEF TypeOK
  <2>3. \A u \in Callers : (u # t /\ point[u] = "freeSwap") => content'[jobId[u]] = content[jobId[u]]
    BY <1>4, <1>5 DEF Owns, FreePoints
  <2>4. content'[jobId[t]] = oldHead[t].index /\ point'[t] = "freeSwap"
    BY <1>1, <1>2, <1>4 DEF r, TypeOK
  <2> QED BY <1>2, <2>1, <2>2, <2>3, <2>4 DEF AnswersHold, AllocatePoints
<1> QED BY <1>6, <1>7, <1>8, <1>9, <1>10

\* Steps that change neither the list nor who owns what.
LEMMA QuietStep ==
  ASSUME PoolInv, UNCHANGED <<head, content, jobId, holds, height>>,
         \A t \in Callers : Owns(t)' <=> Owns(t),
         TypeOK', AnswersHold'
  PROVE  PoolInv'
<1>1. OneOwner'
  BY DEF PoolInv, OneOwner
<1>2. InstancesIntact'
  BY DEF PoolInv, InstancesIntact
<1>3. ListShape'
  BY DEF PoolInv, ListShape, Height
<1> QED BY <1>1, <1>2, <1>3 DEF PoolInv

LEMMA QuietSteps ==
  ASSUME PoolInv, NEW t \in Callers,
         \/ \E b \in Batches : BeginAllocate(t, b)
         \/ AllocateLoadHead(t) \/ AllocateReadLink(t) \/ AllocateSwapFails(t)
         \/ FreeLoadHead(t) \/ FreeSwapFails(t)
  PROVE  PoolInv'
<1> USE SlotFacts DEF PoolInv, Reach
<1>1. ASSUME NEW b \in Batches, BeginAllocate(t, b) PROVE PoolInv'
  <2>1. TypeOK'
    BY <1>1 DEF BeginAllocate, TypeOK, AllocatePoints
  <2>2. \A u \in Callers : Owns(u)' <=> Owns(u)
    BY <1>1 DEF BeginAllocate, Owns, TypeOK, FreePoints
  <2>3. AnswersHold'
    BY <1>1 DEF BeginAllocate, AnswersHold, TypeOK, AllocatePoints
  <2> QED BY <1>1, <2>1, <2>2, <2>3, QuietStep DEF BeginAllocate
<1>2. CASE AllocateLoadHead(t)
  <2>1. TypeOK'
    BY <1>2 DEF AllocateLoadHead, TypeOK, AllocatePoints
  <2>2. \A u \in Callers : Owns(u)' <=> Owns(u)
    BY <1>2 DEF AllocateLoadHead, Owns, TypeOK, FreePoints
  <2>3. AnswersHold'
    BY <1>2 DEF AllocateLoadHead, AnswersHold, TypeOK, AllocatePoints, Heads, Links
  <2> QED BY <1>2, <2>1, <2>2, <2>3, QuietStep DEF AllocateLoadHead
<1>3. CASE AllocateReadLink(t)
  <2>1. PICK n \in Links :
           /\ content[oldHead[t].index] \in Links => n = content[oldHead[t].index]
           /\ next' = [next EXCEPT ![t] = n]
    BY <1>3 DEF AllocateReadLink
  <2>2. TypeOK'
    BY <1>3, <2>1 DEF AllocateReadLink, TypeOK, AllocatePoints
  <2>3. \A u \in Callers : Owns(u)' <=> Owns(u)
    BY <1>3 DEF AllocateReadLink, Owns, TypeOK, FreePoints
  <2>4. head.index \in PoolSlots => content[head.index] \in Links
    BY DEF ListShape
  <2>5. AnswersHold'
    BY <1>3, <2>1, <2>4 DEF AllocateReadLink, AnswersHold, TypeOK, AllocatePoints
  <2> QED BY <1>3, <2>2, <2>3, <2>5, QuietStep DEF AllocateReadLink
<1>4. CASE AllocateSwapFails(t)
  <2>1. TypeOK'
    BY <1>4 DEF AllocateSwapFails, TypeOK, AllocatePoints
  <2>2. \A u \in Callers : Owns(u)' <=> Owns(u)
    BY <1>4 DEF AllocateSwapFails, Owns, TypeOK, FreePoints
  <2>3. AnswersHold'
    BY <1>4 DEF AllocateSwapFails, AnswersHold, TypeOK, AllocatePoints
  <2> QED BY <1>4, <2>1, <2>2, <2>3, QuietStep DEF AllocateSwapFails
<1>5. CASE FreeLoadHead(t)
  <2>1. TypeOK'
    BY <1>5 DEF FreeLoadHead, TypeOK, FreePoints
  <2>2. \A u \in Callers : Owns(u)' <=> Owns(u)
    BY <1>5 DEF FreeLoadHead, Owns, TypeOK, FreePoints
  <2>3. AnswersHold'
    BY <1>5 DEF FreeLoadHead, AnswersHold, TypeOK, AllocatePoints, Heads
  <2> QED BY <1>5, <2>1, <2>2, <2>3, QuietStep DEF FreeLoadHead
<1>6. CASE FreeSwapFails(t)
  <2>1. TypeOK'
    BY <1>6 DEF FreeSwapFails, TypeOK, FreePoints
  <2>2. \A u \in Callers : Owns(u)' <=> Owns(u)
    BY <1>6 DEF FreeSwapFails, Owns, TypeOK, FreePoints
  <2>3. AnswersHold'
    BY <1>6 DEF FreeSwapFails, AnswersHold, TypeOK, AllocatePoints
  <2> QED BY <1>6, <2>1, <2>2, <2>3, QuietStep DEF FreeSwapFails
<1> QED BY <1>1, <1>2, <1>3, <1>4, <1>5, <1>6

\* The list of free slots is never corrupted: PoolInv is an invariant.
THEOREM PoolInvariant == PoolSpec => []PoolInv
<1>1. PoolInit => PoolInv
  BY InitPoolInv
<1>2. PoolInv /\ [PoolNext]_poolVars => PoolInv'
  <2> SUFFICES ASSUME PoolInv, [PoolNext]_poolVars PROVE PoolInv'
    OBVIOUS
  <2>1. CASE PoolNext
    <3>1. PICK t \in Callers :
             \/ \E b \in Batches : BeginAllocate(t, b)
             \/ \E s \in PoolSlots : BeginFree(t, s)
             \/ Allocate(t) \/ Free(t)
      BY <2>1 DEF PoolNext
    <3>2. CASE \E s \in PoolSlots : BeginFree(t, s)
      BY <3>2, BeginFreeStep
    <3>3. CASE AllocateSwap(t)
      BY <3>3, AllocateSwapStep
    <3>4. CASE AllocateFill(t)
      BY <3>4, AllocateFillStep
    <3>5. CASE FreeWriteLink(t)
      BY <3>5, FreeWriteLinkStep
    <3>6. CASE FreeSwap(t)
      BY <3>6, FreeSwapStep
    <3> QED
      BY <3>1, <3>2, <3>3, <3>4, <3>5, <3>6, QuietSteps DEF Allocate, Free
  <2>2. CASE UNCHANGED poolVars
    BY <2>2 DEF poolVars, PoolInv, TypeOK, OneOwner, InstancesIntact, ListShape,
       AnswersHold, Height, Owns
  <2> QED BY <2>1, <2>2
<1> QED BY <1>1, <1>2, PTL DEF PoolSpec

\* Every job slot has one owner: allocateJob gives no id out twice, freeJob
\* loses none.
THEOREM SlotsHaveOneOwner == PoolSpec => []OneOwner
BY PoolInvariant, PTL DEF PoolInv

\* A job in the scheduler's hands keeps the instance it was allocated with.
THEOREM InstancesStayIntact == PoolSpec => []InstancesIntact
BY PoolInvariant, PTL DEF PoolInv

----------------------------------------------------------------------------
(* The spinning readers-writer lock *)

AnnouncedSet == {t \in LockThreads : Announced(t)}

LEMMA AnnouncedFinite ==
  /\ IsFiniteSet(AnnouncedSet)
  /\ Cardinality(AnnouncedSet) \in Nat
BY LockThreadsAssumption, FS_Subset, FS_CardinalityType DEF AnnouncedSet

\* A reader that announces itself adds one to the announced readers.
LEMMA CountUp ==
  ASSUME NEW t \in LockThreads, ~ Announced(t), Announced(t)',
         \A u \in LockThreads \ {t} : Announced(u)' <=> Announced(u)
  PROVE  Cardinality(AnnouncedSet)' = Cardinality(AnnouncedSet) + 1
<1>1. AnnouncedSet' = AnnouncedSet \cup {t} /\ t \notin AnnouncedSet
  BY DEF AnnouncedSet
<1> QED BY <1>1, AnnouncedFinite, FS_AddElement

\* A reader that leaves or retreats takes one away.
LEMMA CountDown ==
  ASSUME NEW t \in LockThreads, Announced(t), ~ Announced(t)',
         \A u \in LockThreads \ {t} : Announced(u)' <=> Announced(u)
  PROVE  /\ Cardinality(AnnouncedSet)' = Cardinality(AnnouncedSet) - 1
         /\ Cardinality(AnnouncedSet)' \in Nat
<1>1. AnnouncedSet' = AnnouncedSet \ {t} /\ t \in AnnouncedSet
  BY DEF AnnouncedSet
<1> QED BY <1>1, AnnouncedFinite, FS_RemoveElement, FS_CardinalityType

\* Other steps leave the set of announced readers as it is.
LEMMA CountSame ==
  ASSUME \A u \in LockThreads : Announced(u)' <=> Announced(u)
  PROVE  Cardinality(AnnouncedSet)' = Cardinality(AnnouncedSet)
<1>1. AnnouncedSet' = AnnouncedSet
  BY DEF AnnouncedSet
<1> QED BY <1>1

LEMMA InitLockInv == LockInit => LockInv
<1> SUFFICES ASSUME LockInit PROVE LockInv
  OBVIOUS
<1>1. LockTypeOK
  BY DEF LockInit, LockTypeOK
<1>2. AnnouncedSet = {} /\ \A t \in LockThreads : ~ Claimed(t)
  BY DEF LockInit, AnnouncedSet, Announced, Claimed
<1>3. CountersExact
  BY <1>2, FS_EmptySet DEF LockInit, CountersExact, AnnouncedSet
<1> QED BY <1>1, <1>2, <1>3 DEF LockInv, Claimed

\* What a step of t does not change: the place of every other thread.
LEMMA OthersStay ==
  ASSUME LockTypeOK, NEW t \in LockThreads, NEW p, NEW q, Move(t, p, q)
  PROVE  /\ place[t] = p /\ place'[t] = q
         /\ \A u \in LockThreads \ {t} : place'[u] = place[u]
BY DEF Move, LockTypeOK

LEMMA ReaderKeeps ==
  ASSUME LockInv, NEW t \in LockThreads, ReaderStep(t)
  PROVE  LockInv'
<1> USE DEF LockInv, Announced, Claimed
<1>1. CASE ReadTest(t)
  <2>1. place[t] = "readTest" /\ place'[t] = "announce" /\ \A u \in LockThreads \ {t} : place'[u] = place[u]
    BY <1>1, OthersStay DEF ReadTest
  <2>2. LockTypeOK'
    BY <1>1 DEF ReadTest, Move, LockTypeOK
  <2>3. CountersExact'
    <3>1. Cardinality(AnnouncedSet)' = Cardinality(AnnouncedSet)
      BY <2>1, CountSame
    <3> QED BY <1>1, <2>1, <3>1 DEF ReadTest, CountersExact, AnnouncedSet
  <2> QED BY <2>1, <2>2, <2>3
<1>2. CASE Announce(t)
  <2>1. place[t] = "announce" /\ place'[t] = "recheck" /\ \A u \in LockThreads \ {t} : place'[u] = place[u]
    BY <1>2, OthersStay DEF Announce
  <2>2. LockTypeOK'
    BY <1>2 DEF Announce, Move, LockTypeOK
  <2>3. CountersExact'
    <3>1. Cardinality(AnnouncedSet)' = Cardinality(AnnouncedSet) + 1
      BY <2>1, CountUp
    <3> QED BY <1>2, <2>1, <3>1 DEF Announce, CountersExact, AnnouncedSet
  <2> QED BY <2>1, <2>2, <2>3
<1>3. CASE Recheck(t)
  <2>1. /\ place[t] = "recheck" /\ \A u \in LockThreads \ {t} : place'[u] = place[u]
        /\ place'[t] = IF writer THEN "retreat" ELSE "reading"
    BY <1>3, OthersStay DEF Recheck
  <2>2. LockTypeOK'
    BY <1>3 DEF Recheck, Move, LockTypeOK
  <2>3. CountersExact'
    <3>1. Cardinality(AnnouncedSet)' = Cardinality(AnnouncedSet)
      BY <2>1, CountSame
    <3> QED BY <1>3, <2>1, <3>1 DEF Recheck, CountersExact, AnnouncedSet
  <2>4. \A u \in LockThreads : place[u] = "writing" => writer
    BY DEF CountersExact
  <2> QED BY <2>1, <2>2, <2>3, <2>4
<1>4. CASE Retreat(t) \/ ReadUnlock(t)
  <2>1. /\ place[t] \in {"retreat", "reading"} /\ place'[t] \in {"readTest", "outside"}
        /\ \A u \in LockThreads \ {t} : place'[u] = place[u]
        /\ readers' = readers - 1 /\ writer' = writer
    BY <1>4, OthersStay DEF Retreat, ReadUnlock
  <2>2. CountersExact'
    <3>1. Cardinality(AnnouncedSet)' = Cardinality(AnnouncedSet) - 1
      BY <2>1, CountDown
    <3> QED BY <2>1, <3>1 DEF CountersExact, AnnouncedSet
  <2>3. LockTypeOK'
    <3>1. readers' \in Nat
      BY <2>1, <2>2, CountDown DEF CountersExact, AnnouncedSet
    <3> QED BY <1>4, <3>1 DEF Retreat, ReadUnlock, Move, LockTypeOK
  <2> QED BY <2>1, <2>2, <2>3
<1> QED BY <1>1, <1>2, <1>3, <1>4 DEF ReaderStep

LEMMA WriterKeeps ==
  ASSUME LockInv, NEW t \in LockThreads, WriterStep(t)
  PROVE  LockInv'
<1> USE DEF LockInv, Announced, Claimed
<1>1. CASE Claim(t)
  <2>1. place[t] = "claim" /\ place'[t] = "drain" /\ \A u \in LockThreads \ {t} : place'[u] = place[u]
    BY <1>1, OthersStay DEF Claim
  <2>2. LockTypeOK'
    BY <1>1 DEF Claim, Move, LockTypeOK
  <2>3. \A u \in LockThreads : ~ Claimed(u)
    BY <1>1 DEF Claim, CountersExact
  <2>4. CountersExact'
    <3>1. Cardinality(AnnouncedSet)' = Cardinality(AnnouncedSet)
      BY <2>1, CountSame
    <3> QED BY <1>1, <2>1, <3>1 DEF Claim, CountersExact, AnnouncedSet
  <2> QED BY <2>1, <2>2, <2>3, <2>4
<1>2. CASE Drain(t)
  <2>1. place[t] = "drain" /\ place'[t] = "writing" /\ \A u \in LockThreads \ {t} : place'[u] = place[u]
    BY <1>2, OthersStay DEF Drain
  <2>2. LockTypeOK'
    BY <1>2 DEF Drain, Move, LockTypeOK
  <2>3. CountersExact'
    <3>1. Cardinality(AnnouncedSet)' = Cardinality(AnnouncedSet)
      BY <2>1, CountSame
    <3> QED BY <1>2, <2>1, <3>1 DEF Drain, CountersExact, AnnouncedSet
  <2>4. \A u \in LockThreads : place[u] # "reading"
    <3>1. AnnouncedSet = {}
      BY <1>2, AnnouncedFinite, FS_EmptySet DEF Drain, CountersExact, AnnouncedSet
    <3> QED BY <3>1 DEF AnnouncedSet
  <2> QED BY <2>1, <2>2, <2>3, <2>4
<1>3. CASE WriteUnlock(t)
  <2>1. place[t] = "writing" /\ place'[t] = "outside" /\ \A u \in LockThreads \ {t} : place'[u] = place[u]
    BY <1>3, OthersStay DEF WriteUnlock
  <2>2. LockTypeOK'
    BY <1>3 DEF WriteUnlock, Move, LockTypeOK
  <2>3. CountersExact'
    <3>1. Cardinality(AnnouncedSet)' = Cardinality(AnnouncedSet)
      BY <2>1, CountSame
    <3> QED BY <1>3, <2>1, <3>1 DEF WriteUnlock, CountersExact, AnnouncedSet
  <2> QED BY <2>1, <2>2, <2>3
<1> QED BY <1>1, <1>2, <1>3 DEF WriterStep

LEMMA BeginStep ==
  ASSUME LockInv, NEW t \in LockThreads, Begin(t)
  PROVE  LockInv'
<1> USE DEF LockInv, Announced, Claimed
<1>1. /\ place[t] = "outside" /\ place'[t] \in {"readTest", "claim"}
      /\ \A u \in LockThreads \ {t} : place'[u] = place[u]
      /\ UNCHANGED <<readers, writer>>
  BY OthersStay DEF Begin, BeginRead, BeginWrite
<1>2. LockTypeOK'
  BY DEF Begin, BeginRead, BeginWrite, Move, LockTypeOK
<1>3. CountersExact'
  <2>1. Cardinality(AnnouncedSet)' = Cardinality(AnnouncedSet)
    BY <1>1, CountSame
  <2> QED BY <1>1, <2>1 DEF CountersExact, AnnouncedSet
<1> QED BY <1>1, <1>2, <1>3

\* The count, the flag and the places of the threads agree at all times.
THEOREM LockInvariant == LockSpec => []LockInv
<1>1. LockInv /\ [LockNext]_lockVars => LockInv'
  <2> SUFFICES ASSUME LockInv, [LockNext]_lockVars PROVE LockInv'
    OBVIOUS
  <2>1. CASE LockNext
    BY <2>1, BeginStep, ReaderKeeps, WriterKeeps DEF LockNext
  <2>2. CASE UNCHANGED lockVars
    BY <2>2 DEF lockVars, LockInv, LockTypeOK, CountersExact, Announced, Claimed
  <2> QED BY <2>1, <2>2
<1> QED BY <1>1, InitLockInv, PTL DEF LockSpec

\* No thread reads or writes while another one writes.
THEOREM LockExcludes == LockSpec => []Exclusion
<1>1. LockInv => Exclusion
  BY DEF LockInv, Exclusion, Claimed
<1> QED BY <1>1, LockInvariant, PTL

----------------------------------------------------------------------------
(* The logger.  First remainders. *)

\* The division theorem for a positive divisor.
LEMMA DivMod ==
  ASSUME NEW W \in Nat, W > 0, NEW p \in Int
  PROVE  /\ p \div W \in Int
         /\ p % W \in 0 .. W - 1
         /\ p = W * (p \div W) + (p % W)
OBVIOUS

\* A number already in range is its own remainder.
LEMMA ModSmall ==
  ASSUME NEW W \in Nat, W > 0, NEW d \in Int, 0 <= d, d < W
  PROVE  d % W = d
OBVIOUS

\* The only multiple of W smaller than W in absolute value is 0.
LEMMA NoMultiple ==
  ASSUME NEW W \in Nat, W > 0, NEW k \in Int, -W < W * k, W * k < W
  PROVE  k = 0
<1>1. k >= 1 => W * k >= W
  OBVIOUS
<1>2. k <= -1 => W * k <= -W
  OBVIOUS
<1> QED BY <1>1, <1>2

\* Two numbers of one window of length W with the same remainder are equal.
LEMMA ModInjective ==
  ASSUME NEW W \in Nat, W > 0, NEW p \in Int, NEW q \in Int,
         p <= q, q < p + W, p % W = q % W
  PROVE  p = q
<1> DEFINE k == p \div W
<1> DEFINE l == q \div W
<1>1. /\ k \in Int /\ l \in Int /\ p % W \in Int
      /\ p = W * k + (p % W)
      /\ q = W * l + (q % W)
  BY DivMod
<1> HIDE DEF k, l
<1>2. q - p = W * (l - k)
  <2>1. W * (l - k) = W * l - W * k
    BY <1>1
  <2> QED BY <1>1, <2>1
<1>3. l - k = 0
  BY <1>1, <1>2, NoMultiple
<1> QED BY <1>1, <1>2, <1>3

\* Adding W does not change the remainder.
LEMMA ModShift ==
  ASSUME NEW W \in Nat, W > 0, NEW p \in Int
  PROVE  (p + W) % W = p % W
<1> DEFINE k == p \div W
<1> DEFINE l == (p + W) \div W
<1> DEFINE r == p % W
<1> DEFINE m == (p + W) % W
<1>1. /\ k \in Int /\ l \in Int /\ r \in 0 .. W - 1 /\ m \in 0 .. W - 1
      /\ p = W * k + r
      /\ p + W = W * l + m
  BY DivMod
<1> HIDE DEF k, l, r, m
<1>2. W * (l - k - 1) = r - m
  <2>1. W * (l - k - 1) = W * l - W * k - W
    BY <1>1
  <2> QED BY <1>1, <2>1
<1>3. l - k - 1 = 0
  BY <1>1, <1>2, NoMultiple
<1>4. m = r
  <2>1. W * 0 = 0
    OBVIOUS
  <2> QED BY <1>1, <1>2, <1>3, <2>1
<1> QED BY <1>4 DEF m, r

----------------------------------------------------------------------------

Queues ==
  [head : Nat, tail : Nat, seq : [Slots -> Nat], data : [Slots -> Payload]]

-----------------------------------------------------------------------------
(* The slots of a window of positions *)

\* A position has a slot.
LEMMA SlotOfPosition ==
  ASSUME NEW p \in Nat
  PROVE  slot(p) \in Slots
BY QueueSizeAssumption, DivMod DEF slot, Slots

\* Two positions less than a lap apart have different slots.
LEMMA SlotsDiffer ==
  ASSUME NEW p \in Nat, NEW q \in Nat, p # q,
         p < q + QueueSize, q < p + QueueSize
  PROVE  slot(p) # slot(q)
<1>1. QueueSize \in Nat /\ QueueSize > 0 /\ p \in Int /\ q \in Int
  BY QueueSizeAssumption
<1>2. CASE p <= q
  BY <1>1, <1>2, ModInjective DEF slot
<1>3. CASE q <= p
  BY <1>1, <1>3, ModInjective DEF slot
<1> QED BY <1>1, <1>2, <1>3

\* A lap later a position has its slot again.
LEMMA SlotAgain ==
  ASSUME NEW p \in Nat
  PROVE  slot(p + QueueSize) = slot(p)
<1>1. QueueSize \in Nat /\ QueueSize > 0 /\ p \in Int
  BY QueueSizeAssumption
<1>2. (p + QueueSize) % QueueSize = p % QueueSize
  BY <1>1, ModShift
<1> QED BY <1>2 DEF slot

-----------------------------------------------------------------------------
(* What the operations of the queue change *)

\* A ticket takes a position and nothing else (mpmcQueue.c:35).
LEMMA Reserved ==
  ASSUME NEW q \in Queues
  PROVE  /\ reserve(q) \in Queues
         /\ reserve(q).tail = q.tail + 1 /\ reserve(q).head = q.head
         /\ reserve(q).seq = q.seq /\ reserve(q).data = q.data
BY DEF Queues, reserve

\* The copy fills one slot (mpmcQueue.c:42).
LEMMA Written ==
  ASSUME NEW q \in Queues, NEW p \in Nat, NEW m \in Payload
  PROVE  /\ write(q, p, m) \in Queues
         /\ write(q, p, m).tail = q.tail /\ write(q, p, m).head = q.head
         /\ write(q, p, m).seq = q.seq
         /\ write(q, p, m).data[slot(p)] = m
         /\ \A r \in Nat : slot(r) # slot(p) =>
              write(q, p, m).data[slot(r)] = q.data[slot(r)]
BY SlotOfPosition DEF Queues, write

\* The new sequence number of a filled slot (mpmcQueue.c:45).
LEMMA Published ==
  ASSUME NEW q \in Queues, NEW p \in Nat
  PROVE  /\ publish(q, p) \in Queues
         /\ publish(q, p).tail = q.tail /\ publish(q, p).head = q.head
         /\ publish(q, p).data = q.data
         /\ publish(q, p).seq[slot(p)] = p + 1
         /\ \A r \in Nat : slot(r) # slot(p) =>
              publish(q, p).seq[slot(r)] = q.seq[slot(r)]
BY SlotOfPosition DEF Queues, publish

\* An emptied slot is made ready for the next lap (mpmcQueue.c:86).
LEMMA Released ==
  ASSUME NEW q \in Queues, NEW p \in Nat
  PROVE  /\ release(q, p) \in Queues
         /\ release(q, p).tail = q.tail /\ release(q, p).head = q.head
         /\ release(q, p).data = q.data
         /\ release(q, p).seq[slot(p)] = p + QueueSize
         /\ \A r \in Nat : slot(r) # slot(p) =>
              release(q, p).seq[slot(r)] = q.seq[slot(r)]
<1>1. QueueSize \in Nat /\ p + QueueSize \in Nat
  BY QueueSizeAssumption
<1> QED BY <1>1, SlotOfPosition DEF Queues, release

\* The position at the head is taken and its slot released (mpmcQueue.c:72-86).
LEMMA Taken ==
  ASSUME NEW q \in Queues
  PROVE  /\ release(take(q), q.head) \in Queues
         /\ release(take(q), q.head).tail = q.tail
         /\ release(take(q), q.head).head = q.head + 1
         /\ release(take(q), q.head).data = q.data
         /\ release(take(q), q.head).seq[slot(q.head)] = q.head + QueueSize
         /\ \A p \in Nat : slot(p) # slot(q.head) =>
              release(take(q), q.head).seq[slot(p)] = q.seq[slot(p)]
<1>1. /\ take(q) \in Queues /\ q.head \in Nat
      /\ take(q).tail = q.tail /\ take(q).head = q.head + 1
      /\ take(q).data = q.data /\ take(q).seq = q.seq
  BY DEF Queues, take
<1>2. /\ release(take(q), q.head) \in Queues
      /\ release(take(q), q.head).tail = take(q).tail
      /\ release(take(q), q.head).head = take(q).head
      /\ release(take(q), q.head).data = take(q).data
      /\ release(take(q), q.head).seq[slot(q.head)] = q.head + QueueSize
      /\ \A r \in Nat : slot(r) # slot(q.head) =>
           release(take(q), q.head).seq[slot(r)] = take(q).seq[slot(r)]
  BY <1>1, Released, Zenon
<1> QED BY <1>1, <1>2

-----------------------------------------------------------------------------
(* The counters *)

\* A ticket is only given out when the queue is not full: the tail is then less
\* than a lap ahead of the head.
LEMMA RoomForTicket ==
  ASSUME LogInv, mayPush(queue)
  PROVE  queue.tail < queue.head + QueueSize
<1>1. /\ queue.head \in Nat /\ queue.tail \in Nat /\ QueueSize \in Nat /\ QueueSize >= 2
      /\ queue.head <= queue.tail /\ queue.tail <= queue.head + QueueSize
      /\ queue.seq[slot(queue.tail)] = queue.tail
      /\ \A p \in queue.head .. queue.tail - 1 : queue.seq[slot(p)] \in {p, p + 1}
  BY QueueSizeAssumption DEF LogInv, LogTyped, SlotsByLap, mayPush
<1>2. SUFFICES ASSUME queue.tail = queue.head + QueueSize
               PROVE  FALSE
  BY <1>1
<1>3. slot(queue.tail) = slot(queue.head)
  BY <1>1, <1>2, SlotAgain
<1>4. queue.head \in queue.head .. queue.tail - 1
  BY <1>1, <1>2
<1>5. queue.seq[slot(queue.head)] \in {queue.head, queue.head + 1}
  BY <1>1, <1>4
<1> QED BY <1>1, <1>2, <1>3, <1>5

\* Nothing is popped from a queue without tickets.
LEMMA HeldToPop ==
  ASSUME LogInv, mayPop(queue)
  PROVE  queue.head < queue.tail
<1>1. /\ queue.head \in Nat /\ queue.tail \in Nat /\ QueueSize \in Nat /\ QueueSize >= 2
      /\ queue.head <= queue.tail
      /\ queue.seq[slot(queue.head)] = queue.head + 1
      /\ \A p \in queue.tail .. queue.head + QueueSize - 1 : queue.seq[slot(p)] = p
  BY QueueSizeAssumption DEF LogInv, LogTyped, SlotsByLap, mayPop
<1>2. SUFFICES ASSUME queue.tail = queue.head
               PROVE  FALSE
  BY <1>1
<1>3. queue.head \in queue.tail .. queue.head + QueueSize - 1
  BY <1>1, <1>2
<1> QED BY <1>1, <1>3

\* The natural numbers of a set that is not empty have a least one.
LEMMA LeastNumber ==
  ASSUME NEW S, S \subseteq Nat, S # {}
  PROVE  \E p \in S : \A u \in S : p <= u
<1>1. PICK p \in S : \A u \in S : <<u, p>> \notin OpToRel(<, Nat)
  BY WFMin, NatLessThanWellFounded
<1>2. \A u \in S : ~(u < p)
  BY <1>1 DEF OpToRel
<1> QED BY <1>2

\* The messages that count as pushed when a shutdown begins are a prefix of the
\* positions held, and every one of them can be popped.
LEMMA PushedIsPublished ==
  ASSUME LogInv
  PROVE  /\ pushed \in Nat /\ pushed <= queue.tail
         /\ \A p \in queue.head .. pushed - 1 : queue.seq[slot(p)] = p + 1
<1> DEFINE unpublished ==
      {p \in queue.head .. queue.tail - 1 : queue.seq[slot(p)] # p + 1}
<1>1. queue.head \in Nat /\ queue.tail \in Nat /\ unpublished \subseteq Nat
  BY DEF LogInv, LogTyped
<1>2. CASE unpublished = {}
  <2>1. pushed = queue.tail
    BY <1>2 DEF pushed
  <2> QED BY <1>1, <1>2, <2>1
<1>3. CASE unpublished # {}
  <2>1. \E p \in unpublished : \A u \in unpublished : p <= u
    BY <1>1, <1>3, LeastNumber
  <2>2. pushed = CHOOSE p \in unpublished : \A u \in unpublished : p <= u
    BY <1>3 DEF pushed
  <2>3. pushed \in unpublished /\ \A u \in unpublished : pushed <= u
    <3> HIDE DEF unpublished
    <3> QED BY <2>1, <2>2
  <2>4. pushed \in Nat /\ pushed < queue.tail /\ queue.head <= pushed
    BY <1>1, <2>3
  <2>5. ASSUME NEW p \in queue.head .. pushed - 1, queue.seq[slot(p)] # p + 1
        PROVE  FALSE
    <3>1. p \in unpublished
      BY <1>1, <2>4, <2>5
    <3> QED BY <1>1, <2>3, <2>4, <3>1
  <2> QED BY <2>4, <2>5, <1>1
<1> QED BY <1>2, <1>3

-----------------------------------------------------------------------------
(* LogInv is inductive *)

\* The empty queue, nothing logged yet.
LEMMA LogInvInit ==
  ASSUME Init
  PROVE  LogInv
<1>1. QueueSize \in Nat /\ QueueSize >= 2 /\ MaxMessages \in Nat
  BY QueueSizeAssumption, MaxMessagesAssumption
<1>2. /\ queue.head = 0 /\ queue.tail = 0
      /\ queue.seq = [i \in Slots |-> i]
      /\ queue \in Queues
  BY <1>1 DEF Init, Empty, Queues, Slots, Payload
<1>3. \A p \in 0 .. QueueSize - 1 : slot(p) = p
  BY <1>1, ModSmall DEF slot
<1>4. LogTyped
  BY <1>1, <1>2 DEF Init, LogTyped, Queues, Payload
<1>5. SlotsByLap
  <2>1. \A p \in 0 .. QueueSize - 1 : queue.seq[slot(p)] = p
    BY <1>1, <1>2, <1>3 DEF Slots
  <2>2. /\ queue.tail .. queue.head + QueueSize - 1 = 0 .. QueueSize - 1
        /\ queue.head .. queue.tail - 1 = {}
        /\ queue.head <= queue.tail /\ queue.tail <= queue.head + QueueSize
    BY <1>1, <1>2
  <2> QED BY <2>1, <2>2 DEF SlotsByLap
<1>6. PushesOwned
  BY DEF Init, PushesOwned, Pushing
<1>7. PublishedWhole /\ PositionsCounted
  BY <1>2 DEF Init, PublishedWhole, PositionsCounted
<1>8. ShutdownPromise
  BY <1>2 DEF Init, ShutdownPromise
<1> QED BY <1>4, <1>5, <1>6, <1>7, <1>8 DEF LogInv

\* A step that leaves the queue alone, lets nobody begin or finish a push, and
\* lets the log thread leave only in time.
LEMMA QueueLeftAlone ==
  ASSUME LogInv, LogTyped',
         UNCHANGED <<queue, running, ticket, delivered, accepted, due>>,
         \A t \in Threads : Pushing(t)' => pc'[t] = pc[t] /\ message'[t] = message[t],
         logThread' \in {"drain", "left"} => ~running,
         logThread' = "left" => queue.head >= due
  PROVE  LogInv'
<1>1. SlotsByLap' /\ PublishedWhole' /\ PositionsCounted'
  BY DEF LogInv, SlotsByLap, PublishedWhole, PositionsCounted, slot
<1>2. PushesOwned'
  <2>1. \A t \in Threads : Pushing(t)' => Pushing(t) /\ pc'[t] = pc[t] /\ message'[t] = message[t]
    BY DEF Pushing
  <2> QED BY <2>1 DEF LogInv, PushesOwned, slot
<1>3. ShutdownPromise'
  BY DEF LogInv, ShutdownPromise, slot
<1> QED BY <1>1, <1>2, <1>3 DEF LogInv

\* The steps of logInternal and avLogShutdown outside the queue.
LEMMA OtherThreadStep ==
  ASSUME LogInv, NEW t \in Threads,
         Log(t) \/ Drop(t) \/ Signal(t) \/ WakeToLeave(t) \/ Join(t) \/ BeginShutdown
  PROVE  LogInv'
<1>1. LogTyped
  BY DEF LogInv
<1>2. MaxMessages \in Nat /\ Main \in Threads
  BY MaxMessagesAssumption, ThreadsAssumption
<1>3. CASE Log(t)
  <2>1. messages + 1 \in 1 .. MaxMessages
    BY <1>1, <1>2, <1>3 DEF Log, LogTyped
  <2>2. LogTyped'
    BY <1>1, <1>3, <2>1 DEF Log, Goto, LogTyped, log, Payload
  <2>3. \A u \in Threads : Pushing(u)' => pc'[u] = pc[u] /\ message'[u] = message[u]
    BY <1>1, <1>3 DEF Log, Goto, LogTyped, Pushing
  <2> QED BY <1>3, <2>2, <2>3, QueueLeftAlone DEF Log, log, LogInv, ShutdownPromise
<1>4. CASE Drop(t) \/ Join(t)
  <2>1. LogTyped' /\ \A u \in Threads : Pushing(u)' => pc'[u] = pc[u]
    BY <1>1, <1>4 DEF Drop, Join, Goto, LogTyped, log, history, Pushing
  <2> QED BY <1>4, <2>1, QueueLeftAlone DEF Drop, Join, log, history, LogInv, ShutdownPromise
<1>5. CASE Signal(t) \/ WakeToLeave(t)
  <2>1. LogTyped' /\ \A u \in Threads : Pushing(u)' => pc'[u] = pc[u]
    BY <1>1, <1>5 DEF Signal, WakeToLeave, signal, Goto, LogTyped, history, Pushing
  <2> QED BY <1>5, <2>1, QueueLeftAlone
          DEF Signal, WakeToLeave, signal, history, LogInv, ShutdownPromise
<1>6. CASE BeginShutdown
  <2>1. LogTyped' /\ \A u \in Threads : Pushing(u)' => pc'[u] = pc[u]
    BY <1>1, <1>2, <1>6 DEF BeginShutdown, Goto, LogTyped, log, history, Pushing
  <2> QED BY <1>6, <2>1, QueueLeftAlone DEF BeginShutdown, log, history, LogInv, ShutdownPromise
<1> QED BY <1>3, <1>4, <1>5, <1>6

\* The steps of logThreadMain outside the queue.  It leaves when it finds the
\* queue empty: what was due can be popped, so nothing is due any more.
LEMMA OtherLogThreadStep ==
  ASSUME LogInv, TestRunning \/ FoundNone \/ Sleep \/ WakeForNothing \/ Leave
  PROVE  LogInv'
<1>1. LogTyped /\ ShutdownPromise
  BY DEF LogInv
<1>2. LogTyped'
  BY <1>1 DEF TestRunning, FoundNone, Sleep, WakeForNothing, Leave, LogTyped, history
<1>3. \A u \in Threads : Pushing(u)' => pc'[u] = pc[u] /\ message'[u] = message[u]
  BY DEF TestRunning, FoundNone, Sleep, WakeForNothing, Leave
<1>4. UNCHANGED <<queue, running, ticket, delivered, accepted, due>>
  BY DEF TestRunning, FoundNone, Sleep, WakeForNothing, Leave, history
<1>5. logThread' \in {"drain", "left"} => ~running
  BY <1>1 DEF TestRunning, FoundNone, Sleep, WakeForNothing, Leave, ShutdownPromise
<1>6. logThread' = "left" => queue.head >= due
  <2>1. SUFFICES ASSUME empty(queue), due > queue.head
                 PROVE  FALSE
    BY <1>1 DEF TestRunning, FoundNone, Sleep, WakeForNothing, Leave, LogTyped
  <2>2. queue.head \in queue.head .. due - 1 /\ queue.head \in Nat
    BY <1>1, <2>1 DEF LogTyped
  <2>3. queue.seq[slot(queue.head)] = queue.head + 1
    BY <1>1, <2>2 DEF ShutdownPromise
  <2> QED BY <2>1, <2>2, <2>3 DEF empty
<1> QED BY <1>2, <1>3, <1>4, <1>5, <1>6, QueueLeftAlone

\* The first shutdown counts what was pushed; a later one changes nothing.
LEMMA StopRunningStep ==
  ASSUME LogInv, NEW t \in Threads, StopRunning(t)
  PROVE  LogInv'
<1>1. LogTyped /\ ShutdownPromise
  BY DEF LogInv
<1>2. LogTyped'
  BY <1>1, PushedIsPublished DEF StopRunning, Goto, LogTyped, log
<1>3. SlotsByLap' /\ PublishedWhole' /\ PositionsCounted'
  BY DEF LogInv, StopRunning, log, SlotsByLap, PublishedWhole, PositionsCounted, slot
<1>4. PushesOwned'
  <2>1. \A u \in Threads : Pushing(u)' => Pushing(u) /\ pc'[u] = pc[u]
    BY <1>1 DEF StopRunning, Goto, LogTyped, Pushing
  <2> QED BY <2>1 DEF LogInv, PushesOwned, StopRunning, slot
<1>5. ShutdownPromise'
  <2>1. CASE running
    <3>1. /\ queue' = queue /\ due' = pushed /\ running' = FALSE /\ logThread' = logThread
          /\ logThread # "left"
      BY <1>1, <2>1 DEF StopRunning, log, ShutdownPromise
    <3>2. /\ pushed <= queue.tail
          /\ \A p \in queue.head .. pushed - 1 : queue.seq[slot(p)] = p + 1
      BY PushedIsPublished
    <3> QED BY <3>1, <3>2 DEF ShutdownPromise, slot
  <2>2. CASE ~running
    BY <1>1, <2>2 DEF StopRunning, log, ShutdownPromise, slot
  <2> QED BY <2>1, <2>2
<1> QED BY <1>2, <1>3, <1>4, <1>5 DEF LogInv

\* A ticket: the new position is unfinished and its own message is accepted.
LEMMA ReserveStep ==
  ASSUME LogInv, NEW t \in Threads, Reserve(t)
  PROVE  LogInv'
<1> DEFINE h == queue.head
<1> DEFINE n == queue.tail
<1>1. LogTyped /\ SlotsByLap /\ PushesOwned /\ PublishedWhole /\ PositionsCounted /\ ShutdownPromise
  BY DEF LogInv
<1>2. /\ h \in Nat /\ n \in Nat /\ QueueSize \in Nat /\ QueueSize >= 2
      /\ h <= n /\ n < h + QueueSize
      /\ queue \in Queues /\ message[t] \in Payload /\ accepted \in Seq(Payload)
      /\ Len(accepted) = n
  BY <1>1, QueueSizeAssumption, RoomForTicket
     DEF Reserve, LogTyped, SlotsByLap, PositionsCounted, Queues
<1>3. /\ queue' \in Queues
      /\ queue'.tail = n + 1 /\ queue'.head = h
      /\ queue'.seq = queue.seq /\ queue'.data = queue.data
  BY <1>2, Reserved DEF Reserve
<1>4. /\ accepted' \in Seq(Payload) /\ Len(accepted') = n + 1
      /\ \A i \in 1 .. n : accepted'[i] = accepted[i]
      /\ accepted'[n + 1] = message[t]
  BY <1>2, AppendProperties DEF Reserve
<1>5. /\ pc' = [pc EXCEPT ![t] = "write"] /\ ticket' = [ticket EXCEPT ![t] = n]
      /\ DOMAIN pc = Threads /\ ticket \in [Threads -> Nat]
      /\ pc[t] = "reserve"
      /\ UNCHANGED <<running, message, logThread, delivered, due, messages>>
      /\ queue.seq[slot(n)] = n
  BY <1>1 DEF Reserve, Goto, LogTyped, log, mayPush
<1> HIDE DEF h, n
<1>6. LogTyped'
  BY <1>1, <1>2, <1>3, <1>4, <1>5 DEF LogTyped, Queues
<1>7. SlotsByLap'
  <2>1. \A p \in h .. n : queue.seq[slot(p)] \in {p, p + 1}
    BY <1>1, <1>2, <1>5 DEF SlotsByLap, h, n
  <2>2. \A p \in n + 1 .. h + QueueSize - 1 : queue.seq[slot(p)] = p
    BY <1>1, <1>2 DEF SlotsByLap, h, n
  <2>3. queue'.tail - 1 = n /\ queue'.head <= queue'.tail /\ queue'.tail <= queue'.head + QueueSize
    BY <1>2, <1>3
  <2> QED BY <1>3, <2>1, <2>2, <2>3 DEF SlotsByLap, slot
<1>8. PushesOwned'
  <2>1. \A u \in Threads : Pushing(u)' => u = t \/ (u # t /\ Pushing(u))
    BY <1>5 DEF Pushing
  <2>2. \A u \in Threads : u # t => ticket'[u] = ticket[u] /\ pc'[u] = pc[u]
    BY <1>5
  <2>3. ticket'[t] = n /\ pc'[t] = "write"
    BY <1>5
  <2>4. \A u \in Threads : Pushing(u) => ticket[u] \in h .. n - 1
    BY <1>1 DEF PushesOwned, h, n
  <2>5. ASSUME NEW u \in Threads, Pushing(u)'
        PROVE  /\ ticket'[u] \in queue'.head .. queue'.tail - 1
               /\ queue'.seq[slot(ticket'[u])] = ticket'[u]
               /\ accepted'[ticket'[u] + 1] = message'[u]
               /\ pc'[u] = "publish" => queue'.data[slot(ticket'[u])] = message'[u]
    <3>1. CASE u = t
      BY <1>2, <1>3, <1>4, <1>5, <2>3, <3>1
    <3>2. CASE u # t
      <4>1. Pushing(u) /\ ticket'[u] = ticket[u] /\ pc'[u] = pc[u] /\ message'[u] = message[u]
        BY <1>5, <2>1, <2>2, <2>5, <3>2
      <4>2. /\ ticket[u] \in h .. n - 1
            /\ queue.seq[slot(ticket[u])] = ticket[u]
            /\ accepted[ticket[u] + 1] = message[u]
            /\ pc[u] = "publish" => queue.data[slot(ticket[u])] = message[u]
        BY <1>1, <4>1 DEF PushesOwned, h, n
      <4>3. ticket[u] + 1 \in 1 .. n /\ ticket[u] \in h .. (n + 1) - 1
        BY <1>2, <4>2
      <4> QED BY <1>3, <1>4, <4>1, <4>2, <4>3
    <3> QED BY <3>1, <3>2
  <2>6. ASSUME NEW u \in Threads, NEW v \in Threads,
               Pushing(u)', Pushing(v)', ticket'[u] = ticket'[v]
        PROVE  u = v
    <3>1. CASE u # t /\ v # t
      BY <1>1, <2>1, <2>2, <2>6, <3>1 DEF PushesOwned
    <3>2. CASE u = t \/ v = t
      BY <1>2, <2>1, <2>2, <2>3, <2>4, <2>6, <3>2
    <3> QED BY <3>1, <3>2
  <2>7. \A u \in Threads : Pushing(u)' =>
               /\ ticket'[u] \in queue'.head .. queue'.tail - 1
               /\ queue'.seq[slot(ticket'[u])] = ticket'[u]
               /\ accepted'[ticket'[u] + 1] = message'[u]
               /\ pc'[u] = "publish" => queue'.data[slot(ticket'[u])] = message'[u]
    BY <2>5
  <2>8. \A u, v \in Threads : Pushing(u)' /\ Pushing(v)' /\ ticket'[u] = ticket'[v] => u = v
    BY <2>6
  <2> QED BY <2>7, <2>8 DEF PushesOwned, Pushing, slot
<1>9. PublishedWhole'
  <2>1. \A p \in h .. n - 1 : queue.seq[slot(p)] = p + 1 => queue.data[slot(p)] = accepted[p + 1]
    BY <1>1 DEF PublishedWhole, h, n
  <2>2. ASSUME NEW p \in h .. n, queue.seq[slot(p)] = p + 1
        PROVE  queue.data[slot(p)] = accepted'[p + 1]
    <3>1. p # n
      BY <1>2, <1>5, <2>2
    <3>2. p \in h .. n - 1 /\ p + 1 \in 1 .. n
      BY <1>2, <3>1
    <3> QED BY <1>4, <2>1, <2>2, <3>2
  <2>3. queue'.tail - 1 = n
    BY <1>2, <1>3
  <2> QED BY <1>3, <2>2, <2>3 DEF PublishedWhole, slot
<1>10. PositionsCounted'
  BY <1>1, <1>2, <1>3, <1>4, <1>5 DEF PositionsCounted, h, n
<1>11. ShutdownPromise'
  <2>1. due <= n /\ due \in Nat
    BY <1>1 DEF ShutdownPromise, LogTyped, n
  <2>2. due' <= queue'.tail
    BY <1>2, <1>3, <1>5, <2>1
  <2> QED BY <1>1, <1>3, <1>5, <2>2 DEF ShutdownPromise, slot, h
<1> QED BY <1>6, <1>7, <1>8, <1>9, <1>10, <1>11 DEF LogInv

\* The copy fills a slot that nobody else holds and that cannot be popped yet.
LEMMA WriteStep ==
  ASSUME LogInv, NEW t \in Threads, Write(t)
  PROVE  LogInv'
<1> DEFINE h == queue.head
<1> DEFINE n == queue.tail
<1> DEFINE k == ticket[t]
<1>1. LogTyped /\ SlotsByLap /\ PushesOwned /\ PublishedWhole /\ PositionsCounted /\ ShutdownPromise
  BY DEF LogInv
<1>2. /\ h \in Nat /\ n \in Nat /\ QueueSize \in Nat /\ n <= h + QueueSize
      /\ queue \in Queues /\ message[t] \in Payload
      /\ k \in h .. n - 1 /\ k \in Nat /\ Pushing(t)
      /\ queue.seq[slot(k)] = k /\ accepted[k + 1] = message[t]
  BY <1>1, QueueSizeAssumption DEF Write, LogTyped, SlotsByLap, PushesOwned, Pushing, Queues
<1>3. /\ queue' \in Queues
      /\ queue'.tail = n /\ queue'.head = h
      /\ queue'.seq = queue.seq
      /\ queue'.data[slot(k)] = message[t]
      /\ \A r \in Nat : slot(r) # slot(k) => queue'.data[slot(r)] = queue.data[slot(r)]
  <2>1. queue' = write(queue, k, message[t])
    BY DEF Write
  <2>2. queue \in Queues /\ k \in Nat /\ message[t] \in Payload
    BY <1>2
  <2> QED BY ONLY <2>1, <2>2, Written DEF n, h
<1>4. /\ pc' = [pc EXCEPT ![t] = "publish"] /\ DOMAIN pc = Threads
      /\ UNCHANGED <<ticket, accepted, running, message, logThread, delivered, due, messages>>
  BY <1>1 DEF Write, Goto, LogTyped, log, history
<1> HIDE DEF h, n, k
<1>5. \A r \in h .. n - 1 : r # k => queue'.data[slot(r)] = queue.data[slot(r)]
  <2>1. SUFFICES ASSUME NEW r \in h .. n - 1, r # k
                 PROVE  slot(r) # slot(k)
    BY <1>2, <1>3
  <2> QED BY <1>2, <2>1, SlotsDiffer
<1>6. LogTyped'
  BY <1>1, <1>3, <1>4 DEF LogTyped, Queues
<1>7. SlotsByLap' /\ PositionsCounted' /\ ShutdownPromise'
  BY <1>1, <1>3, <1>4 DEF SlotsByLap, PositionsCounted, ShutdownPromise, slot, h, n
<1>8. PushesOwned'
  <2>1. \A u \in Threads : Pushing(u)' => Pushing(u) /\ (u # t => pc'[u] = pc[u])
    BY <1>2, <1>4 DEF Pushing
  <2>2. ASSUME NEW u \in Threads, Pushing(u)'
        PROVE  /\ ticket[u] \in h .. n - 1
               /\ queue.seq[slot(ticket[u])] = ticket[u]
               /\ accepted[ticket[u] + 1] = message[u]
               /\ pc'[u] = "publish" => queue'.data[slot(ticket[u])] = message[u]
    <3>1. CASE u = t
      BY <1>2, <1>3, <3>1 DEF k
    <3>2. CASE u # t
      <4>1. /\ ticket[u] \in h .. n - 1
            /\ queue.seq[slot(ticket[u])] = ticket[u]
            /\ accepted[ticket[u] + 1] = message[u]
            /\ pc'[u] = "publish" => queue.data[slot(ticket[u])] = message[u]
        BY <1>1, <2>1, <2>2, <3>2 DEF PushesOwned, h, n
      <4>2. ticket[u] # k
        BY <1>1, <1>2, <2>1, <2>2, <3>2 DEF PushesOwned, k
      <4> QED BY <1>5, <4>1, <4>2
    <3> QED BY <3>1, <3>2
  <2>3. \A u, v \in Threads : Pushing(u)' /\ Pushing(v)' /\ ticket[u] = ticket[v] => u = v
    BY <1>1, <2>1 DEF PushesOwned
  <2> QED BY <1>3, <1>4, <2>2, <2>3 DEF PushesOwned, Pushing, slot
<1>9. PublishedWhole'
  <2>1. \A p \in h .. n - 1 : queue.seq[slot(p)] = p + 1 => p # k
    BY <1>2
  <2> QED BY <1>1, <1>3, <1>4, <1>5, <2>1 DEF PublishedWhole, slot, h, n
<1> QED BY <1>6, <1>7, <1>8, <1>9 DEF LogInv

\* The finished position may now be popped; it is whole.
LEMMA PublishStep ==
  ASSUME LogInv, NEW t \in Threads, Publish(t)
  PROVE  LogInv'
<1> DEFINE h == queue.head
<1> DEFINE n == queue.tail
<1> DEFINE k == ticket[t]
<1>1. LogTyped /\ SlotsByLap /\ PushesOwned /\ PublishedWhole /\ PositionsCounted /\ ShutdownPromise
  BY DEF LogInv
<1>2. /\ h \in Nat /\ n \in Nat /\ QueueSize \in Nat /\ h <= n /\ n <= h + QueueSize
      /\ queue \in Queues
      /\ k \in h .. n - 1 /\ k \in Nat /\ Pushing(t)
      /\ queue.seq[slot(k)] = k /\ accepted[k + 1] = message[t]
      /\ queue.data[slot(k)] = message[t]
  BY <1>1, QueueSizeAssumption DEF Publish, LogTyped, SlotsByLap, PushesOwned, Pushing, Queues
<1>3. /\ queue' \in Queues
      /\ queue'.tail = n /\ queue'.head = h
      /\ queue'.data = queue.data
      /\ queue'.seq[slot(k)] = k + 1
      /\ \A r \in Nat : slot(r) # slot(k) => queue'.seq[slot(r)] = queue.seq[slot(r)]
  BY <1>2, Published DEF Publish
<1>4. /\ pc' = [pc EXCEPT ![t] = "signal"] /\ DOMAIN pc = Threads
      /\ UNCHANGED <<ticket, accepted, running, message, logThread, delivered, due, messages>>
  BY <1>1 DEF Publish, Goto, LogTyped, log, history
<1> HIDE DEF h, n, k
<1>5. \A r \in h .. h + QueueSize - 1 : r # k => queue'.seq[slot(r)] = queue.seq[slot(r)]
  <2>1. SUFFICES ASSUME NEW r \in h .. h + QueueSize - 1, r # k
                 PROVE  slot(r) # slot(k)
    BY <1>2, <1>3
  <2> QED BY <1>2, <2>1, SlotsDiffer
<1>6. LogTyped'
  BY <1>1, <1>3, <1>4 DEF LogTyped, Queues
<1>7. SlotsByLap'
  <2>1. \A p \in h .. n - 1 : queue'.seq[slot(p)] \in {p, p + 1}
    <3>1. \A p \in h .. n - 1 : p = k \/ queue'.seq[slot(p)] = queue.seq[slot(p)]
      BY <1>2, <1>5
    <3> QED BY <1>1, <1>3, <3>1 DEF SlotsByLap, h, n
  <2>2. \A p \in n .. h + QueueSize - 1 : queue'.seq[slot(p)] = p
    <3>1. \A p \in n .. h + QueueSize - 1 : queue'.seq[slot(p)] = queue.seq[slot(p)]
      BY <1>2, <1>5
    <3> QED BY <1>1, <3>1 DEF SlotsByLap, h, n
  <2> QED BY <1>2, <1>3, <2>1, <2>2 DEF SlotsByLap, slot
<1>8. PushesOwned'
  <2>1. \A u \in Threads : Pushing(u)' => Pushing(u) /\ u # t /\ pc'[u] = pc[u]
    BY <1>2, <1>4 DEF Pushing
  <2>2. ASSUME NEW u \in Threads, Pushing(u)'
        PROVE  /\ ticket[u] \in h .. n - 1
               /\ queue'.seq[slot(ticket[u])] = ticket[u]
               /\ accepted[ticket[u] + 1] = message[u]
               /\ pc'[u] = "publish" => queue.data[slot(ticket[u])] = message[u]
    <3>1. /\ ticket[u] \in h .. n - 1
          /\ queue.seq[slot(ticket[u])] = ticket[u]
          /\ accepted[ticket[u] + 1] = message[u]
          /\ pc'[u] = "publish" => queue.data[slot(ticket[u])] = message[u]
      BY <1>1, <2>1, <2>2 DEF PushesOwned, h, n
    <3>2. ticket[u] # k
      BY <1>1, <1>2, <2>1, <2>2 DEF PushesOwned, k
    <3>3. ticket[u] \in h .. h + QueueSize - 1
      BY <1>2, <3>1
    <3> QED BY <1>5, <3>1, <3>2, <3>3
  <2>3. \A u, v \in Threads : Pushing(u)' /\ Pushing(v)' /\ ticket[u] = ticket[v] => u = v
    BY <1>1, <2>1 DEF PushesOwned
  <2> QED BY <1>3, <1>4, <2>2, <2>3 DEF PushesOwned, Pushing, slot
<1>9. PublishedWhole'
  <2>1. ASSUME NEW p \in h .. n - 1, queue'.seq[slot(p)] = p + 1
        PROVE  queue.data[slot(p)] = accepted[p + 1]
    <3>1. CASE p = k
      BY <1>2, <3>1
    <3>2. CASE p # k
      <4>1. p \in h .. h + QueueSize - 1
        BY <1>2
      <4> QED BY <1>1, <1>5, <2>1, <3>2, <4>1 DEF PublishedWhole, h, n
    <3> QED BY <3>1, <3>2
  <2> QED BY <1>3, <1>4, <2>1 DEF PublishedWhole, slot
<1>10. PositionsCounted'
  BY <1>1, <1>3, <1>4 DEF PositionsCounted, h, n
<1>11. ShutdownPromise'
  <2>1. due \in Nat /\ due <= n /\ \A p \in h .. due - 1 : queue.seq[slot(p)] = p + 1
    BY <1>1 DEF ShutdownPromise, LogTyped, h, n
  <2>2. ASSUME NEW p \in h .. due - 1
        PROVE  queue'.seq[slot(p)] = p + 1
    <3>1. p # k /\ p \in h .. h + QueueSize - 1
      BY <1>2, <2>1
    <3> QED BY <1>5, <2>1, <3>1
  <2> QED BY <1>1, <1>3, <1>4, <2>2 DEF ShutdownPromise, slot, h, n
<1> QED BY <1>6, <1>7, <1>8, <1>9, <1>10, <1>11 DEF LogInv

\* The sinks get the message of the position at the head; its slot is made ready
\* for the position a lap ahead.
LEMMA DeliverStep ==
  ASSUME LogInv, Deliver
  PROVE  LogInv'
<1> DEFINE h == queue.head
<1> DEFINE n == queue.tail
<1>1. LogTyped /\ SlotsByLap /\ PushesOwned /\ PublishedWhole /\ PositionsCounted /\ ShutdownPromise
  BY DEF LogInv
<1>2. /\ h \in Nat /\ n \in Nat /\ QueueSize \in Nat /\ QueueSize >= 2
      /\ h < n /\ n <= h + QueueSize
      /\ queue \in Queues /\ delivered \in Seq(Payload) /\ accepted \in Seq(Payload)
      /\ Len(delivered) = h /\ Len(accepted) = n
      /\ queue.seq[slot(h)] = h + 1
  BY <1>1, QueueSizeAssumption, HeldToPop
     DEF Deliver, LogTyped, SlotsByLap, PositionsCounted, Queues, mayPop
<1>3. /\ queue' \in Queues
      /\ queue'.tail = n /\ queue'.head = h + 1
      /\ queue'.data = queue.data
      /\ queue'.seq[slot(h)] = h + QueueSize
      /\ \A r \in Nat : slot(r) # slot(h) => queue'.seq[slot(r)] = queue.seq[slot(r)]
  BY <1>2, Taken DEF Deliver
<1>4. queue.data[slot(h)] \in Payload /\ queue.data[slot(h)] = accepted[h + 1]
  <2>1. h \in h .. n - 1
    BY <1>2
  <2>2. queue.data[slot(h)] = accepted[h + 1]
    BY <1>1, <1>2, <2>1 DEF PublishedWhole
  <2>3. h + 1 \in 1 .. Len(accepted)
    BY <1>2
  <2>4. accepted[h + 1] \in Payload
    BY <1>2, <2>3, ElementOfSeq
  <2> QED BY <2>2, <2>4
<1>5. /\ delivered' = Append(delivered, queue.data[slot(h)])
      /\ UNCHANGED <<pc, ticket, accepted, running, message, logThread, due, messages>>
  BY DEF Deliver, history
<1> HIDE DEF h, n
<1>6. /\ delivered' \in Seq(Payload) /\ Len(delivered') = h + 1
      /\ \A i \in 1 .. h : delivered'[i] = delivered[i]
      /\ delivered'[h + 1] = accepted[h + 1]
  BY <1>2, <1>4, <1>5, AppendProperties
<1>7. \A r \in h + 1 .. h + QueueSize - 1 : queue'.seq[slot(r)] = queue.seq[slot(r)]
  <2>1. SUFFICES ASSUME NEW r \in h + 1 .. h + QueueSize - 1
                 PROVE  slot(r) # slot(h)
    BY <1>2, <1>3
  <2> QED BY <1>2, <2>1, SlotsDiffer
<1>8. LogTyped'
  BY <1>1, <1>3, <1>5, <1>6 DEF LogTyped, Queues
<1>9. SlotsByLap'
  <2>1. \A p \in h + 1 .. n - 1 : queue'.seq[slot(p)] \in {p, p + 1}
    <3>1. \A p \in h + 1 .. n - 1 : p \in h .. n - 1 /\ queue'.seq[slot(p)] = queue.seq[slot(p)]
      BY <1>2, <1>7
    <3> QED BY <1>1, <3>1 DEF SlotsByLap, h, n
  <2>2. \A p \in n .. h + QueueSize : queue'.seq[slot(p)] = p
    <3>1. \A p \in n .. h + QueueSize - 1 : queue'.seq[slot(p)] = queue.seq[slot(p)]
      BY <1>2, <1>7
    <3>2. slot(h + QueueSize) = slot(h)
      BY <1>2, SlotAgain
    <3>3. \A p \in n .. h + QueueSize : p \in n .. h + QueueSize - 1 \/ p = h + QueueSize
      BY <1>2
    <3>4. \A p \in n .. h + QueueSize - 1 : queue.seq[slot(p)] = p
      BY <1>1 DEF SlotsByLap, h, n
    <3> QED BY <1>3, <3>1, <3>2, <3>3, <3>4
  <2>3. (h + 1) + QueueSize - 1 = h + QueueSize /\ h + 1 <= n /\ n <= (h + 1) + QueueSize
    BY <1>2
  <2> QED BY <1>3, <2>1, <2>2, <2>3 DEF SlotsByLap, slot
<1>10. PushesOwned'
  <2>1. ASSUME NEW u \in Threads, Pushing(u)
        PROVE  /\ ticket[u] \in h + 1 .. n - 1
               /\ queue'.seq[slot(ticket[u])] = ticket[u]
               /\ accepted[ticket[u] + 1] = message[u]
               /\ pc[u] = "publish" => queue.data[slot(ticket[u])] = message[u]
    <3>1. /\ ticket[u] \in h .. n - 1
          /\ queue.seq[slot(ticket[u])] = ticket[u]
          /\ accepted[ticket[u] + 1] = message[u]
          /\ pc[u] = "publish" => queue.data[slot(ticket[u])] = message[u]
      BY <1>1, <2>1 DEF PushesOwned, h, n
    <3>2. ticket[u] # h
      BY <1>2, <3>1
    <3>3. ticket[u] \in h + 1 .. n - 1 /\ ticket[u] \in h + 1 .. h + QueueSize - 1
      BY <1>2, <3>1, <3>2
    <3> QED BY <1>7, <3>1, <3>3
  <2>2. \A u, v \in Threads : Pushing(u) /\ Pushing(v) /\ ticket[u] = ticket[v] => u = v
    BY <1>1 DEF PushesOwned
  <2> QED BY <1>3, <1>5, <2>1, <2>2 DEF PushesOwned, Pushing, slot
<1>11. PublishedWhole'
  <2>1. \A p \in h + 1 .. n - 1 : p \in h .. n - 1 /\ queue'.seq[slot(p)] = queue.seq[slot(p)]
    BY <1>2, <1>7
  <2> QED BY <1>1, <1>3, <1>5, <2>1 DEF PublishedWhole, slot, h, n
<1>12. PositionsCounted'
  <2>1. \A i \in 1 .. h : delivered[i] = accepted[i]
    BY <1>1 DEF PositionsCounted, h
  <2>2. \A i \in 1 .. h + 1 : delivered'[i] = accepted[i]
    <3>1. \A i \in 1 .. h + 1 : i \in 1 .. h \/ i = h + 1
      BY <1>2
    <3> QED BY <1>6, <2>1, <3>1
  <2> QED BY <1>2, <1>3, <1>5, <1>6, <2>2 DEF PositionsCounted
<1>13. ShutdownPromise'
  <2>1. due \in Nat /\ due <= n /\ \A p \in h .. due - 1 : queue.seq[slot(p)] = p + 1
    BY <1>1 DEF ShutdownPromise, LogTyped, h, n
  <2>2. \A p \in h + 1 .. due - 1 : p \in h .. due - 1 /\ queue'.seq[slot(p)] = queue.seq[slot(p)]
    <3>1. \A p \in h + 1 .. due - 1 : p \in h .. due - 1 /\ p \in h + 1 .. n - 1
      BY <1>2, <2>1
    <3>2. \A p \in h + 1 .. n - 1 : queue'.seq[slot(p)] = queue.seq[slot(p)]
      BY <1>2, <1>7
    <3> QED BY <3>1, <3>2
  <2>3. logThread # "left"
    BY DEF Deliver
  <2> QED BY <1>1, <1>3, <1>5, <2>1, <2>2, <2>3 DEF ShutdownPromise, slot
<1> QED BY <1>8, <1>9, <1>10, <1>11, <1>12, <1>13 DEF LogInv

-----------------------------------------------------------------------------
(* The theorems *)

\* Every step of the logger keeps the invariant.
LEMMA LogInvStep ==
  ASSUME LogInv, [Next]_vars
  PROVE  LogInv'
<1>1. Main \in Threads
  BY ThreadsAssumption
<1>2. CASE Next
  <2>1. ASSUME LogThread \/ WakeForNothing
        PROVE  LogInv'
    BY <2>1, DeliverStep, OtherLogThreadStep DEF LogThread
  <2>2. ASSUME BeginShutdown
        PROVE  LogInv'
    BY <1>1, <2>2, OtherThreadStep
  <2>3. ASSUME NEW t \in Threads, Log(t) \/ Thread(t)
        PROVE  LogInv'
    BY <2>3, OtherThreadStep, ReserveStep, WriteStep, PublishStep, StopRunningStep DEF Thread
  <2> QED BY <1>2, <2>1, <2>2, <2>3 DEF Next
<1>3. CASE UNCHANGED vars
  <2>1. /\ UNCHANGED <<queue, running, ticket, delivered, accepted, due>>
        /\ UNCHANGED <<pc, message, logThread, messages>>
    BY <1>3 DEF vars, log, history
  <2>2. LogTyped'
    BY <2>1 DEF LogInv, LogTyped
  <2> QED BY <2>1, <2>2, QueueLeftAlone DEF LogInv, ShutdownPromise
<1> QED BY <1>2, <1>3

\* The inductive invariant of the logger (logging.c:75-225, mpmcQueue.c:23-91).
THEOREM LogInvariant == Spec => []LogInv
<1>1. Init => LogInv
  BY LogInvInit
<1>2. LogInv /\ [Next]_vars => LogInv'
  BY LogInvStep
<1> QED BY <1>1, <1>2, PTL DEF Spec

\* The sinks get the accepted messages in the order of their tickets, each once
\* and whole; the log thread does not leave before they have all that was pushed
\* when the first shutdown began (logging.c:75-100, 149-166, 190-225).
THEOREM LoggerIsFaithful == Spec => []LogFaithful
<1>1. LogInv => LogFaithful
  <2>1. SUFFICES ASSUME LogInv
                 PROVE  LogFaithful
    OBVIOUS
  <2>2. /\ delivered \in Seq(Payload) /\ accepted \in Seq(Payload)
        /\ queue.head \in Nat /\ queue.tail \in Nat /\ queue.head <= queue.tail
        /\ Len(delivered) = queue.head /\ Len(accepted) = queue.tail
        /\ \A i \in 1 .. queue.head : delivered[i] = accepted[i]
        /\ logThread = "left" => queue.head >= due
    BY <2>1 DEF LogInv, LogTyped, SlotsByLap, PositionsCounted, ShutdownPromise
  <2> DEFINE s == SubSeq(accepted, 1, queue.head)
  <2>3. s \in Seq(Payload) /\ Len(s) = queue.head /\ \A i \in 1 .. queue.head : s[i] = accepted[i]
    BY <2>2, SubSeqProperties
  <2> HIDE DEF s
  <2>4. delivered = s
    BY <2>2, <2>3, SeqEqual
  <2> QED BY <2>2, <2>4 DEF LogFaithful, s
<1> QED BY <1>1, LogInvariant, PTL
================================================================================
