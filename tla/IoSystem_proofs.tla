--------------------------- MODULE IoSystem_proofs ---------------------------
(***************************************************************************)
(* Proofs about the io system: a request slot has one owner, no request    *)
(* gets lost between the queue and its answer, and an answer is that of    *)
(* the request it is for, for every number of io threads, workers, slots   *)
(* and requests.                                                           *)
(***************************************************************************)
EXTENDS IoSystem, TLAPS, FiniteSetTheorems, SequenceTheorems

----------------------------------------------------------------------------
(* Remainders *)

\* The division theorem for a positive divisor.
LEMMA DivMod ==
  ASSUME NEW W \in Nat, W > 0, NEW p \in Int
  PROVE  /\ p \div W \in Int
         /\ p % W \in 0 .. W - 1
         /\ p = W * (p \div W) + (p % W)
OBVIOUS

\* The only multiple of W smaller than W in absolute value is 0.
LEMMA NoMultiple ==
  ASSUME NEW W \in Nat, W > 0, NEW k \in Int, -W < W * k, W * k < W
  PROVE  k = 0
<1>1. k >= 1 => W * k >= W
  OBVIOUS
<1>2. k <= -1 => W * k <= -W
  OBVIOUS
<1> QED BY <1>1, <1>2

\* Two numbers of one window of length W with the same remainder are equal.
LEMMA ModInjective ==
  ASSUME NEW W \in Nat, W > 0, NEW p \in Int, NEW q \in Int,
         p <= q, q < p + W, p % W = q % W
  PROVE  p = q
<1> DEFINE k == p \div W
<1> DEFINE l == q \div W
<1>1. /\ k \in Int /\ l \in Int /\ p % W \in Int
      /\ p = W * k + (p % W)
      /\ q = W * l + (q % W)
  BY DivMod
<1> HIDE DEF k, l
<1>2. q - p = W * (l - k)
  <2>1. W * (l - k) = W * l - W * k
    BY <1>1
  <2> QED BY <1>1, <2>1
<1>3. l - k = 0
  BY <1>1, <1>2, NoMultiple
<1> QED BY <1>1, <1>2, <1>3

----------------------------------------------------------------------------

USE ThreadsAssumption, PoolSizeAssumption, NoSlotAssumption, MaxRequestsAssumption,
    KindsAssumption

----------------------------------------------------------------------------
(* What the invariant says of the state, in short *)

LEMMA IoFacts ==
  ASSUME IoInv
  PROVE  /\ head \in Slots \cup {NoSlot} /\ link \in [Slots -> Slots \cup {NoSlot, Path}]
         /\ request \in [Slots -> Records]
         /\ queue \in Seq(Slots) /\ work \in Nat
         /\ entry \in [Slots -> Slots] /\ ready \in [Slots -> BOOLEAN]
         /\ completeHead \in Nat /\ completeTail \in Nat
         /\ jobs \in [Slots -> Nat]
         /\ mine \in [Threads -> Slots \cup {NoSlot}]
         /\ seen \in [Threads -> Slots \cup {NoSlot}]
         /\ place \in [Threads -> Slots]
         /\ pc \in [Threads -> MainPoints \cup IoPoints \cup WorkerPoints]
         /\ log \in Seq(Answers)
         /\ leaked \subseteq Slots
BY DEF IoInv, TypeOK, PointsOwned, LogTyped

\* Who has a request in hand.
LEMMA HandFacts ==
  ASSUME IoInv, NEW t \in Threads, pc[t] \in Holding
  PROVE  mine[t] \in Slots /\ mine[t] # NoSlot
BY IoFacts DEF IoInv, PointsOwned

LEMMA NoSlotApart == NoSlot \notin Slots /\ Path \notin Slots /\ NoSlot # Path
BY DEF Slots

LEMMA ThreadFacts ==
  /\ Main \in Threads /\ IoThreads \subseteq Threads /\ Workers \subseteq Threads
  /\ Main \notin IoThreads /\ Main \notin Workers /\ IoThreads \cap Workers = {}
BY DEF Threads

----------------------------------------------------------------------------
(* Sequences and lists *)

\* The outcome of one request is written down.
LEMMA LogUpdated ==
  ASSUME log \in Seq(Answers), NEW k, NEW r \in Results,
         log' = [log EXCEPT ![k].outcome = r]
  PROVE  /\ log' \in Seq(Answers) /\ Len(log') = Len(log) /\ DOMAIN log' = DOMAIN log
         /\ \A i \in DOMAIN log :
              /\ log'[i].wanted = log[i].wanted /\ log'[i].answers = log[i].answers
              /\ log'[i].process = log[i].process
              /\ log'[i].outcome = IF i = k THEN r ELSE log[i].outcome
<1>1. /\ Len(log) \in Nat /\ DOMAIN log = 1 .. Len(log)
      /\ \A i \in 1 .. Len(log) : log[i] \in Answers
  BY LenProperties, ElementOfSeq
<1>2. CASE k \in 1 .. Len(log)
  <2> DEFINE e == [log[k] EXCEPT !.outcome = r]
  <2>1. /\ e \in Answers /\ e.wanted = log[k].wanted /\ e.answers = log[k].answers
        /\ e.outcome = r /\ e.process = log[k].process
    BY <1>1, <1>2 DEF Answers
  <2>2. log' = [log EXCEPT ![k] = e]
    OBVIOUS
  <2> HIDE DEF e
  <2>3. /\ log' \in Seq(Answers) /\ Len(log') = Len(log)
        /\ \A i \in 1 .. Len(log) : log'[i] = IF i = k THEN e ELSE log[i]
    BY ONLY log \in Seq(Answers), <1>2, <2>1, <2>2, ExceptSeq
  <2>4. DOMAIN log' = 1 .. Len(log)
    BY <2>3, LenProperties
  <2> QED BY <1>1, <2>1, <2>3, <2>4
<1>3. CASE k \notin 1 .. Len(log)
  <2>1. log' = log
    BY <1>1, <1>3
  <2> QED BY <1>1, <1>3, <2>1
<1> QED BY <1>2, <1>3

\* Slots that are different from one another are not more than there are.
LEMMA OnceFits ==
  ASSUME NEW n \in Nat, NEW f \in [1 .. n -> Slots], Once(f)
  PROVE  n <= PoolSize
<1>1. IsFiniteSet(Slots) /\ Cardinality(Slots) = PoolSize
  BY FS_Interval DEF Slots
<1>2. IsFiniteSet(1 .. n) /\ Cardinality(1 .. n) = n
  BY FS_Interval
<1>3. ASSUME n > PoolSize PROVE FALSE
  <2>1. \E x, y \in 1 .. n : x # y /\ f[x] = f[y]
    BY <1>1, <1>2, <1>3, FS_PigeonHole
  <2> QED BY <2>1 DEF Once
<1> QED BY <1>3

\* Slots without s that are different from one another are less.
LEMMA OnceWithout ==
  ASSUME NEW n \in Nat, NEW f \in [1 .. n -> Slots], Once(f),
         NEW s \in Slots, \A i \in 1 .. n : f[i] # s
  PROVE  n < PoolSize
<1>1. IsFiniteSet(Slots) /\ Cardinality(Slots) = PoolSize
  BY FS_Interval DEF Slots
<1>2. IsFiniteSet(1 .. n) /\ Cardinality(1 .. n) = n
  BY FS_Interval
<1>3. IsFiniteSet(Slots \ {s}) /\ Cardinality(Slots \ {s}) = PoolSize - 1
  BY <1>1, FS_RemoveElement
<1>4. f \in [1 .. n -> Slots \ {s}]
  OBVIOUS
<1>5. ASSUME n >= PoolSize PROVE FALSE
  <2>1. \E x, y \in 1 .. n : x # y /\ f[x] = f[y]
    BY <1>2, <1>3, <1>4, <1>5, FS_PigeonHole
  <2> QED BY <2>1 DEF Once
<1> QED BY <1>5

----------------------------------------------------------------------------
(* Types, points and the log *)

LEMMA Places01 == \A p \in Nat : p % PoolSize \in Slots
BY DivMod DEF Slots

\* The link of a slot in the list leads to a slot or ends the list.
LEMMA ListedLinks ==
  ASSUME NEW f \in SlotLists, FreeList(f), NEW i \in DOMAIN f
  PROVE  f[i] \in Slots /\ link[f[i]] \in Slots \cup {NoSlot}
<1>1. PICK n \in 0 .. PoolSize : f \in [1 .. n -> Slots]
  BY DEF SlotLists
<1>2. DOMAIN f = 1 .. n /\ Len(f) = n /\ n \in Nat
  BY <1>1
<1>3. link[f[i]] = IF i = n THEN NoSlot ELSE f[i + 1]
  BY <1>2 DEF FreeList
<1>4. i # n => i + 1 \in 1 .. n
  BY <1>2
<1> QED BY <1>1, <1>2, <1>3, <1>4

LEMMA GoneCounted == IsFiniteSet(IoThreads) /\ \A S \in SUBSET IoThreads :
  IsFiniteSet(S) /\ Cardinality(S) \in 0 .. Cardinality(IoThreads)
<1>1. Cardinality(IoThreads) \in Nat
  BY FS_CardinalityType
<1>2. \A S \in SUBSET IoThreads : IsFiniteSet(S) /\ Cardinality(S) \in Nat
                                  /\ Cardinality(S) <= Cardinality(IoThreads)
  BY FS_Subset, FS_CardinalityType
<1> QED BY <1>1, <1>2

\* exited counts the io threads that are gone.
LEMMA ExitStep ==
  ASSUME IoInv, NEW t \in IoThreads, pc[t] = "pop",
         \/ running /\ pc' = [pc EXCEPT ![t] = "undefinedIndex"] /\ exited' = exited
         \/ ~ running /\ pc' = [pc EXCEPT ![t] = "gone"] /\ exited' = exited + 1
  PROVE  exited' = Cardinality(Gone)' /\ exited' \in 0 .. Cardinality(IoThreads)
<1>1. exited = Cardinality(Gone) /\ pc \in [Threads -> MainPoints \cup IoPoints \cup WorkerPoints]
      /\ t \in Threads
  BY IoFacts, ThreadFacts DEF IoInv, TokensMatch
<1>2. Gone \subseteq IoThreads /\ IsFiniteSet(Gone) /\ t \notin Gone
  BY GoneCounted DEF Gone
<1>3. CASE ~ running
  <2>1. Gone' = Gone \cup {t}
    BY <1>1, <1>3, ThreadFacts DEF Gone
  <2>2. Cardinality(Gone)' = Cardinality(Gone) + 1
    BY <1>2, <2>1, FS_AddElement
  <2>3. Gone' \subseteq IoThreads
    BY <1>2, <2>1
  <2> QED BY <1>1, <1>3, <2>2, <2>3, GoneCounted
<1>4. CASE running
  <2>1. Gone' = Gone
    BY <1>1, <1>4, ThreadFacts DEF Gone
  <2> QED BY <1>1, <1>2, <1>4, <2>1, GoneCounted
<1> QED BY <1>3, <1>4

\* A slot is filled with what the caller asked for.
LEMMA FilledTypes ==
  ASSUME IoInv, NEW s \in Slots, Fill(s), Len(log) + 1 \in 0 .. MaxRequests,
         asked \in [mode : {"read", "write"}, process : BOOLEAN, complete : BOOLEAN]
  PROVE  /\ request' \in [Slots -> Records]
         /\ \A q \in Slots : q # s => request'[q] = request[q]
         /\ request'[s].of = Len(log) + 1 /\ request'[s].complete = asked.complete
         /\ request'[s].process =
              IF asked.mode = "read" THEN asked.process ELSE request[s].process
<1> DEFINE e == [request[s] EXCEPT !.mode = asked.mode,
                   !.process = IF asked.mode = "read" THEN asked.process ELSE @,
                   !.complete = asked.complete, !.of = Len(log) + 1]
<1>1. request[s] \in Records /\ request \in [Slots -> Records]
  BY IoFacts
<1>2. asked.process \in BOOLEAN /\ asked.complete \in BOOLEAN /\ asked.mode \in {"read", "write"}
  OBVIOUS
<1>3. /\ e \in Records /\ e.of = Len(log) + 1 /\ e.complete = asked.complete
      /\ e.process = IF asked.mode = "read" THEN asked.process ELSE request[s].process
  BY <1>1, <1>2 DEF Records
<1>4. request' = [request EXCEPT ![s] = e]
  BY DEF Fill
<1> HIDE DEF e
<1> QED BY <1>1, <1>3, <1>4

LEMMA SubmitTypes == IoInv /\ Submit => TypeOK'
<1> SUFFICES ASSUME IoInv, Submit PROVE TypeOK'
  OBVIOUS
<1>0. TypeOK /\ PointsOwned
  BY DEF IoInv
<1> USE <1>0, ThreadFacts DEF TypeOK
<1>1. CASE AllocateLoad
  BY <1>1 DEF AllocateLoad, Goto, requests, exits, completion, freeList
<1>2. CASE AllocateLink
  <2>1. \E f \in SlotLists : FreeList(f) /\ LinksHold(f)
    BY DEF IoInv, ListAndPlaces
  <2>2. link[seen[Main]] \in Slots \cup {NoSlot}
    BY <1>2, <2>1, ListedLinks DEF LinksHold, AllocateLink, At
  <2> QED BY <1>2, <2>2 DEF AllocateLink, Goto, requests, exits, completion, freeList, locals
<1>3. CASE AllocateSwap
  BY <1>3 DEF AllocateSwap, Goto, requests, exits, completion, submission
<1>4. CASE AllocateAgain
  BY <1>4 DEF AllocateAgain, Goto, requests, exits, completion, freeList, submission
<1>5. CASE SubmitPush
  <2> DEFINE s == mine[Main]
  <2>1. s \in Slots /\ Len(log) + 1 \in 0 .. MaxRequests
    <3>1. pc[Main] = "push"
      BY <1>5 DEF SubmitPush, At
    <3>2. Len(log) < MaxRequests /\ Len(log) \in Nat
      BY <3>1, IoFacts, LenProperties DEF IoInv, LogTyped
    <3> QED BY <3>1, <3>2, HandFacts DEF Holding
  <2>2. asked \in [mode : {"read", "write"}, process : BOOLEAN, complete : BOOLEAN]
    BY <1>5 DEF SubmitPush, At, IoInv, LogTyped
  <2>3. request' \in [Slots -> Records]
    BY <1>5, <2>1, <2>2, FilledTypes DEF SubmitPush
  <2>4. queue' \in Seq(Slots)
    BY <1>5, <2>1, AppendProperties DEF SubmitPush
  <2>5. link' \in [Slots -> Slots \cup {NoSlot, Path}]
    BY <1>5, <2>1 DEF SubmitPush, Fill
  <2> QED BY <1>5, <2>3, <2>4, <2>5 DEF SubmitPush, LetGo, Goto, exits, completion
<1>6. CASE SubmitPost
  BY <1>6 DEF SubmitPost, Goto, requests, exits, completion, freeList, locals, submission
<1>7. CASE SubmitRefused \/ SubmitInvalid
  <2>1. pc[Main] = "push" /\ mine[Main] \in Slots
    BY <1>7, HandFacts DEF SubmitRefused, SubmitInvalid, At, Holding
  <2>2. asked \in [mode : {"read", "write"}, process : BOOLEAN, complete : BOOLEAN]
        /\ Len(log) + 1 \in 0 .. MaxRequests
    BY <2>1, IoFacts, LenProperties DEF IoInv, LogTyped
  <2>3. request' \in [Slots -> Records]
    BY <1>7, <2>1, <2>2, FilledTypes DEF SubmitRefused, SubmitInvalid, requests
  <2>4. link' \in [Slots -> Slots \cup {NoSlot, Path}] /\ leaked' \subseteq Slots
    BY <1>7, <2>1 DEF SubmitRefused, SubmitInvalid, Fill
  <2>5. /\ mine' = [mine EXCEPT ![Main] = NoSlot] /\ seen' = [seen EXCEPT ![Main] = NoSlot]
        /\ next' = NoSlot
        /\ UNCHANGED <<head, queue, work, exits, completion, jobs, place, answering>>
    BY <1>7 DEF SubmitRefused, SubmitInvalid, LetGo
  <2> QED BY <2>3, <2>4, <2>5 DEF exits, completion
<1> QED BY <1>1, <1>2, <1>3, <1>4, <1>5, <1>6, <1>7 DEF Submit

LEMMA FreeTypes == ASSUME IoInv, NEW t \in Threads, FreeLink(t) \/ FreeSwap(t) PROVE TypeOK'
<1>0. TypeOK /\ PointsOwned /\ mine[t] \in Slots
  BY HandFacts DEF IoInv, FreeLink, FreeSwap, At, Holding, FreePoints
<1> USE <1>0, ThreadFacts DEF TypeOK
<1>1. CASE FreeLink(t)
  BY <1>1 DEF FreeLink, Goto, requests, exits, completion, submission
<1>2. CASE FreeSwap(t)
  BY <1>2 DEF FreeSwap, Goto, Release, requests, exits, completion, submission
<1> QED BY <1>1, <1>2

LEMMA CompleteTypes == ASSUME IoInv, NEW t \in Threads, SubmitComplete(t) PROVE TypeOK'
<1>0. TypeOK /\ PointsOwned /\ mine[t] \in Slots
  BY HandFacts DEF IoInv, SubmitComplete, Reserve, Enter, Publish, At, Holding, CompletePoints
<1> USE <1>0, ThreadFacts DEF TypeOK
<1>1. CASE Reserve(t)
  <2>0. completeHead \in Nat /\ t \in Threads /\ place \in [Threads -> Slots]
    OBVIOUS
  <2>1. completeHead % PoolSize \in Slots /\ completeHead + 1 \in Nat
    BY ONLY <2>0, Places01
  <2>2. place' \in [Threads -> Slots] /\ completeHead' \in Nat
    BY ONLY <1>1, <2>0, <2>1 DEF Reserve
  <2> QED BY <1>1, <2>2 DEF Reserve, requests, exits, freeList, submission
<1>2. CASE Enter(t)
  BY <1>2 DEF Enter, Goto, requests, exits, freeList, submission, locals
<1>3. CASE Publish(t)
  <2>1. 0 \in Slots
    BY DEF Slots
  <2> QED BY <1>3, <2>1 DEF Publish, Goto, Release, requests, exits, freeList, submission
<1> QED BY <1>1, <1>2, <1>3 DEF SubmitComplete

LEMMA UpdateTypes == IoInv /\ (TakeEntry \/ Deliver \/ CallNull \/ Answered) => TypeOK'
<1> SUFFICES ASSUME IoInv, TakeEntry \/ Deliver \/ CallNull \/ Answered PROVE TypeOK'
  OBVIOUS
<1>0. TypeOK /\ PointsOwned /\ NextComplete \in Slots
  BY Places01 DEF IoInv, TypeOK, NextComplete
<1> USE <1>0, ThreadFacts DEF TypeOK
<1>1. CASE TakeEntry
  BY <1>1 DEF TakeEntry, Goto, requests, exits, freeList, submission, completion
<1>2. CASE Deliver
  <2>1. mine[Main] \in Slots
    BY <1>2, HandFacts DEF Deliver, At, Holding
  <2>2. /\ mine \in [Threads -> Slots \cup {NoSlot}] /\ seen \in [Threads -> Slots \cup {NoSlot}]
        /\ completeTail \in Nat /\ ready \in [Slots -> BOOLEAN] /\ NextComplete \in Slots
    BY <1>0 DEF TypeOK
  <2>3. /\ mine' = [mine EXCEPT ![Main] = NoSlot] /\ seen' = [seen EXCEPT ![Main] = NoSlot]
        /\ answering' = mine[Main] /\ completeTail' = completeTail + 1
        /\ ready' = [ready EXCEPT ![NextComplete] = FALSE]
    BY ONLY <1>2 DEF Deliver, Release
  <2>4. mine' \in [Threads -> Slots \cup {NoSlot}] /\ seen' \in [Threads -> Slots \cup {NoSlot}]
    BY ONLY <2>2, <2>3
  <2>5. completeTail' \in Nat /\ ready' \in [Slots -> BOOLEAN]
    BY ONLY <2>2, <2>3
  <2> QED BY <1>2, <2>1, <2>3, <2>4, <2>5 DEF Deliver, exits, freeList, submission
<1>3. CASE Answered
  BY <1>3 DEF Answered, Goto, requests, exits, freeList, submission, completion
<1>4. CASE CallNull
  <2>1. completeTail \in Nat /\ ready \in [Slots -> BOOLEAN] /\ NextComplete \in Slots
    BY <1>0 DEF TypeOK
  <2>2. completeTail' = completeTail + 1 /\ ready' = [ready EXCEPT ![NextComplete] = FALSE]
    BY ONLY <1>4 DEF CallNull
  <2>3. completeTail' \in Nat /\ ready' \in [Slots -> BOOLEAN]
    BY ONLY <2>1, <2>2
  <2> QED BY <1>4, <2>3 DEF CallNull, requests, exits, freeList, submission, locals
<1> QED BY <1>1, <1>2, <1>3, <1>4

LEMMA ShutdownTypes == IoInv /\ Shutdown => TypeOK'
<1> SUFFICES ASSUME IoInv, Shutdown PROVE TypeOK'
  OBVIOUS
<1>0. TypeOK /\ Cardinality(IoThreads) \in Nat
  BY FS_CardinalityType DEF IoInv
<1> USE <1>0, ThreadFacts DEF TypeOK
<1>1. CASE BeginShutdown
  <2>1. UNCHANGED <<freeList, requests, queue, work, exited, completion, jobs, locals, submission,
                    answering, leaked>> /\ running' = FALSE
    BY <1>1 DEF BeginShutdown
  <2> QED BY <2>1 DEF requests, freeList, submission, completion, locals
<1>2. CASE PostExit
  <2>1. /\ UNCHANGED <<freeList, requests, queue, exits, completion, jobs, locals, submission,
                       answering, leaked>>
        /\ work' \in Nat
    BY <1>2 DEF PostExit
  <2> QED BY <2>1 DEF requests, exits, freeList, submission, completion, locals
<1>3. CASE Join
  BY <1>3 DEF Join, Goto, requests, exits, freeList, submission, completion, locals
<1> QED BY <1>1, <1>2, <1>3 DEF Shutdown

\* The outcome of a request is written down in its slot.
LEMMA ResultTypes ==
  ASSUME IoInv, NEW s \in Slots, NEW r \in Results, Result(s, r)
  PROVE  /\ request' \in [Slots -> Records]
         /\ request'[s].result = r
         /\ \A q \in Slots : /\ request'[q].process = request[q].process
                             /\ request'[q].complete = request[q].complete
                             /\ request'[q].of = request[q].of
                             /\ q # s => request'[q].result = request[q].result
<1> DEFINE e == [request[s] EXCEPT !.result = r]
<1>1. request[s] \in Records
  BY IoFacts
<1>2. /\ e \in Records
      /\ e.process = request[s].process /\ e.complete = request[s].complete
      /\ e.of = request[s].of /\ e.result = r
  BY <1>1 DEF Records
<1>3. request' = [request EXCEPT ![s] = e]
  BY DEF Result
<1> HIDE DEF e
<1> QED BY <1>2, <1>3, IoFacts

LEMMA IoTypes ==
  ASSUME IoInv, NEW t \in IoThreads,
         WaitForWork(t) \/ Pop(t) \/ PopEmpty(t) \/ ProcessFails(t) \/ ReadErs(t)
           \/ ProcessDone(t) \/ HandOver(t) \/ HandOverFails(t)
  PROVE  TypeOK'
<1>0. TypeOK /\ PointsOwned /\ t \in Threads
  BY ThreadFacts DEF IoInv
<1> USE <1>0 DEF TypeOK
<1>1. CASE WaitForWork(t)
  BY <1>1 DEF WaitForWork, Goto, requests, exits, freeList, submission, completion, locals
<1>2. CASE Pop(t)
  <2>1. Head(queue) \in Slots /\ Tail(queue) \in Seq(Slots)
    BY <1>2, HeadTailProperties DEF Pop
  <2>2. request' \in [Slots -> Records]
    BY <1>2, <2>1, ResultTypes DEF Pop, Results
  <2> QED BY <1>2, <2>1, <2>2 DEF Pop, Goto, exits, freeList, submission, completion
<1>3. CASE PopEmpty(t)
  <2>1. exited' \in 0 .. Cardinality(IoThreads)
    BY <1>3, ExitStep DEF PopEmpty, Goto, At
  <2> QED BY <1>3, <2>1 DEF PopEmpty, requests, freeList, submission, completion, locals
<1>4. CASE ProcessFails(t) \/ HandOverFails(t)
  <2>1. mine[t] \in Slots
    BY <1>4, HandFacts DEF ProcessFails, HandOverFails, AccessDone, At, Holding
  <2>2. request' \in [Slots -> Records]
    BY <1>4, <2>1, ResultTypes DEF ProcessFails, HandOverFails, Results
  <2>3. UNCHANGED <<freeList, queue, work, exits, completion, jobs, locals, submission, answering,
                    leaked>>
    BY <1>4 DEF ProcessFails, HandOverFails
  <2> QED BY <2>2, <2>3 DEF exits, freeList, submission, completion, locals
<1>5. CASE ProcessDone(t) \/ ReadErs(t)
  BY <1>5 DEF ProcessDone, ReadErs, requests, exits, freeList, submission, completion, locals
<1>6. CASE HandOver(t)
  <2>1. mine[t] \in Slots
    BY <1>6, HandFacts DEF HandOver, AccessDone, At, Holding
  <2>2. /\ mine \in [Threads -> Slots \cup {NoSlot}] /\ seen \in [Threads -> Slots \cup {NoSlot}]
        /\ jobs \in [Slots -> Nat]
    BY <1>0 DEF TypeOK
  <2>3. /\ mine' = [mine EXCEPT ![t] = NoSlot] /\ seen' = [seen EXCEPT ![t] = NoSlot]
        /\ jobs' = [jobs EXCEPT ![mine[t]] = @ + 1]
    BY ONLY <1>6 DEF HandOver, Release
  <2>4. mine' \in [Threads -> Slots \cup {NoSlot}] /\ seen' \in [Threads -> Slots \cup {NoSlot}]
    BY ONLY <2>2, <2>3
  <2>5. jobs' \in [Slots -> Nat]
    BY ONLY <2>1, <2>2, <2>3
  <2> QED BY <1>6, <2>4, <2>5 DEF HandOver, requests, exits, freeList, submission, completion
<1> QED BY <1>1, <1>2, <1>3, <1>4, <1>5, <1>6

LEMMA WorkerTypes == ASSUME IoInv, NEW w \in Workers, RunProcess(w) PROVE TypeOK'
<1>0. TypeOK /\ PointsOwned /\ w \in Threads
  BY ThreadFacts DEF IoInv
<1>1. PICK s \in Slots, r \in {"IO_SUCCESS", "IO_PROCESS_ERROR"} :
        jobs[s] > 0 /\ jobs' = [jobs EXCEPT ![s] = @ - 1]
        /\ mine' = [mine EXCEPT ![w] = s] /\ Result(s, r)
  BY DEF RunProcess
<1>2. request' \in [Slots -> Records]
  BY <1>1, ResultTypes DEF Results
<1>3. jobs' \in [Slots -> Nat] /\ mine' \in [Threads -> Slots \cup {NoSlot}]
  <2>1. jobs \in [Slots -> Nat] /\ mine \in [Threads -> Slots \cup {NoSlot}] /\ w \in Threads
        /\ s \in Slots
    BY <1>0 DEF TypeOK
  <2>2. jobs[s] - 1 \in Nat
    BY ONLY <1>1, <2>1
  <2> QED BY ONLY <1>1, <2>1, <2>2
<1> QED BY <1>0, <1>2, <1>3 DEF RunProcess, TypeOK, exits, freeList, submission, completion

LEMMA LostTypes == IoInv /\ JobLost => TypeOK'
<1> SUFFICES ASSUME IoInv, JobLost PROVE TypeOK'
  OBVIOUS
<1>1. PICK s \in Slots : /\ jobs[s] > 0 /\ jobs' = [jobs EXCEPT ![s] = @ - 1]
                        /\ leaked' = leaked \cup {s}
  BY DEF JobLost
<1>2. jobs \in [Slots -> Nat] /\ s \in Slots /\ leaked \subseteq Slots
  BY IoFacts
<1>3. jobs[s] - 1 \in Nat
  BY ONLY <1>1, <1>2
<1>4. jobs' \in [Slots -> Nat] /\ leaked' \subseteq Slots
  BY ONLY <1>1, <1>2, <1>3
<1> QED BY <1>4 DEF JobLost, IoInv, TypeOK, exits, freeList, submission, completion, requests, locals

LEMMA TypeStep == IoInv /\ [Next]_vars => TypeOK'
<1> SUFFICES ASSUME IoInv, [Next]_vars PROVE TypeOK'
  OBVIOUS
<1>1. CASE UNCHANGED vars
  BY <1>1 DEF IoInv, TypeOK, vars, freeList, requests, exits, completion, locals, submission
<1>2. CASE Submit
  BY <1>2, SubmitTypes
<1>3. CASE Update
  BY <1>3, UpdateTypes, FreeTypes, ThreadFacts DEF Update
<1>4. CASE Shutdown
  BY <1>4, ShutdownTypes
<1>5. ASSUME NEW t \in IoThreads, Io(t) PROVE TypeOK'
  BY <1>5, IoTypes, FreeTypes, CompleteTypes, ThreadFacts DEF Io
<1>6. ASSUME NEW w \in Workers, Worker(w) PROVE TypeOK'
  BY <1>6, WorkerTypes, CompleteTypes, ThreadFacts DEF Worker
<1> QED BY <1>1, <1>2, <1>3, <1>4, <1>5, <1>6, LostTypes DEF Next

----------------------------------------------------------------------------
(* Where the threads are *)

LEMMA PointsMoved ==
  ASSUME IoInv, NEW t \in Threads, NEW x, NEW m \in Slots \cup {NoSlot},
         pc' = [pc EXCEPT ![t] = x], mine' = [mine EXCEPT ![t] = m],
         m # NoSlot <=> x \in Holding,
         t = Main => x \in MainPoints,
         t \in IoThreads => x \in IoPoints,
         t \in Workers => x \in WorkerPoints,
         answering' # NoSlot => pc'[Main] \in {"idle"} \cup SubmitPoints,
         ~ running' <=> pc'[Main] \in {"stop", "join", "over"}
  PROVE  PointsOwned'
<1>1. /\ pc \in [Threads -> MainPoints \cup IoPoints \cup WorkerPoints]
      /\ mine \in [Threads -> Slots \cup {NoSlot}]
      /\ PointsOwned
  BY IoFacts DEF IoInv
<1>2. x \in MainPoints \cup IoPoints \cup WorkerPoints
  BY DEF Threads
<1>3. pc' \in [Threads -> MainPoints \cup IoPoints \cup WorkerPoints]
  BY <1>1, <1>2
<1>4. \A u \in Threads : /\ pc'[u] = IF u = t THEN x ELSE pc[u]
                         /\ mine'[u] = IF u = t THEN m ELSE mine[u]
  BY <1>1
<1>5. pc'[Main] \in MainPoints
  BY <1>1, <1>4, ThreadFacts DEF PointsOwned
<1>6. \A u \in IoThreads : pc'[u] \in IoPoints
  BY <1>1, <1>4, ThreadFacts DEF PointsOwned
<1>7. \A u \in Workers : pc'[u] \in WorkerPoints
  BY <1>1, <1>4, ThreadFacts DEF PointsOwned
<1>8. \A u \in Threads : mine'[u] # NoSlot <=> pc'[u] \in Holding
  BY <1>1, <1>4 DEF PointsOwned
<1> QED BY <1>3, <1>5, <1>6, <1>7, <1>8 DEF PointsOwned

\* The same for a thread that is not the main thread.
LEMMA OtherPointsMoved ==
  ASSUME IoInv, NEW t \in IoThreads \cup Workers, NEW x, NEW m \in Slots \cup {NoSlot},
         pc' = [pc EXCEPT ![t] = x], mine' = [mine EXCEPT ![t] = m],
         m # NoSlot <=> x \in Holding,
         t \in IoThreads => x \in IoPoints,
         t \in Workers => x \in WorkerPoints,
         answering' = answering, running' = running
  PROVE  PointsOwned'
<1>1. t \in Threads /\ t # Main
  BY ThreadFacts
<1>2. pc'[Main] = pc[Main]
  BY <1>1, IoFacts, ThreadFacts
<1>3. /\ answering # NoSlot => pc[Main] \in {"idle"} \cup SubmitPoints
      /\ ~ running <=> pc[Main] \in {"stop", "join", "over"}
  BY DEF IoInv, PointsOwned
<1> QED BY <1>1, <1>2, <1>3, PointsMoved

\* A step that leaves the hand of its thread alone.
LEMMA SameHand ==
  ASSUME IoInv, NEW t \in Threads, mine' = mine
  PROVE  mine[t] \in Slots \cup {NoSlot} /\ mine' = [mine EXCEPT ![t] = mine[t]]
         /\ (mine[t] # NoSlot <=> pc[t] \in Holding)
BY IoFacts DEF IoInv, PointsOwned

LEMMA MainPointsStep ==
  ASSUME IoInv, Submit \/ Shutdown \/ TakeEntry \/ Deliver \/ CallNull \/ Answered
  PROVE  PointsOwned'
<1>0. /\ Main \in Threads /\ Main \notin IoThreads /\ Main \notin Workers
      /\ pc \in [Threads -> MainPoints \cup IoPoints \cup WorkerPoints]
      /\ mine \in [Threads -> Slots \cup {NoSlot}]
      /\ answering \in Slots \cup {NoSlot}
      /\ answering # NoSlot => pc[Main] \in {"idle"} \cup SubmitPoints
      /\ ~ running <=> pc[Main] \in {"stop", "join", "over"}
      /\ seen \in [Threads -> Slots \cup {NoSlot}]
  BY ThreadFacts, IoFacts DEF IoInv, PointsOwned, TypeOK
<1> DEFINE Moved(x, m) ==
       /\ m \in Slots \cup {NoSlot} /\ (m # NoSlot <=> x \in Holding)
       /\ pc' = [pc EXCEPT ![Main] = x] /\ mine' = [mine EXCEPT ![Main] = m]
       /\ x \in MainPoints /\ (answering' # NoSlot => x \in {"idle"} \cup SubmitPoints)
       /\ ~ running' <=> x \in {"stop", "join", "over"}
<1>1. ASSUME NEW x, NEW m, Moved(x, m) PROVE PointsOwned'
  <2>1. pc'[Main] = x
    BY <1>0, <1>1
  <2> QED BY <1>0, <1>1, <2>1, PointsMoved
<1>2. mine' = mine => /\ mine[Main] \in Slots \cup {NoSlot}
                      /\ mine' = [mine EXCEPT ![Main] = mine[Main]]
                      /\ mine[Main] # NoSlot <=> pc[Main] \in Holding
  BY <1>0, SameHand
<1>3. CASE AllocateLoad
  <2>1. Moved("allocLink", mine[Main])
    BY <1>0, <1>2, <1>3 DEF AllocateLoad, At, Goto, exits, Holding, MainPoints, SubmitPoints,
       CompletePoints, FreePoints
  <2> QED BY <1>1, <2>1
<1>4. CASE AllocateLink
  <2>1. Moved("allocSwap", mine[Main])
    BY <1>0, <1>2, <1>4 DEF AllocateLink, At, Goto, exits, locals, Holding, MainPoints, SubmitPoints,
       CompletePoints, FreePoints
  <2> QED BY <1>1, <2>1
<1>5. CASE AllocateSwap
  <2>1. seen[Main] \in Slots
    <3>1. PICK f \in SlotLists : FreeList(f) /\ LinksHold(f)
      BY DEF IoInv, ListAndPlaces
    <3> QED BY <1>5, <3>1, ListedLinks DEF LinksHold, AllocateSwap, At
  <2>2. Moved("push", seen[Main])
    BY <1>0, <1>5, <2>1, NoSlotApart DEF AllocateSwap, At, Goto, exits, Holding, MainPoints,
       SubmitPoints, CompletePoints, FreePoints
  <2> QED BY <1>1, <2>2
<1>6. CASE AllocateAgain
  <2>1. Moved("allocLink", mine[Main])
    BY <1>0, <1>2, <1>6 DEF AllocateAgain, At, Goto, exits, Holding, MainPoints, SubmitPoints,
       CompletePoints, FreePoints
  <2> QED BY <1>1, <2>1
<1>7. CASE SubmitPush
  <2>1. Moved("post", NoSlot)
    BY <1>0, <1>7 DEF SubmitPush, LetGo, At, Goto, exits, Holding, MainPoints, SubmitPoints,
       CompletePoints, FreePoints
  <2> QED BY <1>1, <2>1
<1>8. CASE SubmitPost
  <2>1. Moved("idle", mine[Main])
    BY <1>0, <1>2, <1>8 DEF SubmitPost, At, Goto, exits, locals, Holding, MainPoints, SubmitPoints,
       CompletePoints, FreePoints
  <2> QED BY <1>1, <2>1
<1>9. CASE BeginShutdown
  <2>1. Moved("stop", mine[Main])
    BY <1>0, <1>2, <1>9 DEF BeginShutdown, At, Goto, locals, Holding, MainPoints, SubmitPoints,
       CompletePoints, FreePoints
  <2> QED BY <1>1, <2>1
<1>10. CASE PostExit
  <2>1. Moved("join", mine[Main])
    BY <1>0, <1>2, <1>10 DEF PostExit, At, Goto, exits, locals, Holding, MainPoints, SubmitPoints,
       CompletePoints, FreePoints
  <2> QED BY <1>1, <2>1
<1>11. CASE Join
  <2>1. Moved("over", mine[Main])
    BY <1>0, <1>2, <1>11 DEF Join, At, Goto, exits, locals, Holding, MainPoints, SubmitPoints,
       CompletePoints, FreePoints
  <2> QED BY <1>1, <2>1
<1>12. CASE TakeEntry
  <2>1. entry[NextComplete] \in Slots
    BY IoFacts, Places01 DEF NextComplete
  <2>2. Moved("deliver", entry[NextComplete])
    BY <1>0, <1>12, <2>1, NoSlotApart DEF TakeEntry, At, Goto, exits, Holding, MainPoints,
       SubmitPoints, CompletePoints, FreePoints
  <2> QED BY <1>1, <2>2
<1>13. CASE Deliver
  <2>1. Moved("idle", NoSlot)
    BY <1>0, <1>13 DEF Deliver, Release, At, Goto, exits, Holding, MainPoints, SubmitPoints,
       CompletePoints, FreePoints
  <2> QED BY <1>1, <2>1
<1>14. CASE Answered
  <2>1. Moved("free", answering)
    BY <1>0, <1>14, NoSlotApart DEF Answered, At, Goto, exits, Holding, MainPoints, SubmitPoints,
       CompletePoints, FreePoints
  <2> QED BY <1>1, <2>1
<1>15. CASE SubmitRefused \/ SubmitInvalid
  <2>1. Moved("idle", NoSlot)
    BY <1>0, <1>15 DEF SubmitRefused, SubmitInvalid, LetGo, At, Goto, exits, Holding, MainPoints,
       SubmitPoints, CompletePoints, FreePoints
  <2> QED BY <1>1, <2>1
<1>16. CASE CallNull
  <2>1. Moved("nullCall", mine[Main])
    BY <1>0, <1>2, <1>16 DEF CallNull, At, Goto, exits, locals, Holding, MainPoints, SubmitPoints,
       CompletePoints, FreePoints
  <2> QED BY <1>1, <2>1
<1> QED BY <1>3, <1>4, <1>5, <1>6, <1>7, <1>8, <1>9, <1>10, <1>11, <1>12, <1>13, <1>14, <1>15, <1>16
        DEF Submit, Shutdown

LEMMA FreePointsStep ==
  ASSUME IoInv, NEW t \in {Main} \cup IoThreads, FreeLink(t) \/ FreeSwap(t)
  PROVE  PointsOwned'
<1>0. /\ t \in Threads /\ t \notin Workers /\ (t = Main => t \notin IoThreads)
      /\ pc \in [Threads -> MainPoints \cup IoPoints \cup WorkerPoints]
      /\ answering # NoSlot => pc[Main] \in {"idle"} \cup SubmitPoints
      /\ ~ running <=> pc[Main] \in {"stop", "join", "over"}
      /\ Main \in Threads
  BY ThreadFacts, IoFacts DEF IoInv, PointsOwned
<1>1. CASE FreeLink(t)
  <2>1. /\ mine' = mine /\ pc[t] = "free" /\ pc' = [pc EXCEPT ![t] = "freeSwap"]
        /\ answering' = answering /\ running' = running
    BY <1>1 DEF FreeLink, At, Goto, exits
  <2>2. pc'[Main] = IF t = Main THEN "freeSwap" ELSE pc[Main]
    BY <1>0, <2>1
  <2> QED BY <1>0, <2>1, <2>2, SameHand, PointsMoved
          DEF Holding, FreePoints, MainPoints, IoPoints, SubmitPoints
<1>2. CASE FreeSwap(t) /\ head # seen[t]
  <2>1. /\ mine' = mine /\ pc[t] = "freeSwap" /\ pc' = [pc EXCEPT ![t] = "free"]
        /\ answering' = answering /\ running' = running
    BY <1>2 DEF FreeSwap, At, Goto, exits
  <2>2. pc'[Main] = IF t = Main THEN "free" ELSE pc[Main]
    BY <1>0, <2>1
  <2> QED BY <1>0, <2>1, <2>2, SameHand, PointsMoved
          DEF Holding, FreePoints, MainPoints, IoPoints, SubmitPoints
<1>3. CASE FreeSwap(t) /\ head = seen[t]
  <2> DEFINE x == IF t \in IoThreads THEN "wait" ELSE "idle"
  <2>1. /\ mine' = [mine EXCEPT ![t] = NoSlot] /\ pc[t] = "freeSwap"
        /\ pc' = [pc EXCEPT ![t] = x]
        /\ answering' = answering /\ running' = running
    BY <1>3 DEF FreeSwap, Release, At, Goto, exits
  <2>2. pc'[Main] = IF t = Main THEN "idle" ELSE pc[Main]
    BY <1>0, <2>1
  <2> QED BY <1>0, <2>1, <2>2, PointsMoved
          DEF Holding, CompletePoints, FreePoints, MainPoints, IoPoints, SubmitPoints
<1> QED BY <1>1, <1>2, <1>3

LEMMA CompletePointsStep ==
  ASSUME IoInv, NEW t \in IoThreads \cup Workers, SubmitComplete(t)
  PROVE  PointsOwned'
<1>0. t \in Threads
  BY ThreadFacts
<1>1. answering' = answering /\ running' = running
  BY DEF SubmitComplete, Reserve, Enter, Publish, exits
<1>2. CASE Reserve(t)
  <2>1. mine' = mine /\ pc[t] = "reserve" /\ pc' = [pc EXCEPT ![t] = "enter"]
    BY <1>2 DEF Reserve, At, Goto
  <2> QED BY <1>0, <1>1, <2>1, SameHand, OtherPointsMoved
          DEF Holding, CompletePoints, IoPoints, WorkerPoints
<1>3. CASE Enter(t)
  <2>1. mine' = mine /\ pc[t] = "enter" /\ pc' = [pc EXCEPT ![t] = "publish"]
    BY <1>3 DEF Enter, At, Goto, locals
  <2> QED BY <1>0, <1>1, <2>1, SameHand, OtherPointsMoved
          DEF Holding, CompletePoints, IoPoints, WorkerPoints
<1>4. CASE Publish(t)
  <2>1. /\ mine' = [mine EXCEPT ![t] = NoSlot]
        /\ pc' = [pc EXCEPT ![t] = IF t \in IoThreads THEN "wait" ELSE "idle"]
    BY <1>4 DEF Publish, Release, Goto
  <2> QED BY <1>0, <1>1, <2>1, OtherPointsMoved, ThreadFacts
          DEF Holding, CompletePoints, FreePoints, IoPoints, WorkerPoints
<1> QED BY <1>2, <1>3, <1>4 DEF SubmitComplete

LEMMA IoPointsStep ==
  ASSUME IoInv, NEW t \in IoThreads,
         WaitForWork(t) \/ Pop(t) \/ PopEmpty(t) \/ ProcessFails(t) \/ ReadErs(t)
           \/ ProcessDone(t) \/ HandOver(t) \/ HandOverFails(t)
  PROVE  PointsOwned'
<1>0. t \in Threads /\ t \notin Workers
  BY ThreadFacts
<1>1. answering' = answering /\ running' = running
  BY DEF WaitForWork, Pop, PopEmpty, ProcessFails, ReadErs, ProcessDone, HandOver, HandOverFails,
     exits
<1>2. CASE WaitForWork(t)
  <2>1. mine' = mine /\ pc[t] = "wait" /\ pc' = [pc EXCEPT ![t] = "pop"]
    BY <1>2 DEF WaitForWork, At, Goto, locals
  <2> QED BY <1>0, <1>1, <2>1, SameHand, OtherPointsMoved
          DEF Holding, CompletePoints, FreePoints, IoPoints
<1>3. CASE Pop(t)
  <2>1. Head(queue) \in Slots
    BY <1>3, IoFacts, HeadTailProperties DEF Pop
  <2>2. mine' = [mine EXCEPT ![t] = Head(queue)] /\ pc' = [pc EXCEPT ![t] = "process"]
    BY <1>3 DEF Pop, Goto
  <2> QED BY <1>0, <1>1, <2>1, <2>2, OtherPointsMoved, NoSlotApart DEF Holding, IoPoints
<1>4. CASE PopEmpty(t)
  <2>1. /\ mine' = mine /\ pc[t] = "pop"
        /\ pc' = [pc EXCEPT ![t] = IF running THEN "undefinedIndex" ELSE "gone"]
    BY <1>4 DEF PopEmpty, At, Goto, locals
  <2> QED BY <1>0, <1>1, <2>1, SameHand, OtherPointsMoved
          DEF Holding, CompletePoints, FreePoints, IoPoints
<1>5. CASE ProcessFails(t) \/ ProcessDone(t) \/ HandOverFails(t)
  <2>1. mine' = mine /\ pc[t] \in {"process", "reading"} /\ Answer(t)
    BY <1>5 DEF ProcessFails, ProcessDone, HandOverFails, AccessDone, At, locals
  <2> QED BY <1>0, <1>1, <2>1, SameHand, OtherPointsMoved
          DEF Answer, Goto, Holding, CompletePoints, FreePoints, IoPoints
<1>6. CASE HandOver(t)
  <2>1. mine' = [mine EXCEPT ![t] = NoSlot] /\ pc' = [pc EXCEPT ![t] = "wait"]
    BY <1>6 DEF HandOver, Release, Goto
  <2> QED BY <1>0, <1>1, <2>1, OtherPointsMoved DEF Holding, CompletePoints, FreePoints, IoPoints
<1>7. CASE ReadErs(t)
  <2>1. mine' = mine /\ pc[t] = "process" /\ pc' = [pc EXCEPT ![t] = "reading"]
    BY <1>7 DEF ReadErs, At, Goto, locals
  <2> QED BY <1>0, <1>1, <2>1, SameHand, OtherPointsMoved
          DEF Holding, CompletePoints, FreePoints, IoPoints
<1> QED BY <1>2, <1>3, <1>4, <1>5, <1>6, <1>7

LEMMA WorkerPointsStep ==
  ASSUME IoInv, NEW w \in Workers, RunProcess(w) PROVE PointsOwned'
<1>1. PICK s \in Slots : mine' = [mine EXCEPT ![w] = s]
  BY DEF RunProcess
<1>2. /\ pc' = [pc EXCEPT ![w] = "reserve"] /\ answering' = answering /\ running' = running
  BY DEF RunProcess, Goto, exits
<1> QED BY <1>1, <1>2, OtherPointsMoved, ThreadFacts, NoSlotApart
        DEF Holding, CompletePoints, WorkerPoints

LEMMA PointsStep == IoInv /\ [Next]_vars => PointsOwned'
<1> SUFFICES ASSUME IoInv, [Next]_vars PROVE PointsOwned'
  OBVIOUS
<1>1. CASE UNCHANGED vars
  BY <1>1 DEF IoInv, PointsOwned, vars, exits, locals
<1>2. CASE Submit
  BY <1>2, MainPointsStep
<1>3. CASE Update
  BY <1>3, MainPointsStep, FreePointsStep DEF Update
<1>4. CASE Shutdown
  BY <1>4, MainPointsStep
<1>5. ASSUME NEW t \in IoThreads, Io(t) PROVE PointsOwned'
  BY <1>5, IoPointsStep, FreePointsStep, CompletePointsStep DEF Io
<1>6. ASSUME NEW w \in Workers, Worker(w) PROVE PointsOwned'
  BY <1>6, WorkerPointsStep, CompletePointsStep DEF Worker
<1>7. CASE JobLost
  BY <1>7 DEF JobLost, IoInv, PointsOwned, exits, locals
<1> QED BY <1>1, <1>2, <1>3, <1>4, <1>5, <1>6, <1>7 DEF Next

----------------------------------------------------------------------------
(* The history *)

\* An answer is given, and recorded for the request it is for.
LEMMA LogAnswered ==
  ASSUME log \in Seq(Answers), NEW k, NEW r \in Results,
         log' = [log EXCEPT ![k].answers = Append(@, r)]
  PROVE  /\ log' \in Seq(Answers) /\ Len(log') = Len(log) /\ DOMAIN log' = DOMAIN log
         /\ \A i \in DOMAIN log :
              /\ log'[i].wanted = log[i].wanted /\ log'[i].outcome = log[i].outcome
              /\ log'[i].process = log[i].process
              /\ log'[i].answers = IF i = k THEN Append(log[i].answers, r) ELSE log[i].answers
<1>1. /\ Len(log) \in Nat /\ DOMAIN log = 1 .. Len(log)
      /\ \A i \in 1 .. Len(log) : log[i] \in Answers
  BY LenProperties, ElementOfSeq
<1>2. CASE k \in 1 .. Len(log)
  <2> DEFINE e == [log[k] EXCEPT !.answers = Append(@, r)]
  <2>1. /\ e \in Answers /\ e.wanted = log[k].wanted /\ e.outcome = log[k].outcome
        /\ e.process = log[k].process /\ e.answers = Append(log[k].answers, r)
    <3>1. log[k] \in [wanted : BOOLEAN, process : {"none", "own", "left"},
                      outcome : Results \cup {"none"}, answers : Seq(Results)]
      BY <1>1, <1>2 DEF Answers
    <3>2. Append(log[k].answers, r) \in Seq(Results)
      BY <3>1, AppendProperties
    <3> QED BY <3>1, <3>2 DEF Answers
  <2>2. log' = [log EXCEPT ![k] = e]
    OBVIOUS
  <2> HIDE DEF e
  <2>3. /\ log' \in Seq(Answers) /\ Len(log') = Len(log)
        /\ \A i \in 1 .. Len(log) : log'[i] = IF i = k THEN e ELSE log[i]
    BY ONLY log \in Seq(Answers), <1>2, <2>1, <2>2, ExceptSeq
  <2>4. DOMAIN log' = 1 .. Len(log)
    BY <2>3, LenProperties
  <2> QED BY <1>1, <2>1, <2>3, <2>4
<1>3. CASE k \notin 1 .. Len(log)
  <2>1. log' = log
    BY <1>1, <1>3
  <2> QED BY <1>1, <1>3, <2>1
<1> QED BY <1>2, <1>3

\* A request is accepted.
LEMMA LogAccepted ==
  ASSUME log \in Seq(Answers), NEW b \in BOOLEAN, NEW c \in {"none", "own", "left"},
         log' = Append(log, [wanted |-> b, process |-> c, outcome |-> "none", answers |-> <<>>])
  PROVE  /\ log' \in Seq(Answers) /\ Len(log) \in Nat /\ Len(log') = Len(log) + 1
         /\ DOMAIN log' = 1 .. Len(log) + 1 /\ DOMAIN log = 1 .. Len(log)
         /\ \A i \in DOMAIN log : log'[i] = log[i]
         /\ log'[Len(log) + 1] =
              [wanted |-> b, process |-> c, outcome |-> "none", answers |-> <<>>]
<1> DEFINE e == [wanted |-> b, process |-> c, outcome |-> "none", answers |-> <<>>]
<1>1. e \in Answers
  BY EmptySeq DEF Answers
<1> HIDE DEF e
<1>2. log' = Append(log, e)
  BY DEF e
<1>3. /\ log' \in Seq(Answers) /\ Len(log') = Len(log) + 1 /\ log'[Len(log) + 1] = e
      /\ \A i \in 1 .. Len(log) : log'[i] = log[i]
  BY <1>1, <1>2, AppendProperties
<1>4. Len(log) \in Nat /\ DOMAIN log = 1 .. Len(log) /\ DOMAIN log' = 1 .. Len(log')
  BY <1>3, LenProperties
<1> QED BY <1>3, <1>4 DEF e

\* Nothing happens to the history and the submission.
LEMMA LogKept ==
  ASSUME IoInv, log' = log \/ (log' \in Seq(Answers) /\ Len(log') = Len(log)),
         pc'[Main] \in {"allocLink", "allocSwap", "push"} => asked' = asked,
         pc'[Main] \in {"allocLink", "allocSwap", "push"}
           => pc[Main] \in {"allocLink", "allocSwap", "push"}
  PROVE  LogTyped'
BY DEF IoInv, LogTyped

\* A thread that is not the main thread moves on.
LEMMA OthersLog ==
  ASSUME IoInv, log' = log \/ (log' \in Seq(Answers) /\ Len(log') = Len(log)),
         asked' = asked, NEW t \in Threads, t # Main, NEW x, pc' = [pc EXCEPT ![t] = x]
  PROVE  LogTyped'
<1>1. pc'[Main] = pc[Main]
  BY IoFacts, ThreadFacts
<1> QED BY <1>1, LogKept

LEMMA MainLog ==
  ASSUME IoInv, Submit \/ Shutdown \/ TakeEntry \/ Deliver \/ CallNull \/ Answered
  PROVE  LogTyped'
<1>0. /\ Main \in Threads /\ pc \in [Threads -> MainPoints \cup IoPoints \cup WorkerPoints]
      /\ LogTyped
  BY ThreadFacts, IoFacts DEF IoInv
<1>1. CASE AllocateLoad
  BY <1>0, <1>1 DEF AllocateLoad, LogTyped, requests, Goto
<1>2. CASE AllocateLink \/ AllocateSwap \/ AllocateAgain
  <2>1. log' = log /\ asked' = asked
    BY <1>2 DEF AllocateLink, AllocateSwap, AllocateAgain, requests, submission
  <2>2. pc[Main] \in {"allocLink", "allocSwap"}
    BY <1>2 DEF AllocateLink, AllocateSwap, AllocateAgain, At
  <2> QED BY <2>1, <2>2, LogKept
<1>3. CASE SubmitPush
  <2>1. asked.complete \in BOOLEAN /\ ProcessedBy(mine[Main]) \in {"none", "own", "left"}
    BY <1>0, <1>3 DEF SubmitPush, At, LogTyped, ProcessedBy
  <2>2. Len(log) < MaxRequests /\ pc'[Main] = "post"
    BY <1>0, <1>3 DEF SubmitPush, At, LogTyped, Goto
  <2>3. log' = Append(log, [wanted |-> asked.complete, process |-> ProcessedBy(mine[Main]),
                           outcome |-> "none", answers |-> <<>>])
    BY <1>3 DEF SubmitPush
  <2>4. log' \in Seq(Answers) /\ Len(log) \in Nat /\ Len(log') = Len(log) + 1
    BY <2>1, <2>3, IoFacts, LogAccepted
  <2> QED BY <2>1, <2>2, <2>4 DEF LogTyped
<1>4. CASE SubmitPost \/ SubmitRefused \/ SubmitInvalid \/ Shutdown \/ TakeEntry \/ CallNull
             \/ Answered
  <2>1. log' = log
    BY <1>4 DEF SubmitPost, SubmitRefused, SubmitInvalid, Shutdown, BeginShutdown, PostExit, Join,
       TakeEntry, CallNull, Answered, requests
  <2>2. \E x \in {"idle", "stop", "join", "over", "deliver", "nullCall", "free"} :
          pc' = [pc EXCEPT ![Main] = x]
    <3>1. SubmitPost \/ SubmitRefused \/ SubmitInvalid => pc' = [pc EXCEPT ![Main] = "idle"]
      BY DEF SubmitPost, SubmitRefused, SubmitInvalid, Goto
    <3>2. CallNull => pc' = [pc EXCEPT ![Main] = "nullCall"]
      BY DEF CallNull, Goto
    <3>3. TakeEntry => pc' = [pc EXCEPT ![Main] = "deliver"]
      BY DEF TakeEntry, Goto
    <3>4. Answered => pc' = [pc EXCEPT ![Main] = "free"]
      BY DEF Answered, Goto
    <3>5. Shutdown => \E x \in {"stop", "join", "over"} : pc' = [pc EXCEPT ![Main] = x]
      BY DEF Shutdown, BeginShutdown, PostExit, Join, Goto
    <3> QED BY <1>4, <3>1, <3>2, <3>3, <3>4, <3>5
  <2>3. pc'[Main] \notin SubmitPoints
    BY <1>0, <2>2 DEF SubmitPoints
  <2> QED BY <2>1, <2>3, LogKept DEF SubmitPoints
<1>5. CASE Deliver
  <2>1. pc'[Main] \in {"idle", "wait"}
    BY <1>0, <1>5 DEF Deliver, Release, Goto
  <2>2. log' = [log EXCEPT ![request[mine[Main]].of].answers = Append(@, request[mine[Main]].result)]
    BY <1>5 DEF Deliver
  <2>3. request[mine[Main]].result \in Results
    BY <1>5, HandFacts, IoFacts, ThreadFacts DEF Deliver, At, Holding, Records
  <2>4. log' \in Seq(Answers) /\ Len(log') = Len(log)
    BY <2>2, <2>3, IoFacts, LogAnswered
  <2> QED BY <2>1, <2>4, LogKept
<1> QED BY <1>1, <1>2, <1>3, <1>4, <1>5 DEF Submit

LEMMA FreeLog ==
  ASSUME IoInv, NEW t \in {Main} \cup IoThreads, FreeLink(t) \/ FreeSwap(t)
  PROVE  LogTyped'
<1>1. log' = log /\ asked' = asked
  BY DEF FreeLink, FreeSwap, requests, submission
<1>2. PICK x \in {"freeSwap", "free", "wait", "idle"} : pc' = [pc EXCEPT ![t] = x]
  BY DEF FreeLink, FreeSwap, Release, Goto
<1>3. pc'[Main] = IF t = Main THEN x ELSE pc[Main]
  BY <1>2, IoFacts, ThreadFacts
<1> QED BY <1>1, <1>2, <1>3, LogKept DEF SubmitPoints

LEMMA ResultLog ==
  ASSUME IoInv, NEW s \in Slots, NEW r \in Results, Result(s, r)
  PROVE  log' \in Seq(Answers) /\ Len(log') = Len(log)
BY IoFacts, LogUpdated DEF Result

LEMMA IoLog ==
  ASSUME IoInv, NEW t \in IoThreads \cup Workers,
         \/ t \in IoThreads /\ (WaitForWork(t) \/ Pop(t) \/ PopEmpty(t) \/ ProcessFails(t)
              \/ ReadErs(t) \/ ProcessDone(t) \/ HandOver(t) \/ HandOverFails(t))
         \/ RunProcess(t) \/ SubmitComplete(t)
  PROVE  LogTyped'
<1>1. t \in Threads /\ t # Main
  BY ThreadFacts
<1>2. asked' = asked
  BY DEF WaitForWork, Pop, PopEmpty, ProcessFails, ReadErs, ProcessDone, HandOver, HandOverFails,
     RunProcess, SubmitComplete, Reserve, Enter, Publish, submission
<1>3. CASE Pop(t) \/ ProcessFails(t) \/ HandOverFails(t) \/ RunProcess(t)
  <2>1. PICK s \in Slots, r \in Results : Result(s, r)
    <3>1. Pop(t) => Head(queue) \in Slots /\ Result(Head(queue), "IO_SUCCESS")
      BY IoFacts, HeadTailProperties DEF Pop
    <3>2. ProcessFails(t) => mine[t] \in Slots /\ Result(mine[t], "IO_FILE_ERROR")
      BY <1>1, HandFacts DEF ProcessFails, At, Holding
    <3>3. HandOverFails(t) => mine[t] \in Slots /\ Result(mine[t], "IO_PROCESS_ERROR")
      BY <1>1, HandFacts DEF HandOverFails, AccessDone, At, Holding
    <3>4. RunProcess(t) => \E s \in Slots, r \in {"IO_SUCCESS", "IO_PROCESS_ERROR"} : Result(s, r)
      BY DEF RunProcess
    <3> QED BY <1>3, <3>1, <3>2, <3>3, <3>4 DEF Results
  <2>2. \E x : pc' = [pc EXCEPT ![t] = x]
    BY <1>3 DEF Pop, ProcessFails, HandOverFails, RunProcess, Answer, Goto
  <2> QED BY <1>1, <1>2, <2>1, <2>2, ResultLog, OthersLog
<1>4. CASE WaitForWork(t) \/ PopEmpty(t) \/ ReadErs(t) \/ ProcessDone(t) \/ HandOver(t)
             \/ SubmitComplete(t)
  <2>1. log' = log
    BY <1>4 DEF WaitForWork, PopEmpty, ReadErs, ProcessDone, HandOver, SubmitComplete, Reserve,
       Enter, Publish, requests
  <2>2. \E x : pc' = [pc EXCEPT ![t] = x]
    BY <1>4 DEF WaitForWork, PopEmpty, ReadErs, ProcessDone, HandOver, SubmitComplete, Reserve,
       Enter, Publish, Release, Answer, Goto
  <2> QED BY <1>1, <1>2, <2>1, <2>2, OthersLog
<1> QED BY <1>3, <1>4

LEMMA LogStep == IoInv /\ [Next]_vars => LogTyped'
<1> SUFFICES ASSUME IoInv, [Next]_vars PROVE LogTyped'
  OBVIOUS
<1>1. CASE UNCHANGED vars
  BY <1>1 DEF IoInv, LogTyped, vars, requests, submission
<1>2. CASE Submit
  BY <1>2, MainLog
<1>3. CASE Update
  BY <1>3, MainLog, FreeLog DEF Update
<1>4. CASE Shutdown
  BY <1>4, MainLog
<1>5. ASSUME NEW t \in IoThreads, Io(t) PROVE LogTyped'
  BY <1>5, IoLog, FreeLog DEF Io
<1>6. ASSUME NEW w \in Workers, Worker(w) PROVE LogTyped'
  BY <1>6, IoLog DEF Worker
<1>7. CASE JobLost
  BY <1>7 DEF JobLost, IoInv, LogTyped, requests, submission
<1> QED BY <1>1, <1>2, <1>3, <1>4, <1>5, <1>6, <1>7 DEF Next

----------------------------------------------------------------------------
(* Where the slots are *)

LEMMA PlaceFacts ==
  /\ \A t \in Threads : /\ InHand(t) \in Places
                        /\ InHand(t) \notin {Free, Queued, WithJob, InAnswer, Leaked}
                        /\ \A u \in Threads : InHand(t) = InHand(u) => t = u
                        /\ \A i \in Slots : InHand(t) # InEntry(i)
  /\ \A i \in Slots : /\ InEntry(i) \in Places
                      /\ InEntry(i) \notin {Free, Queued, WithJob, InAnswer, Leaked}
                      /\ \A k \in Slots : InEntry(i) = InEntry(k) => i = k
  /\ {Free, Queued, WithJob, InAnswer, Leaked} \subseteq Places
  /\ Free # Queued /\ Free # WithJob /\ Free # InAnswer /\ Queued # WithJob
  /\ Queued # InAnswer /\ WithJob # InAnswer
  /\ Leaked \notin {Free, Queued, WithJob, InAnswer}
BY DEF Places, InHand, InEntry, Free, Queued, WithJob, InAnswer, Leaked

LEMMA HasForm ==
  ASSUME NEW f, NEW s
  PROVE  /\ \A t \in Threads : Has(f, InHand(t), s) <=> mine[t] = s /\ ~ At(t, "deliver")
         /\ \A i \in Slots : Has(f, InEntry(i), s) <=> ready[i] /\ entry[i] = s
         /\ Has(f, Free, s) <=> \E i \in DOMAIN f : f[i] = s
         /\ Has(f, Queued, s) <=> \E i \in DOMAIN queue : queue[i] = s
         /\ Has(f, WithJob, s) <=> jobs[s] > 0
         /\ Has(f, InAnswer, s) <=> answering = s
         /\ Has(f, Leaked, s) <=> s \in leaked
<1>1. \A t \in Threads : Has(f, InHand(t), s) <=> mine[t] = s /\ ~ At(t, "deliver")
  BY DEF Has, InHand
<1>2. \A i \in Slots : Has(f, InEntry(i), s) <=> ready[i] /\ entry[i] = s
  BY DEF Has, InEntry
<1>3. Has(f, Free, s) <=> \E i \in DOMAIN f : f[i] = s
  BY DEF Has, Free
<1>4. Has(f, Queued, s) <=> \E i \in DOMAIN queue : queue[i] = s
  BY DEF Has, Queued
<1>5. Has(f, WithJob, s) <=> jobs[s] > 0
  BY DEF Has, WithJob
<1>6. Has(f, InAnswer, s) <=> answering = s
  BY DEF Has, InAnswer
<1>7. Has(f, Leaked, s) <=> s \in leaked
  BY DEF Has, Leaked
<1> QED BY <1>1, <1>2, <1>3, <1>4, <1>5, <1>6, <1>7

LEMMA HasFormNext ==
  ASSUME NEW CONSTANT f, NEW CONSTANT s, NEW CONSTANT z
  PROVE  /\ \A t \in Threads :
              z = InHand(t) => (Has(f, z, s)' <=> mine'[t] = s /\ pc'[t] # "deliver")
         /\ \A i \in Slots :
              z = InEntry(i) => (Has(f, z, s)' <=> ready'[i] /\ entry'[i] = s)
         /\ z = Free => (Has(f, z, s)' <=> \E i \in DOMAIN f : f[i] = s)
         /\ z = Queued => (Has(f, z, s)' <=> \E i \in DOMAIN queue' : queue'[i] = s)
         /\ z = WithJob => (Has(f, z, s)' <=> jobs'[s] > 0)
         /\ z = InAnswer => (Has(f, z, s)' <=> answering' = s)
         /\ z = Leaked => (Has(f, z, s)' <=> s \in leaked')
<1>1. \A t \in Threads :
        z = InHand(t) => (Has(f, z, s)' <=> mine'[t] = s /\ pc'[t] # "deliver")
  BY DEF Has, InHand, At
<1>2. \A i \in Slots : z = InEntry(i) => (Has(f, z, s)' <=> ready'[i] /\ entry'[i] = s)
  BY DEF Has, InEntry
<1>3. z = Free => (Has(f, z, s)' <=> \E i \in DOMAIN f : f[i] = s)
  BY DEF Has, Free
<1>4. z = Queued => (Has(f, z, s)' <=> \E i \in DOMAIN queue' : queue'[i] = s)
  BY DEF Has, Queued
<1>5. z = WithJob => (Has(f, z, s)' <=> jobs'[s] > 0)
  BY DEF Has, WithJob
<1>6. z = InAnswer => (Has(f, z, s)' <=> answering' = s)
  BY DEF Has, InAnswer
<1>7. z = Leaked => (Has(f, z, s)' <=> s \in leaked')
  BY DEF Has, Leaked
<1> QED BY <1>1, <1>2, <1>3, <1>4, <1>5, <1>6, <1>7

\* Slot m goes from x to y: whether s is at z after that, when b says if it was.
Shifted(m, x, y, z, s, b) == (z = y /\ s = m) \/ (b /\ ~ (z = x /\ s = m))

\* The step moves slot m from x to y and no other, and the free list f becomes g.
MovesSlot(f, g, m, x, y) ==
  \A s \in Slots :
    /\ \A t \in Threads :
         (mine'[t] = s /\ pc'[t] # "deliver")
           <=> Shifted(m, x, y, InHand(t), s, mine[t] = s /\ pc[t] # "deliver")
    /\ \A i \in Slots :
         (ready'[i] /\ entry'[i] = s) <=> Shifted(m, x, y, InEntry(i), s, ready[i] /\ entry[i] = s)
    /\ (\E i \in DOMAIN g : g[i] = s) <=> Shifted(m, x, y, Free, s, \E i \in DOMAIN f : f[i] = s)
    /\ (\E i \in DOMAIN queue' : queue'[i] = s)
         <=> Shifted(m, x, y, Queued, s, \E i \in DOMAIN queue : queue[i] = s)
    /\ jobs'[s] > 0 <=> Shifted(m, x, y, WithJob, s, jobs[s] > 0)
    /\ answering' = s <=> Shifted(m, x, y, InAnswer, s, answering = s)
    /\ s \in leaked' <=> Shifted(m, x, y, Leaked, s, s \in leaked)

LEMMA SlotMoves ==
  ASSUME NEW CONSTANT f, NEW CONSTANT g, SlotsPlaced(f),
         Once(g), Once(queue)', \A s \in Slots : jobs'[s] <= 1,
         NEW CONSTANT m \in Slots, NEW CONSTANT x \in Places, NEW CONSTANT y \in Places,
         Has(f, x, m), MovesSlot(f, g, m, x, y)
  PROVE  SlotsPlaced(g)'
<1>1. ASSUME NEW s \in Slots, NEW z \in Places
      PROVE  Has(g, z, s)' <=> Shifted(m, x, y, z, s, Has(f, z, s))
  <2>1. CASE \E t \in Threads : z = InHand(t)
    <3>1. PICK t \in Threads : z = InHand(t)
      BY <2>1
    <3>2. Has(f, z, s) <=> mine[t] = s /\ pc[t] # "deliver"
      BY <3>1, HasForm DEF At
    <3>3. Has(g, z, s)' <=> mine'[t] = s /\ pc'[t] # "deliver"
      BY <3>1, HasFormNext
    <3>4. (mine'[t] = s /\ pc'[t] # "deliver")
             <=> Shifted(m, x, y, z, s, mine[t] = s /\ pc[t] # "deliver")
      BY <3>1 DEF MovesSlot
    <3> QED BY <3>2, <3>3, <3>4 DEF Shifted
  <2>2. CASE \E i \in Slots : z = InEntry(i)
    <3>1. PICK i \in Slots : z = InEntry(i)
      BY <2>2
    <3>2. Has(f, z, s) <=> ready[i] /\ entry[i] = s
      BY <3>1, HasForm
    <3>3. Has(g, z, s)' <=> ready'[i] /\ entry'[i] = s
      BY <3>1, HasFormNext
    <3>4. (ready'[i] /\ entry'[i] = s) <=> Shifted(m, x, y, z, s, ready[i] /\ entry[i] = s)
      BY <3>1 DEF MovesSlot
    <3> QED BY <3>2, <3>3, <3>4 DEF Shifted
  <2>3. CASE z = Free
    BY <2>3, HasForm, HasFormNext DEF MovesSlot, Shifted
  <2>4. CASE z = Queued
    BY <2>4, HasForm, HasFormNext DEF MovesSlot, Shifted
  <2>5. CASE z = WithJob
    BY <2>5, HasForm, HasFormNext DEF MovesSlot, Shifted
  <2>6. CASE z = InAnswer
    BY <2>6, HasForm, HasFormNext DEF MovesSlot, Shifted
  <2>7. CASE z = Leaked
    BY <2>7, HasForm, HasFormNext DEF MovesSlot, Shifted
  <2> QED BY <2>1, <2>2, <2>3, <2>4, <2>5, <2>6, <2>7 DEF Places
<1>2. ASSUME NEW s \in Slots
      PROVE  /\ \E z \in Places : Has(g, z, s)'
             /\ \A z, w \in Places : Has(g, z, s)' /\ Has(g, w, s)' => z = w
  <2>1. /\ \E z \in Places : Has(f, z, s)
        /\ \A z, w \in Places : Has(f, z, s) /\ Has(f, w, s) => z = w
    BY DEF SlotsPlaced
  <2> QED BY <1>1, <2>1 DEF Shifted
<1>3. \A s \in Slots : /\ \E z \in Places : Has(g, z, s)'
                       /\ \A z, w \in Places : Has(g, z, s)' /\ Has(g, w, s)' => z = w
  BY <1>2
<1>4. Once(g)'
  BY DEF Once
<1>5. Places' = Places
  BY DEF Places, InHand, InEntry, Free, Queued, WithJob, InAnswer, Leaked, Threads, Slots
<1> QED BY <1>3, <1>4, <1>5 DEF SlotsPlaced

\* Every slot stays where it is.
LEMMA SlotsStay ==
  ASSUME NEW CONSTANT f, SlotsPlaced(f), queue' = queue, jobs' = jobs, answering' = answering,
         leaked' = leaked,
         \A s \in Slots :
           /\ \A t \in Threads :
                (mine'[t] = s /\ pc'[t] # "deliver") <=> (mine[t] = s /\ pc[t] # "deliver")
           /\ \A i \in Slots : (ready'[i] /\ entry'[i] = s) <=> (ready[i] /\ entry[i] = s)
  PROVE  SlotsPlaced(f)'
<1>1. PICK m \in Slots : TRUE
  BY DEF Slots
<1>2. PICK x \in Places : Has(f, x, m)
  BY DEF SlotsPlaced
<1>3. Once(f) /\ Once(queue)' /\ \A s \in Slots : jobs'[s] <= 1
  BY DEF SlotsPlaced, Once
<1>4. \A s \in Slots :
       /\ \A t \in Threads : Has(f, InHand(t), s) <=> mine[t] = s /\ pc[t] # "deliver"
       /\ \A i \in Slots : Has(f, InEntry(i), s) <=> ready[i] /\ entry[i] = s
       /\ Has(f, Free, s) <=> \E i \in DOMAIN f : f[i] = s
       /\ Has(f, Queued, s) <=> \E i \in DOMAIN queue : queue[i] = s
       /\ Has(f, WithJob, s) <=> jobs[s] > 0
       /\ Has(f, InAnswer, s) <=> answering = s
       /\ Has(f, Leaked, s) <=> s \in leaked
  BY HasForm, ZenonT(60) DEF At
<1>5. MovesSlot(f, f, m, x, x)
  BY <1>2, <1>4, PlaceFacts DEF MovesSlot, Shifted
<1> QED BY <1>1, <1>2, <1>3, <1>5, SlotMoves

\* A slot that a thread has in hand is nowhere else.
LEMMA InHandOnly ==
  ASSUME NEW CONSTANT f, SlotsPlaced(f), NEW t \in Threads, mine[t] \in Slots, pc[t] # "deliver"
  PROVE  /\ Has(f, InHand(t), mine[t])
         /\ \A i \in DOMAIN f : f[i] # mine[t]
         /\ \A i \in DOMAIN queue : queue[i] # mine[t]
         /\ ~ (jobs[mine[t]] > 0)
         /\ \A i \in Slots : ~ (ready[i] /\ entry[i] = mine[t])
         /\ answering # mine[t] /\ mine[t] \notin leaked
         /\ \A u \in Threads : mine[u] = mine[t] /\ pc[u] # "deliver" => u = t
<1> DEFINE s == mine[t]
<1>1. Has(f, InHand(t), s)
  BY HasForm DEF At
<1>2. \A z \in Places : Has(f, z, s) => z = InHand(t)
  BY <1>1, PlaceFacts DEF SlotsPlaced
<1>3. /\ ~ Has(f, Free, s) /\ ~ Has(f, Queued, s) /\ ~ Has(f, WithJob, s)
      /\ ~ Has(f, InAnswer, s) /\ ~ Has(f, Leaked, s)
  BY <1>2, PlaceFacts
<1>4. \A i \in Slots : ~ Has(f, InEntry(i), s)
  BY <1>2, PlaceFacts
<1>5. \A u \in Threads : Has(f, InHand(u), s) => u = t
  BY <1>2, PlaceFacts
<1> HIDE DEF s
<1>6. /\ ~ \E i \in DOMAIN f : f[i] = s
      /\ ~ \E i \in DOMAIN queue : queue[i] = s
      /\ ~ (jobs[s] > 0)
      /\ answering # s /\ s \notin leaked
  BY <1>3, HasForm
<1>7. \A i \in Slots : ~ (ready[i] /\ entry[i] = s)
  BY <1>4, HasForm
<1>8. \A u \in Threads : mine[u] = s /\ pc[u] # "deliver" => u = t
  BY <1>5, HasForm DEF At
<1> QED BY <1>1, <1>6, <1>7, <1>8 DEF s

LEMMA ListWitness ==
  ASSUME NEW CONSTANT g \in SlotLists, FreeList(g)', LinksHold(g)', SlotsPlaced(g)'
  PROVE  ListAndPlaces'
BY DEF ListAndPlaces, SlotLists, Slots

LEMMA ListShape ==
  ASSUME NEW f \in SlotLists
  PROVE  \E n \in 0 .. PoolSize : f \in [1 .. n -> Slots] /\ DOMAIN f = 1 .. n /\ Len(f) = n
<1>1. PICK n \in 0 .. PoolSize : f \in [1 .. n -> Slots]
  BY DEF SlotLists
<1>2. DOMAIN f = 1 .. n /\ Len(f) = n
  BY <1>1
<1> QED BY <1>1, <1>2

\* A thread moves on without touching the list and its links.
LEMMA ListSame ==
  ASSUME IoInv, NEW CONSTANT f \in SlotLists, FreeList(f), LinksHold(f),
         NEW t \in Threads, pc'[t] # "freeSwap",
         t = Main => pc'[t] \notin {"allocLink", "allocSwap"},
         head' = head, link' = link, next' = next,
         \A u \in Threads : u # t => pc'[u] = pc[u] /\ mine'[u] = mine[u] /\ seen'[u] = seen[u]
  PROVE  FreeList(f)' /\ LinksHold(f)'
<1>1. FreeList(f)'
  BY DEF FreeList
<1>3. Main # t => mine'[Main] = mine[Main] /\ seen'[Main] = seen[Main] /\ pc'[Main] = pc[Main]
  BY ThreadFacts
<1>4. Main = t => pc'[Main] \notin {"allocLink", "allocSwap"}
  OBVIOUS
<1>5. pc'[Main] \in {"allocLink", "allocSwap"} => \E i \in DOMAIN f : f[i] = seen'[Main]
  BY <1>3, <1>4 DEF LinksHold
<1>6. pc'[Main] = "allocSwap" => next' = link'[seen'[Main]]
  BY <1>3, <1>4 DEF LinksHold
<1>7. \A u \in Threads : pc'[u] = "freeSwap" => link'[mine'[u]] = seen'[u]
  BY DEF LinksHold
<1>8. \A u \in Threads' : pc'[u] = "freeSwap" => link'[mine'[u]] = seen'[u]
  BY <1>7 DEF Threads
<1> QED BY <1>1, <1>5, <1>6, <1>8 DEF LinksHold

\* Steps after which every slot is where it was, and the list too.
LEMMA QuietList ==
  ASSUME IoInv, NEW CONSTANT f \in SlotLists, FreeList(f), LinksHold(f), SlotsPlaced(f),
         NEW t \in Threads, NEW x, pc' = [pc EXCEPT ![t] = x],
         x \notin {"freeSwap", "deliver"}, t = Main => x \notin {"allocLink", "allocSwap"},
         pc[t] # "deliver",
         head' = head, link' = link, next' = next, mine' = mine, seen' = seen,
         queue' = queue, jobs' = jobs, answering' = answering, leaked' = leaked,
         \A s, i \in Slots : (ready'[i] /\ entry'[i] = s) <=> (ready[i] /\ entry[i] = s)
  PROVE  ListAndPlaces'
<1>1. FreeList(f)' /\ LinksHold(f)'
  <2>1. \A u \in Threads : pc'[u] = IF u = t THEN x ELSE pc[u]
    BY IoFacts
  <2> QED BY <2>1, ListSame
<1>2. \A u \in Threads : (pc'[u] # "deliver") <=> (pc[u] # "deliver")
  BY IoFacts
<1>3. SlotsPlaced(f)'
  BY <1>2, SlotsStay
<1> QED BY <1>1, <1>3, ListWitness

LEMMA MainQuiet ==
  ASSUME IoInv, NEW CONSTANT f \in SlotLists, FreeList(f), LinksHold(f), SlotsPlaced(f),
         SubmitPost \/ Shutdown
  PROVE  ListAndPlaces'
<1>1. /\ head' = head /\ link' = link /\ next' = next /\ mine' = mine /\ seen' = seen
      /\ queue' = queue /\ jobs' = jobs /\ answering' = answering /\ leaked' = leaked
      /\ ready' = ready /\ entry' = entry
  BY DEF SubmitPost, Shutdown, BeginShutdown, PostExit, Join, freeList, locals, submission, completion
<1>2. \E x \in {"idle", "stop", "join", "over"} : pc' = [pc EXCEPT ![Main] = x]
  BY DEF SubmitPost, Shutdown, BeginShutdown, PostExit, Join, Goto
<1>3. pc[Main] # "deliver"
  BY DEF SubmitPost, Shutdown, BeginShutdown, PostExit, Join, At
<1> QED BY <1>1, <1>2, <1>3, QuietList, ThreadFacts

LEMMA IoQuiet ==
  ASSUME IoInv, NEW CONSTANT f \in SlotLists, FreeList(f), LinksHold(f), SlotsPlaced(f),
         NEW t \in IoThreads \cup Workers,
         WaitForWork(t) \/ PopEmpty(t) \/ ProcessFails(t) \/ ReadErs(t) \/ ProcessDone(t)
           \/ HandOverFails(t) \/ Reserve(t) \/ Enter(t)
  PROVE  ListAndPlaces'
<1>1. /\ head' = head /\ link' = link /\ next' = next /\ mine' = mine /\ seen' = seen
      /\ queue' = queue /\ jobs' = jobs /\ answering' = answering /\ leaked' = leaked
  BY DEF WaitForWork, PopEmpty, ProcessFails, ReadErs, ProcessDone, HandOverFails, Reserve, Enter,
     freeList, locals, submission
<1>2. \E x \in {"pop", "undefinedIndex", "gone", "reading", "reserve", "free", "enter", "publish"} :
        pc' = [pc EXCEPT ![t] = x]
  BY DEF WaitForWork, PopEmpty, ProcessFails, ReadErs, ProcessDone, HandOverFails, Reserve,
     Enter, Answer, Goto
<1>3. pc[t] # "deliver"
  BY DEF WaitForWork, PopEmpty, ProcessFails, ReadErs, ProcessDone, HandOverFails, AccessDone,
     Reserve, Enter, At
<1>4. t \in Threads /\ t # Main
  BY ThreadFacts
<1>5. \A s, i \in Slots : (ready'[i] /\ entry'[i] = s) <=> (ready[i] /\ entry[i] = s)
  <2>1. CASE Enter(t)
    <3>1. ~ ready[place[t]] /\ place[t] \in Slots
      BY <1>4, <2>1, IoFacts DEF Enter, At, IoInv, EntriesReserved, Entering
    <3> QED BY <2>1, <3>1, IoFacts DEF Enter
  <2>2. CASE ~ Enter(t)
    BY <2>2 DEF WaitForWork, PopEmpty, ProcessFails, ReadErs, ProcessDone, HandOverFails,
       Reserve, completion
  <2> QED BY <2>1, <2>2
<1> QED BY <1>1, <1>2, <1>3, <1>4, <1>5, QuietList

\* The entry at the tail is looked at; until it is taken the slot is still there.
LEMMA TakeList ==
  ASSUME IoInv, NEW CONSTANT f \in SlotLists, FreeList(f), LinksHold(f), SlotsPlaced(f), TakeEntry
  PROVE  ListAndPlaces'
<1>1. /\ head' = head /\ link' = link /\ next' = next /\ seen' = seen
      /\ queue' = queue /\ jobs' = jobs /\ answering' = answering /\ leaked' = leaked
      /\ ready' = ready /\ entry' = entry
      /\ pc[Main] = "idle" /\ pc' = [pc EXCEPT ![Main] = "deliver"]
      /\ mine' = [mine EXCEPT ![Main] = entry[NextComplete]]
  BY DEF TakeEntry, freeList, submission, completion, At, Goto
<1>2. mine[Main] = NoSlot
  BY <1>1, ThreadFacts DEF IoInv, PointsOwned, Holding, CompletePoints, FreePoints
<1>3. FreeList(f)' /\ LinksHold(f)'
  <2>1. \A u \in Threads : /\ pc'[u] = IF u = Main THEN "deliver" ELSE pc[u]
                           /\ u # Main => mine'[u] = mine[u]
    BY <1>1, IoFacts
  <2> QED BY <1>1, <2>1, ListSame, ThreadFacts
<1>4. \A t \in Threads, s \in Slots :
        (mine'[t] = s /\ pc'[t] # "deliver") <=> (mine[t] = s /\ pc[t] # "deliver")
  BY <1>1, <1>2, IoFacts, NoSlotApart
<1>5. SlotsPlaced(f)'
  BY <1>1, <1>4, SlotsStay
<1> QED BY <1>3, <1>5, ListWitness

LEMMA AllocateList ==
  ASSUME IoInv, NEW CONSTANT f \in SlotLists, FreeList(f), LinksHold(f), SlotsPlaced(f),
         AllocateLoad \/ AllocateLink \/ AllocateAgain
  PROVE  ListAndPlaces'
<1>1. /\ head' = head /\ link' = link /\ mine' = mine
      /\ queue' = queue /\ jobs' = jobs /\ answering' = answering /\ leaked' = leaked
      /\ ready' = ready /\ entry' = entry
  BY DEF AllocateLoad, AllocateLink, AllocateAgain, freeList, locals, submission, completion
<1>2. pc[Main] \in {"idle", "allocLink", "allocSwap"}
      /\ \E x \in {"allocLink", "allocSwap"} : pc' = [pc EXCEPT ![Main] = x]
  BY DEF AllocateLoad, AllocateLink, AllocateAgain, At, Goto
<1>3. /\ \A u \in Threads : u # Main => pc'[u] = pc[u] /\ seen'[u] = seen[u]
      /\ pc'[Main] \in {"allocLink", "allocSwap"}
  <2>1. seen' = seen \/ seen' = [seen EXCEPT ![Main] = head]
    BY DEF AllocateLoad, AllocateLink, AllocateAgain, locals
  <2> QED BY <1>2, <2>1, IoFacts, ThreadFacts
<1>4. SlotsPlaced(f)'
  BY <1>1, <1>2, <1>3, SlotsStay
<1>5. FreeList(f)'
  BY <1>1 DEF FreeList
<1>6. \E i \in DOMAIN f : f[i] = seen'[Main]
  <2>1. CASE AllocateLink
    BY <1>2, <2>1 DEF AllocateLink, At, LinksHold, locals
  <2>2. CASE AllocateLoad \/ AllocateAgain
    <3>1. seen'[Main] = head
      BY <2>2, IoFacts, ThreadFacts DEF AllocateLoad, AllocateAgain
    <3>2. f # <<>>
      <4>1. AllocateLoad => head # NoSlot
        BY DEF AllocateLoad
      <4>2. AllocateAgain => \E i \in DOMAIN f : TRUE
        BY DEF AllocateAgain, At, LinksHold
      <4> QED BY <2>2, <4>1, <4>2 DEF FreeList
    <3>3. PICK n \in 0 .. PoolSize : f \in [1 .. n -> Slots] /\ DOMAIN f = 1 .. n
      BY ListShape
    <3>4. 1 \in DOMAIN f
      BY <3>2, <3>3
    <3> QED BY <3>1, <3>2, <3>4 DEF FreeList
  <2> QED BY <2>1, <2>2
<1>7. pc'[Main] = "allocSwap" => next' = link'[seen'[Main]]
  <2>1. CASE AllocateLink
    BY <2>1 DEF AllocateLink, locals, freeList
  <2>2. CASE AllocateLoad \/ AllocateAgain
    BY <2>2, IoFacts, ThreadFacts DEF AllocateLoad, AllocateAgain, Goto
  <2> QED BY <2>1, <2>2
<1>8. \A u \in Threads' : pc'[u] = "freeSwap" => link'[mine'[u]] = seen'[u]
  BY <1>1, <1>3 DEF LinksHold, Threads
<1>9. LinksHold(f)'
  BY <1>6, <1>7, <1>8 DEF LinksHold
<1> QED BY <1>4, <1>5, <1>9, ListWitness

----------------------------------------------------------------------------
(* The steps that move a slot *)

\* The first slot is taken out of the list.  The list has not changed after the
\* link of the slot was read: nobody else takes slots out.
LEMMA AllocateSwapList ==
  ASSUME IoInv, NEW CONSTANT f \in SlotLists, FreeList(f), LinksHold(f), SlotsPlaced(f), AllocateSwap
  PROVE  ListAndPlaces'
<1>1. /\ link' = link /\ queue' = queue /\ jobs' = jobs /\ answering' = answering /\ leaked' = leaked
      /\ ready' = ready /\ entry' = entry /\ seen' = seen
      /\ pc[Main] = "allocSwap" /\ pc' = [pc EXCEPT ![Main] = "push"]
      /\ mine' = [mine EXCEPT ![Main] = seen[Main]] /\ head = seen[Main] /\ head' = next
  BY DEF AllocateSwap, requests, completion, At, Goto
<1>2. PICK n \in 0 .. PoolSize : f \in [1 .. n -> Slots] /\ DOMAIN f = 1 .. n /\ Len(f) = n
  BY ListShape
<1>3. (\E i \in DOMAIN f : f[i] = seen[Main]) /\ next = link[seen[Main]]
  BY <1>1 DEF LinksHold
<1>4. n >= 1 /\ f # <<>> /\ head = f[1]
  BY <1>2, <1>3 DEF FreeList
<1> DEFINE g == [i \in 1 .. n - 1 |-> f[i + 1]]
<1>5. g \in [1 .. n - 1 -> Slots] /\ DOMAIN g = 1 .. n - 1 /\ Len(g) = n - 1
  BY <1>2, <1>4
<1>6. g \in SlotLists
  BY <1>2, <1>4, <1>5 DEF SlotLists
<1>7. \A i \in 1 .. n - 1 : g[i] = f[i + 1]
  OBVIOUS
<1>8. g = <<>> <=> n = 1
  BY <1>4, <1>5
<1> HIDE DEF g
<1>9. Once(f)
  BY DEF SlotsPlaced
<1>10. FreeList(g)'
  <2>1. head' = IF g = <<>> THEN NoSlot ELSE g[1]
    <3>1. head' = IF 1 = n THEN NoSlot ELSE f[2]
      BY <1>1, <1>2, <1>3, <1>4 DEF FreeList
    <3>2. n # 1 => g[1] = f[2]
      BY <1>2, <1>4, <1>7
    <3> QED BY <1>8, <3>1, <3>2
  <2>2. \A i \in DOMAIN g : link'[g[i]] = IF i = Len(g) THEN NoSlot ELSE g[i + 1]
    <3>1. TAKE i \in DOMAIN g
    <3>2. i \in 1 .. n - 1 /\ i + 1 \in 1 .. n
      BY <1>2, <1>5
    <3>3. link'[g[i]] = IF i + 1 = n THEN NoSlot ELSE f[i + 2]
      BY <1>1, <1>2, <1>7, <3>2 DEF FreeList
    <3>4. i + 1 # n => g[i + 1] = f[i + 2]
      BY <1>2, <1>7, <3>2
    <3> QED BY <1>2, <1>5, <3>2, <3>3, <3>4
  <2> QED BY <2>1, <2>2 DEF FreeList
<1>11. LinksHold(g)'
  BY <1>1, IoFacts, ThreadFacts DEF LinksHold, Threads
<1> DEFINE m == f[1]
<1>12. m \in Slots /\ m = seen[Main]
  BY <1>1, <1>2, <1>4
<1>13. Once(g)
  BY <1>2, <1>5, <1>7, <1>9 DEF Once
<1>14. \A s \in Slots : (\E i \in DOMAIN g : g[i] = s) <=> (\E i \in DOMAIN f : f[i] = s) /\ s # m
  <2>1. TAKE s \in Slots
  <2>2. ASSUME NEW i \in DOMAIN g, g[i] = s PROVE i + 1 \in DOMAIN f /\ f[i + 1] = s /\ s # m
    BY <1>2, <1>4, <1>5, <1>7, <1>9, <2>2 DEF Once
  <2>3. ASSUME NEW i \in DOMAIN f, f[i] = s, s # m PROVE i - 1 \in DOMAIN g /\ g[i - 1] = s
    <3>1. i # 1 /\ i \in 1 .. n
      BY <1>2, <2>3
    <3>2. i - 1 \in 1 .. n - 1 /\ (i - 1) + 1 = i
      BY <1>2, <3>1
    <3> QED BY <1>5, <1>7, <2>3, <3>2
  <2> QED BY <2>2, <2>3
<1>15. \E i \in DOMAIN f : f[i] = m
  BY <1>2, <1>4
<1> HIDE DEF m
<1>16. Has(f, Free, m)
  BY <1>15, HasForm
<1>17. mine[Main] = NoSlot
  BY <1>1, ThreadFacts DEF IoInv, PointsOwned, Holding, CompletePoints, FreePoints
<1>18. \A s \in Slots, t \in Threads :
         (mine'[t] = s /\ pc'[t] # "deliver")
           <=> (t = Main /\ s = m) \/ (mine[t] = s /\ pc[t] # "deliver")
  BY <1>1, <1>12, <1>17, IoFacts, NoSlotApart
<1>19. MovesSlot(f, g, m, Free, InHand(Main))
  BY <1>1, <1>14, <1>18, PlaceFacts, ThreadFacts DEF MovesSlot, Shifted
<1>20. Once(queue)' /\ \A s \in Slots : jobs'[s] <= 1
  BY <1>1 DEF SlotsPlaced, Once
<1>21. SlotsPlaced(g)'
  BY <1>12, <1>13, <1>16, <1>19, <1>20, SlotMoves, PlaceFacts, ThreadFacts
<1> QED BY <1>6, <1>10, <1>11, <1>21, ListWitness

\* The slot is linked to the head; it is in nobody else's hand, so no other link
\* matters.
LEMMA FreeLinkList ==
  ASSUME IoInv, NEW CONSTANT f \in SlotLists, FreeList(f), LinksHold(f), SlotsPlaced(f),
         NEW t \in Threads, FreeLink(t)
  PROVE  ListAndPlaces'
<1>1. /\ head' = head /\ mine' = mine /\ queue' = queue /\ jobs' = jobs /\ answering' = answering
      /\ leaked' = leaked
      /\ ready' = ready /\ entry' = entry /\ next' = next
      /\ pc[t] = "free" /\ pc' = [pc EXCEPT ![t] = "freeSwap"]
      /\ seen' = [seen EXCEPT ![t] = head] /\ link' = [link EXCEPT ![mine[t]] = head]
  BY DEF FreeLink, completion, submission, At, Goto
<1>2. mine[t] \in Slots
  BY <1>1, HandFacts DEF Holding, FreePoints
<1>3. /\ \A i \in DOMAIN f : f[i] # mine[t]
      /\ \A u \in Threads : mine[u] = mine[t] /\ pc[u] # "deliver" => u = t
  BY <1>1, <1>2, InHandOnly
<1>4. FreeList(f)'
  <2>1. \A i \in DOMAIN f : f[i] \in Slots /\ link'[f[i]] = link[f[i]]
    BY <1>1, <1>3, ListedLinks, IoFacts
  <2> QED BY <1>1, <2>1 DEF FreeList
<1>5. \A u \in Threads : u # t => pc'[u] = pc[u] /\ seen'[u] = seen[u]
  BY <1>1, IoFacts
<1>6. pc'[t] = "freeSwap" /\ seen'[t] = head
  BY <1>1, IoFacts
<1>7. pc'[Main] \in {"allocLink", "allocSwap"} => \E i \in DOMAIN f : f[i] = seen'[Main]
  BY <1>5, <1>6, ThreadFacts DEF LinksHold
<1>8. pc'[Main] = "allocSwap" => next' = link'[seen'[Main]]
  <2>1. SUFFICES ASSUME pc'[Main] = "allocSwap" PROVE next' = link'[seen'[Main]]
    OBVIOUS
  <2>2. Main # t /\ pc[Main] = "allocSwap" /\ seen'[Main] = seen[Main]
    BY <1>5, <1>6, <2>1, ThreadFacts
  <2>3. (\E i \in DOMAIN f : f[i] = seen[Main]) /\ next = link[seen[Main]]
    BY <2>2 DEF LinksHold
  <2>4. seen[Main] # mine[t] /\ seen[Main] \in Slots
    BY <1>3, <2>3, ListedLinks
  <2> QED BY <1>1, <2>2, <2>3, <2>4, IoFacts
<1>9. \A u \in Threads : pc'[u] = "freeSwap" => link'[mine'[u]] = seen'[u]
  <2>1. TAKE u \in Threads
  <2>2. CASE u = t
    BY <1>1, <1>2, <1>6, <2>2, IoFacts
  <2>3. CASE u # t
    <3>1. SUFFICES ASSUME pc'[u] = "freeSwap" PROVE link'[mine'[u]] = seen'[u]
      OBVIOUS
    <3>2. pc[u] = "freeSwap" /\ link[mine[u]] = seen[u] /\ seen'[u] = seen[u]
      BY <1>5, <2>3, <3>1 DEF LinksHold
    <3>3. mine[u] # mine[t] /\ mine[u] \in Slots
      BY <1>3, <2>3, <3>2, HandFacts DEF Holding, FreePoints
    <3> QED BY <1>1, <3>2, <3>3, IoFacts
  <2> QED BY <2>2, <2>3
<1>10. LinksHold(f)'
  <2>1. \A u \in Threads' : pc'[u] = "freeSwap" => link'[mine'[u]] = seen'[u]
    BY <1>9 DEF Threads
  <2> QED BY <1>7, <1>8, <2>1 DEF LinksHold
<1>11. SlotsPlaced(f)'
  BY <1>1, <1>5, <1>6, SlotsStay
<1> QED BY <1>4, <1>10, <1>11, ListWitness

\* The slot becomes the first of the list.
LEMMA FreeSwapList ==
  ASSUME IoInv, NEW CONSTANT f \in SlotLists, FreeList(f), LinksHold(f), SlotsPlaced(f),
         NEW t \in Threads, FreeSwap(t)
  PROVE  ListAndPlaces'
<1>1. CASE head # seen[t]
  <2>1. /\ head' = head /\ link' = link /\ next' = next /\ mine' = mine /\ seen' = seen
        /\ queue' = queue /\ jobs' = jobs /\ answering' = answering /\ leaked' = leaked
        /\ ready' = ready /\ entry' = entry
        /\ pc[t] = "freeSwap" /\ pc' = [pc EXCEPT ![t] = "free"]
    BY <1>1 DEF FreeSwap, completion, submission, At, Goto
  <2>2. PICK x \in {"free"} : pc' = [pc EXCEPT ![t] = x]
    BY <2>1
  <2>3. \A s, i \in Slots : (ready'[i] /\ entry'[i] = s) <=> (ready[i] /\ entry[i] = s)
    BY <2>1
  <2> QED BY <2>1, <2>2, <2>3, QuietList
<1>2. CASE head = seen[t]
  <2>1. /\ link' = link /\ next' = next /\ head' = mine[t]
        /\ queue' = queue /\ jobs' = jobs /\ answering' = answering /\ leaked' = leaked
        /\ ready' = ready /\ entry' = entry
        /\ pc[t] = "freeSwap"
        /\ pc' = [pc EXCEPT ![t] = IF t \in IoThreads THEN "wait" ELSE "idle"]
        /\ mine' = [mine EXCEPT ![t] = NoSlot] /\ seen' = [seen EXCEPT ![t] = NoSlot]
    BY <1>2 DEF FreeSwap, Release, completion, submission, At, Goto
  <2>2. PICK m \in Slots : m = mine[t]
    BY <2>1, HandFacts DEF Holding, FreePoints
  <2>3. /\ Has(f, InHand(t), m)
        /\ \A i \in DOMAIN f : f[i] # m
        /\ \A u \in Threads : mine[u] = m /\ pc[u] # "deliver" => u = t
    BY <2>1, <2>2, InHandOnly
  <2>4. PICK n \in 0 .. PoolSize : f \in [1 .. n -> Slots] /\ DOMAIN f = 1 .. n /\ Len(f) = n
    BY ListShape
  <2>5. Once(f)
    BY DEF SlotsPlaced
  <2>6. n < PoolSize
    <3>1. n \in Nat /\ \A i \in 1 .. n : f[i] # m
      BY <2>3, <2>4
    <3> QED BY <2>4, <2>5, <3>1, OnceWithout
  <2> DEFINE g == [i \in 1 .. n + 1 |-> IF i = 1 THEN m ELSE f[i - 1]]
  <2>7. \A i \in 1 .. n + 1 : g[i] = IF i = 1 THEN m ELSE f[i - 1]
    OBVIOUS
  <2>8. g \in [1 .. n + 1 -> Slots] /\ DOMAIN g = 1 .. n + 1 /\ Len(g) = n + 1
    BY <2>4
  <2>9. g # <<>>
    BY <2>8
  <2> HIDE DEF g
  <2>10. g \in SlotLists
    BY <2>4, <2>6, <2>8 DEF SlotLists
  <2>11. FreeList(g)'
    <3>1. head' = g[1]
      BY <2>1, <2>2, <2>4, <2>7
    <3>2. \A i \in DOMAIN g : link'[g[i]] = IF i = Len(g) THEN NoSlot ELSE g[i + 1]
      <4>1. TAKE i \in DOMAIN g
      <4>2. i \in 1 .. n + 1
        BY <2>8
      <4>3. CASE i = 1
        <5>1. link'[g[i]] = head
          BY <1>2, <2>1, <2>2, <2>7, <4>2, <4>3 DEF LinksHold
        <5>2. head = IF n = 0 THEN NoSlot ELSE f[1]
          BY <2>4 DEF FreeList
        <5>3. n # 0 => g[2] = f[1]
          BY <2>4, <2>7
        <5> QED BY <2>4, <2>8, <4>3, <5>1, <5>2, <5>3
      <4>4. CASE i # 1
        <5>1. g[i] = f[i - 1] /\ i - 1 \in 1 .. n /\ (i - 1) + 1 = i
          BY <2>4, <2>7, <4>2, <4>4
        <5>2. link[f[i - 1]] = IF i - 1 = n THEN NoSlot ELSE f[i]
          BY <2>4, <5>1 DEF FreeList
        <5>3. i - 1 # n => i + 1 \in 1 .. n + 1 /\ g[i + 1] = f[i]
          BY <2>4, <2>7, <4>2
        <5> QED BY <2>1, <2>4, <2>8, <4>2, <5>1, <5>2, <5>3
      <4> QED BY <4>3, <4>4
    <3> QED BY <2>9, <3>1, <3>2 DEF FreeList
  <2>12. \A u \in Threads : /\ pc'[u] = IF u # t THEN pc[u]
                                        ELSE IF t \in IoThreads THEN "wait" ELSE "idle"
                            /\ u # t => seen'[u] = seen[u] /\ mine'[u] = mine[u]
                            /\ u = t => mine'[u] = NoSlot
    BY <2>1, IoFacts
  <2>13. \A s \in Slots : (\E i \in DOMAIN g : g[i] = s) <=> (\E i \in DOMAIN f : f[i] = s) \/ s = m
    <3>1. TAKE s \in Slots
    <3>2. ASSUME NEW i \in DOMAIN g, g[i] = s PROVE (\E k \in DOMAIN f : f[k] = s) \/ s = m
      <4>1. i # 1 => i - 1 \in DOMAIN f /\ f[i - 1] = s
        BY <2>4, <2>7, <2>8, <3>2
      <4> QED BY <2>4, <2>7, <2>8, <3>2, <4>1
    <3>3. ASSUME NEW i \in DOMAIN f, f[i] = s PROVE i + 1 \in DOMAIN g /\ g[i + 1] = s
      <4>1. i \in 1 .. n /\ i + 1 \in 1 .. n + 1 /\ i + 1 # 1 /\ (i + 1) - 1 = i
        BY <2>4
      <4> QED BY <2>7, <2>8, <3>3, <4>1
    <3>4. 1 \in DOMAIN g /\ g[1] = m
      BY <2>4, <2>7, <2>8
    <3> QED BY <3>2, <3>3, <3>4
  <2>14. LinksHold(g)'
    <3>1. \A i \in DOMAIN f : \E k \in DOMAIN g : g[k] = f[i]
      BY <2>13, ListedLinks
    <3>2. pc'[Main] \in {"allocLink", "allocSwap"} => \E i \in DOMAIN g : g[i] = seen'[Main]
      BY <2>12, <3>1, ThreadFacts DEF LinksHold
    <3>3. pc'[Main] = "allocSwap" => next' = link'[seen'[Main]]
      BY <2>1, <2>12, ThreadFacts DEF LinksHold
    <3>4. \A u \in Threads' : pc'[u] = "freeSwap" => link'[mine'[u]] = seen'[u]
      BY <2>1, <2>12 DEF LinksHold, Threads
    <3> QED BY <3>2, <3>3, <3>4 DEF LinksHold
  <2>15. Once(g)
    <3>1. SUFFICES ASSUME NEW i \in 1 .. n + 1, NEW k \in 1 .. n + 1, g[i] = g[k] PROVE i = k
      BY <2>8 DEF Once
    <3>2. CASE i # 1 /\ k # 1
      <4>1. i - 1 \in DOMAIN f /\ k - 1 \in DOMAIN f /\ f[i - 1] = f[k - 1]
        BY <2>4, <2>7, <3>1, <3>2
      <4>2. i - 1 = k - 1
        BY <2>5, <4>1 DEF Once
      <4> QED BY <2>4, <4>2
    <3>3. CASE i = 1 /\ k # 1
      <4>1. k - 1 \in DOMAIN f /\ f[k - 1] = m
        BY <2>4, <2>7, <3>1, <3>3
      <4> QED BY <2>3, <4>1
    <3>4. CASE i # 1 /\ k = 1
      <4>1. i - 1 \in DOMAIN f /\ f[i - 1] = m
        BY <2>4, <2>7, <3>1, <3>4
      <4> QED BY <2>3, <4>1
    <3> QED BY <3>2, <3>3, <3>4
  <2>16. \A s \in Slots, u \in Threads :
           (mine'[u] = s /\ pc'[u] # "deliver")
             <=> (mine[u] = s /\ pc[u] # "deliver") /\ ~ (u = t /\ s = m)
    BY <2>2, <2>12, NoSlotApart
  <2>17. MovesSlot(f, g, m, InHand(t), Free)
    BY <2>1, <2>13, <2>16, PlaceFacts DEF MovesSlot, Shifted
  <2>18. Once(queue)' /\ \A s \in Slots : jobs'[s] <= 1
    BY <2>1 DEF SlotsPlaced, Once
  <2>19. SlotsPlaced(g)'
    BY <2>2, <2>3, <2>15, <2>17, <2>18, SlotMoves, PlaceFacts
  <2> QED BY <2>10, <2>11, <2>14, <2>19, ListWitness
<1> QED BY <1>1, <1>2

\* The index goes into the queue, and a path into its link.
LEMMA SubmitPushList ==
  ASSUME IoInv, NEW CONSTANT f \in SlotLists, FreeList(f), LinksHold(f), SlotsPlaced(f), SubmitPush
  PROVE  ListAndPlaces'
<1>1. /\ jobs' = jobs /\ answering' = answering /\ ready' = ready /\ entry' = entry
      /\ leaked' = leaked
      /\ head' = head
      /\ pc[Main] = "push" /\ pc' = [pc EXCEPT ![Main] = "post"]
      /\ mine' = [mine EXCEPT ![Main] = NoSlot] /\ seen' = [seen EXCEPT ![Main] = NoSlot]
      /\ queue' = Append(queue, mine[Main]) /\ link' = [link EXCEPT ![mine[Main]] = Path]
  BY DEF SubmitPush, Fill, LetGo, completion, At, Goto
<1>2. PICK m \in Slots : m = mine[Main]
  BY <1>1, HandFacts, ThreadFacts DEF Holding
<1>3. /\ Has(f, InHand(Main), m)
      /\ \A i \in DOMAIN f : f[i] # m
      /\ \A i \in DOMAIN queue : queue[i] # m
      /\ \A u \in Threads : mine[u] = m /\ pc[u] # "deliver" => u = Main
  BY <1>1, <1>2, InHandOnly, ThreadFacts
<1>4. \A u \in Threads : /\ pc'[u] = IF u = Main THEN "post" ELSE pc[u]
                         /\ u # Main => seen'[u] = seen[u] /\ mine'[u] = mine[u]
                         /\ u = Main => mine'[u] = NoSlot
  BY <1>1, IoFacts
<1>5. FreeList(f)'
  <2>1. \A i \in DOMAIN f : link'[f[i]] = link[f[i]]
    BY <1>1, <1>2, <1>3, ListedLinks, IoFacts
  <2> QED BY <1>1, <2>1 DEF FreeList
<1>6. LinksHold(f)'
  <2>1. pc'[Main] = "post"
    BY <1>4, ThreadFacts
  <2>2. ASSUME NEW u \in Threads, pc'[u] = "freeSwap" PROVE link'[mine'[u]] = seen'[u]
    <3>1. u # Main /\ pc[u] = "freeSwap" /\ link[mine[u]] = seen[u] /\ mine'[u] = mine[u]
          /\ seen'[u] = seen[u]
      BY <1>4, <2>1, <2>2 DEF LinksHold
    <3>2. mine[u] # m /\ mine[u] \in Slots
      BY <1>3, <3>1, HandFacts DEF Holding, FreePoints
    <3> QED BY <1>1, <1>2, <3>1, <3>2, IoFacts
  <2>3. \A u \in Threads' : pc'[u] = "freeSwap" => link'[mine'[u]] = seen'[u]
    BY <2>2 DEF Threads
  <2> QED BY <2>1, <2>3 DEF LinksHold
<1>7. Len(queue) \in Nat /\ DOMAIN queue = 1 .. Len(queue)
  BY IoFacts, LenProperties
<1>8. /\ DOMAIN queue' = 1 .. Len(queue) + 1 /\ queue'[Len(queue) + 1] = m
      /\ \A i \in 1 .. Len(queue) : queue'[i] = queue[i]
  <2>1. /\ queue' \in Seq(Slots) /\ Len(queue') = Len(queue) + 1 /\ queue'[Len(queue) + 1] = m
        /\ \A i \in 1 .. Len(queue) : queue'[i] = queue[i]
    BY <1>1, <1>2, IoFacts, AppendProperties
  <2> QED BY <2>1, LenProperties
<1>9. Once(queue)'
  <2>1. SUFFICES ASSUME NEW i \in 1 .. Len(queue) + 1, NEW k \in 1 .. Len(queue) + 1,
                        queue'[i] = queue'[k]
                 PROVE  i = k
    BY <1>8 DEF Once
  <2>2. CASE i # Len(queue) + 1 /\ k # Len(queue) + 1
    <3>1. i \in DOMAIN queue /\ k \in DOMAIN queue /\ queue[i] = queue[k]
      BY <1>7, <1>8, <2>1, <2>2
    <3> QED BY <3>1 DEF SlotsPlaced, Once
  <2>3. CASE i = Len(queue) + 1 \/ k = Len(queue) + 1
    <3>1. \A j \in 1 .. Len(queue) + 1 : j # Len(queue) + 1 => queue'[j] # m
      BY <1>3, <1>7, <1>8
    <3> QED BY <1>8, <2>1, <2>3, <3>1
  <2> QED BY <2>2, <2>3
<1>10. \A s \in Slots :
         (\E i \in DOMAIN queue' : queue'[i] = s) <=> (\E i \in DOMAIN queue : queue[i] = s) \/ s = m
  BY <1>7, <1>8
<1>11. \A s \in Slots, u \in Threads :
         (mine'[u] = s /\ pc'[u] # "deliver")
           <=> (mine[u] = s /\ pc[u] # "deliver") /\ ~ (u = Main /\ s = m)
  BY <1>1, <1>2, <1>4, NoSlotApart
<1>12. MovesSlot(f, f, m, InHand(Main), Queued)
  BY <1>1, <1>10, <1>11, PlaceFacts, ThreadFacts DEF MovesSlot, Shifted
<1>13. Once(f) /\ \A s \in Slots : jobs'[s] <= 1
  BY <1>1 DEF SlotsPlaced
<1>14. SlotsPlaced(f)'
  BY <1>3, <1>9, <1>12, <1>13, SlotMoves, PlaceFacts, ThreadFacts
<1> QED BY <1>5, <1>6, <1>14, ListWitness

\* The submission fails, and its slot is let go of.
LEMMA SubmitFailsList ==
  ASSUME IoInv, NEW CONSTANT f \in SlotLists, FreeList(f), LinksHold(f), SlotsPlaced(f),
         SubmitRefused \/ SubmitInvalid
  PROVE  ListAndPlaces'
<1>1. /\ jobs' = jobs /\ answering' = answering /\ ready' = ready /\ entry' = entry
      /\ head' = head /\ queue' = queue /\ leaked' = leaked \cup {mine[Main]}
      /\ pc[Main] = "push" /\ pc' = [pc EXCEPT ![Main] = "idle"]
      /\ mine' = [mine EXCEPT ![Main] = NoSlot] /\ seen' = [seen EXCEPT ![Main] = NoSlot]
      /\ link' = [link EXCEPT ![mine[Main]] = Path]
  BY DEF SubmitRefused, SubmitInvalid, Fill, LetGo, completion, At, Goto
<1>2. PICK m \in Slots : m = mine[Main]
  BY <1>1, HandFacts, ThreadFacts DEF Holding
<1>3. /\ Has(f, InHand(Main), m)
      /\ \A i \in DOMAIN f : f[i] # m
      /\ \A u \in Threads : mine[u] = m /\ pc[u] # "deliver" => u = Main
  BY <1>1, <1>2, InHandOnly, ThreadFacts
<1>4. \A u \in Threads : /\ pc'[u] = IF u = Main THEN "idle" ELSE pc[u]
                         /\ u # Main => seen'[u] = seen[u] /\ mine'[u] = mine[u]
                         /\ u = Main => mine'[u] = NoSlot
  BY <1>1, IoFacts
<1>5. FreeList(f)'
  <2>1. \A i \in DOMAIN f : link'[f[i]] = link[f[i]]
    BY <1>1, <1>2, <1>3, ListedLinks, IoFacts
  <2> QED BY <1>1, <2>1 DEF FreeList
<1>6. LinksHold(f)'
  <2>1. pc'[Main] = "idle"
    BY <1>4, ThreadFacts
  <2>2. ASSUME NEW u \in Threads, pc'[u] = "freeSwap" PROVE link'[mine'[u]] = seen'[u]
    <3>1. u # Main /\ pc[u] = "freeSwap" /\ link[mine[u]] = seen[u] /\ mine'[u] = mine[u]
          /\ seen'[u] = seen[u]
      BY <1>4, <2>1, <2>2 DEF LinksHold
    <3>2. mine[u] # m /\ mine[u] \in Slots
      BY <1>3, <3>1, HandFacts DEF Holding, FreePoints
    <3> QED BY <1>1, <1>2, <3>1, <3>2, IoFacts
  <2>3. \A u \in Threads' : pc'[u] = "freeSwap" => link'[mine'[u]] = seen'[u]
    BY <2>2 DEF Threads
  <2> QED BY <2>1, <2>3 DEF LinksHold
<1>7. \A s \in Slots, u \in Threads :
        (mine'[u] = s /\ pc'[u] # "deliver")
          <=> (mine[u] = s /\ pc[u] # "deliver") /\ ~ (u = Main /\ s = m)
  BY <1>1, <1>2, <1>4, NoSlotApart
<1>8. MovesSlot(f, f, m, InHand(Main), Leaked)
  BY <1>1, <1>2, <1>7, PlaceFacts, ThreadFacts DEF MovesSlot, Shifted
<1>9. Once(f) /\ Once(queue)' /\ \A s \in Slots : jobs'[s] <= 1
  BY <1>1 DEF SlotsPlaced, Once
<1>10. SlotsPlaced(f)'
  BY <1>3, <1>8, <1>9, SlotMoves, PlaceFacts, ThreadFacts
<1> QED BY <1>5, <1>6, <1>10, ListWitness

LEMMA PopList ==
  ASSUME IoInv, NEW CONSTANT f \in SlotLists, FreeList(f), LinksHold(f), SlotsPlaced(f),
         NEW t \in IoThreads, Pop(t)
  PROVE  ListAndPlaces'
<1>1. /\ jobs' = jobs /\ answering' = answering /\ ready' = ready /\ entry' = entry
      /\ leaked' = leaked
      /\ head' = head /\ link' = link /\ next' = next /\ seen' = seen
      /\ pc[t] = "pop" /\ pc' = [pc EXCEPT ![t] = "process"]
      /\ mine' = [mine EXCEPT ![t] = Head(queue)]
      /\ queue # <<>> /\ queue' = Tail(queue)
  BY DEF Pop, freeList, completion, submission, At, Goto
<1>2. t \in Threads /\ t # Main
  BY ThreadFacts
<1>3. \A u \in Threads : /\ pc'[u] = IF u = t THEN "process" ELSE pc[u]
                         /\ mine'[u] = IF u = t THEN Head(queue) ELSE mine[u]
  BY <1>1, IoFacts
<1>5. FreeList(f)' /\ LinksHold(f)'
  BY <1>1, <1>2, <1>3, ListSame
<1>6. /\ Len(queue) \in Nat /\ DOMAIN queue = 1 .. Len(queue) /\ Len(queue) >= 1
      /\ Head(queue) = queue[1] /\ Head(queue) \in Slots
      /\ DOMAIN queue' = 1 .. Len(queue) - 1
      /\ \A i \in 1 .. Len(queue) - 1 : queue'[i] = queue[i + 1]
  <2>1. Len(queue) \in Nat /\ DOMAIN queue = 1 .. Len(queue) /\ Len(queue) # 0
    BY <1>1, IoFacts, LenProperties, EmptySeq
  <2>2. /\ Head(queue) = queue[1] /\ Head(queue) \in Slots
        /\ queue' \in Seq(Slots) /\ Len(queue') = Len(queue) - 1
        /\ \A i \in 1 .. Len(queue) - 1 : queue'[i] = queue[i + 1]
    BY <1>1, IoFacts, HeadTailProperties, ElementOfSeq
  <2>3. DOMAIN queue' = 1 .. Len(queue')
    BY <2>2, LenProperties
  <2> QED BY <2>1, <2>2, <2>3
<1>7. PICK m \in Slots : m = Head(queue)
  BY <1>6
<1>8. \A i, k \in 1 .. Len(queue) : queue[i] = queue[k] => i = k
  BY <1>6 DEF SlotsPlaced, Once
<1>9. Once(queue)'
  <2>1. SUFFICES ASSUME NEW i \in 1 .. Len(queue) - 1, NEW k \in 1 .. Len(queue) - 1,
                        queue'[i] = queue'[k]
                 PROVE  i = k
    BY <1>6 DEF Once
  <2>2. i + 1 = k + 1
    BY <1>6, <1>8, <2>1
  <2> QED BY <2>2
<1>10. \A s \in Slots :
         (\E i \in DOMAIN queue' : queue'[i] = s) <=> (\E i \in DOMAIN queue : queue[i] = s) /\ s # m
  <2>1. TAKE s \in Slots
  <2>2. ASSUME NEW i \in 1 .. Len(queue) - 1, queue'[i] = s
        PROVE  i + 1 \in 1 .. Len(queue) /\ queue[i + 1] = s /\ s # m
    BY <1>6, <1>7, <1>8, <2>2
  <2>3. ASSUME NEW i \in 1 .. Len(queue), queue[i] = s, s # m
        PROVE  i - 1 \in 1 .. Len(queue) - 1 /\ queue'[i - 1] = s
    <3>1. i # 1
      BY <1>6, <1>7, <2>3
    <3>2. i - 1 \in 1 .. Len(queue) - 1 /\ (i - 1) + 1 = i
      BY <1>6, <3>1
    <3> QED BY <1>6, <2>3, <3>2
  <2> QED BY <1>6, <2>2, <2>3
<1>11. Has(f, Queued, m)
  <2>1. \E i \in DOMAIN queue : queue[i] = m
    BY <1>6, <1>7
  <2> QED BY <2>1, HasForm
<1>12. mine[t] = NoSlot
  BY <1>1, <1>2 DEF IoInv, PointsOwned, Holding, CompletePoints, FreePoints
<1>13. \A s \in Slots, u \in Threads :
         (mine'[u] = s /\ pc'[u] # "deliver")
           <=> (mine[u] = s /\ pc[u] # "deliver") \/ (u = t /\ s = m)
  BY <1>3, <1>7, <1>12, NoSlotApart
<1>14. MovesSlot(f, f, m, Queued, InHand(t))
  BY <1>1, <1>2, <1>10, <1>13, PlaceFacts DEF MovesSlot, Shifted
<1>15. Once(f) /\ \A s \in Slots : jobs'[s] <= 1
  BY <1>1 DEF SlotsPlaced
<1>16. SlotsPlaced(f)'
  BY <1>2, <1>9, <1>11, <1>14, <1>15, SlotMoves, PlaceFacts
<1> QED BY <1>5, <1>16, ListWitness

LEMMA HandOverList ==
  ASSUME IoInv, NEW CONSTANT f \in SlotLists, FreeList(f), LinksHold(f), SlotsPlaced(f),
         NEW t \in IoThreads, HandOver(t)
  PROVE  ListAndPlaces'
<1>1. /\ queue' = queue /\ answering' = answering /\ leaked' = leaked
      /\ ready' = ready /\ entry' = entry
      /\ head' = head /\ link' = link /\ next' = next
      /\ pc[t] \in {"process", "reading"} /\ pc' = [pc EXCEPT ![t] = "wait"]
      /\ mine' = [mine EXCEPT ![t] = NoSlot] /\ seen' = [seen EXCEPT ![t] = NoSlot]
      /\ jobs' = [jobs EXCEPT ![mine[t]] = @ + 1]
  BY DEF HandOver, AccessDone, Release, freeList, completion, submission, At, Goto
<1>2. t \in Threads /\ t # Main
  BY ThreadFacts
<1>3. PICK m \in Slots : m = mine[t]
  BY <1>1, <1>2, HandFacts DEF Holding
<1>4. Has(f, InHand(t), m) /\ ~ (jobs[m] > 0)
  BY <1>1, <1>2, <1>3, InHandOnly
<1>5. \A u \in Threads : /\ pc'[u] = IF u = t THEN "wait" ELSE pc[u]
                         /\ u # t => seen'[u] = seen[u] /\ mine'[u] = mine[u]
                         /\ u = t => mine'[u] = NoSlot
  BY <1>1, IoFacts
<1>7. FreeList(f)' /\ LinksHold(f)'
  BY <1>1, <1>2, <1>5, ListSame
<1>8. \A s \in Slots : jobs'[s] = IF s = m THEN 1 ELSE jobs[s]
  BY <1>1, <1>3, <1>4, IoFacts
<1>9. Once(f) /\ Once(queue)' /\ \A s \in Slots : jobs'[s] <= 1
  BY <1>1, <1>8 DEF SlotsPlaced, Once
<1>10. \A s \in Slots, u \in Threads :
         (mine'[u] = s /\ pc'[u] # "deliver")
           <=> (mine[u] = s /\ pc[u] # "deliver") /\ ~ (u = t /\ s = m)
  BY <1>3, <1>5, NoSlotApart
<1>11. \A s \in Slots : jobs'[s] > 0 <=> jobs[s] > 0 \/ s = m
  BY <1>8
<1>12. MovesSlot(f, f, m, InHand(t), WithJob)
  BY <1>1, <1>2, <1>10, <1>11, PlaceFacts DEF MovesSlot, Shifted
<1>13. SlotsPlaced(f)'
  BY <1>2, <1>4, <1>9, <1>12, SlotMoves, PlaceFacts
<1> QED BY <1>7, <1>13, ListWitness

LEMMA RunProcessList ==
  ASSUME IoInv, NEW CONSTANT f \in SlotLists, FreeList(f), LinksHold(f), SlotsPlaced(f),
         NEW w \in Workers, RunProcess(w)
  PROVE  ListAndPlaces'
<1>1. /\ queue' = queue /\ answering' = answering /\ leaked' = leaked
      /\ ready' = ready /\ entry' = entry
      /\ head' = head /\ link' = link /\ next' = next /\ seen' = seen
      /\ pc[w] = "idle" /\ pc' = [pc EXCEPT ![w] = "reserve"]
  BY DEF RunProcess, freeList, completion, submission, At, Goto
<1>2. PICK m \in Slots :
        jobs[m] > 0 /\ jobs' = [jobs EXCEPT ![m] = @ - 1] /\ mine' = [mine EXCEPT ![w] = m]
  BY DEF RunProcess
<1>3. w \in Threads /\ w # Main
  BY ThreadFacts
<1>4. Has(f, WithJob, m) /\ mine[w] = NoSlot
  BY <1>1, <1>2, <1>3, HasForm DEF IoInv, PointsOwned, Holding, CompletePoints, FreePoints
<1>5. \A u \in Threads : /\ pc'[u] = IF u = w THEN "reserve" ELSE pc[u]
                         /\ mine'[u] = IF u = w THEN m ELSE mine[u]
  BY <1>1, <1>2, IoFacts
<1>7. FreeList(f)' /\ LinksHold(f)'
  BY <1>1, <1>3, <1>5, ListSame
<1>8. \A s \in Slots : jobs'[s] = IF s = m THEN 0 ELSE jobs[s]
  <2>1. jobs[m] = 1
    BY <1>2, IoFacts DEF SlotsPlaced
  <2> QED BY <1>2, <2>1, IoFacts
<1>9. Once(f) /\ Once(queue)' /\ \A s \in Slots : jobs'[s] <= 1
  BY <1>1, <1>8 DEF SlotsPlaced, Once
<1>10. \A s \in Slots, u \in Threads :
         (mine'[u] = s /\ pc'[u] # "deliver")
           <=> (mine[u] = s /\ pc[u] # "deliver") \/ (u = w /\ s = m)
  BY <1>1, <1>4, <1>5, NoSlotApart
<1>11. \A s \in Slots : jobs'[s] > 0 <=> jobs[s] > 0 /\ s # m
  BY <1>8
<1>12. MovesSlot(f, f, m, WithJob, InHand(w))
  BY <1>1, <1>3, <1>10, <1>11, PlaceFacts DEF MovesSlot, Shifted
<1>13. SlotsPlaced(f)'
  BY <1>3, <1>4, <1>9, <1>12, SlotMoves, PlaceFacts
<1> QED BY <1>7, <1>13, ListWitness

LEMMA LostList ==
  ASSUME IoInv, NEW CONSTANT f \in SlotLists, FreeList(f), LinksHold(f), SlotsPlaced(f), JobLost
  PROVE  ListAndPlaces'
<1>1. /\ queue' = queue /\ answering' = answering /\ ready' = ready /\ entry' = entry
      /\ head' = head /\ link' = link /\ next' = next /\ seen' = seen /\ mine' = mine /\ pc' = pc
  BY DEF JobLost, freeList, locals, completion, submission
<1>2. PICK m \in Slots :
        jobs[m] > 0 /\ jobs' = [jobs EXCEPT ![m] = @ - 1] /\ leaked' = leaked \cup {m}
  BY DEF JobLost
<1>3. Has(f, WithJob, m)
  BY <1>2, HasForm
<1>4. FreeList(f)' /\ LinksHold(f)'
  BY <1>1 DEF FreeList, LinksHold, Threads
<1>5. \A s \in Slots : jobs'[s] = IF s = m THEN 0 ELSE jobs[s]
  <2>1. jobs[m] = 1
    BY <1>2, IoFacts DEF SlotsPlaced
  <2> QED BY <1>2, <2>1, IoFacts
<1>6. Once(f) /\ Once(queue)' /\ \A s \in Slots : jobs'[s] <= 1
  BY <1>1, <1>5 DEF SlotsPlaced, Once
<1>7. \A s \in Slots : jobs'[s] > 0 <=> jobs[s] > 0 /\ s # m
  BY <1>5
<1>8. MovesSlot(f, f, m, WithJob, Leaked)
  BY <1>1, <1>2, <1>7, PlaceFacts DEF MovesSlot, Shifted
<1>9. SlotsPlaced(f)'
  BY <1>3, <1>6, <1>8, SlotMoves, PlaceFacts
<1> QED BY <1>4, <1>9, ListWitness

LEMMA PublishList ==
  ASSUME IoInv, NEW CONSTANT f \in SlotLists, FreeList(f), LinksHold(f), SlotsPlaced(f),
         NEW t \in IoThreads \cup Workers, Publish(t)
  PROVE  ListAndPlaces'
<1>1. /\ queue' = queue /\ answering' = answering /\ leaked' = leaked
      /\ jobs' = jobs /\ entry' = entry
      /\ head' = head /\ link' = link /\ next' = next
      /\ pc[t] = "publish"
      /\ pc' = [pc EXCEPT ![t] = IF t \in IoThreads THEN "wait" ELSE "idle"]
      /\ mine' = [mine EXCEPT ![t] = NoSlot] /\ seen' = [seen EXCEPT ![t] = NoSlot]
      /\ ready' = [ready EXCEPT ![place[t]] = TRUE]
  BY DEF Publish, Release, freeList, submission, At, Goto
<1>2. t \in Threads /\ t # Main
  BY ThreadFacts
<1>3. PICK m \in Slots : m = mine[t]
  BY <1>1, <1>2, HandFacts DEF Holding, CompletePoints
<1>4. Has(f, InHand(t), m)
  BY <1>1, <1>2, <1>3, InHandOnly
<1>5. \A u \in Threads : /\ pc'[u] = IF u # t THEN pc[u]
                                     ELSE IF t \in IoThreads THEN "wait" ELSE "idle"
                         /\ u # t => seen'[u] = seen[u] /\ mine'[u] = mine[u]
                         /\ u = t => mine'[u] = NoSlot
  BY <1>1, IoFacts
<1>7. FreeList(f)' /\ LinksHold(f)'
  BY <1>1, <1>2, <1>5, ListSame
<1>8. PICK p \in Slots : p = place[t]
  BY <1>2, IoFacts
<1>9. ~ ready[p] /\ entry[p] = m
  BY <1>1, <1>2, <1>3, <1>8 DEF IoInv, EntriesReserved, Entering
<1>10. \A s \in Slots, i \in Slots :
         (ready'[i] /\ entry'[i] = s) <=> (ready[i] /\ entry[i] = s) \/ (i = p /\ s = m)
  BY <1>1, <1>8, <1>9, IoFacts
<1>11. Once(f) /\ Once(queue)' /\ \A s \in Slots : jobs'[s] <= 1
  BY <1>1 DEF SlotsPlaced, Once
<1>12. \A s \in Slots, u \in Threads :
         (mine'[u] = s /\ pc'[u] # "deliver")
           <=> (mine[u] = s /\ pc[u] # "deliver") /\ ~ (u = t /\ s = m)
  BY <1>3, <1>5, NoSlotApart
<1>13. MovesSlot(f, f, m, InHand(t), InEntry(p))
  BY <1>1, <1>2, <1>10, <1>12, PlaceFacts DEF MovesSlot, Shifted
<1>14. SlotsPlaced(f)'
  BY <1>2, <1>4, <1>11, <1>13, SlotMoves, PlaceFacts
<1> QED BY <1>7, <1>14, ListWitness

LEMMA DeliverList ==
  ASSUME IoInv, NEW CONSTANT f \in SlotLists, FreeList(f), LinksHold(f), SlotsPlaced(f), Deliver
  PROVE  ListAndPlaces'
<1>1. /\ leaked' = leaked /\ queue' = queue /\ jobs' = jobs /\ entry' = entry
      /\ head' = head /\ link' = link /\ next' = next
      /\ pc[Main] = "deliver" /\ pc' = [pc EXCEPT ![Main] = "idle"]
      /\ mine' = [mine EXCEPT ![Main] = NoSlot] /\ seen' = [seen EXCEPT ![Main] = NoSlot]
      /\ ready' = [ready EXCEPT ![NextComplete] = FALSE] /\ answering' = mine[Main]
  BY ThreadFacts DEF Deliver, Release, freeList, submission, At, Goto
<1>2. PICK m \in Slots : m = mine[Main]
  BY <1>1, HandFacts, ThreadFacts DEF Holding
<1>3. PICK p \in Slots : p = NextComplete
  BY Places01, IoFacts DEF NextComplete
<1>4. ready[p] /\ entry[p] = m
  BY <1>1, <1>2, <1>3 DEF IoInv, EntriesReserved
<1>5. Has(f, InEntry(p), m)
  BY <1>4, HasForm
<1>6. \A u \in Threads : /\ pc'[u] = IF u = Main THEN "idle" ELSE pc[u]
                         /\ u # Main => seen'[u] = seen[u] /\ mine'[u] = mine[u]
                         /\ u = Main => mine'[u] = NoSlot
  BY <1>1, IoFacts
<1>8. FreeList(f)' /\ LinksHold(f)'
  BY <1>1, <1>6, ListSame, ThreadFacts
<1>9. \A s \in Slots, i \in Slots :
        (ready'[i] /\ entry'[i] = s) <=> (ready[i] /\ entry[i] = s) /\ ~ (i = p /\ s = m)
  BY <1>1, <1>3, <1>4, IoFacts
<1>10. answering = NoSlot
  BY <1>1 DEF IoInv, PointsOwned, SubmitPoints
<1>11. \A s \in Slots : answering' = s <=> answering = s \/ s = m
  BY <1>1, <1>2, <1>10, NoSlotApart
<1>12. \A s \in Slots, u \in Threads :
         (mine'[u] = s /\ pc'[u] # "deliver") <=> (mine[u] = s /\ pc[u] # "deliver")
  BY <1>1, <1>6, NoSlotApart
<1>13. Once(f) /\ Once(queue)' /\ \A s \in Slots : jobs'[s] <= 1
  BY <1>1 DEF SlotsPlaced, Once
<1>14. MovesSlot(f, f, m, InEntry(p), InAnswer)
  BY <1>1, <1>9, <1>11, <1>12, PlaceFacts DEF MovesSlot, Shifted
<1>15. SlotsPlaced(f)'
  BY <1>5, <1>13, <1>14, SlotMoves, PlaceFacts
<1> QED BY <1>8, <1>15, ListWitness

\* The main thread keeps the request whose onComplete is not there.
LEMMA CallNullList ==
  ASSUME IoInv, NEW CONSTANT f \in SlotLists, FreeList(f), LinksHold(f), SlotsPlaced(f), CallNull
  PROVE  ListAndPlaces'
<1>1. /\ leaked' = leaked /\ queue' = queue /\ jobs' = jobs /\ entry' = entry
      /\ head' = head /\ link' = link /\ next' = next /\ seen' = seen /\ mine' = mine
      /\ pc[Main] = "deliver" /\ pc' = [pc EXCEPT ![Main] = "nullCall"]
      /\ ready' = [ready EXCEPT ![NextComplete] = FALSE] /\ answering' = answering
  BY DEF CallNull, freeList, locals, submission, At, Goto
<1>2. PICK m \in Slots : m = mine[Main]
  BY <1>1, HandFacts, ThreadFacts DEF Holding
<1>3. PICK p \in Slots : p = NextComplete
  BY Places01, IoFacts DEF NextComplete
<1>4. ready[p] /\ entry[p] = m
  BY <1>1, <1>2, <1>3 DEF IoInv, EntriesReserved
<1>5. Has(f, InEntry(p), m)
  BY <1>4, HasForm
<1>6. \A u \in Threads : pc'[u] = IF u = Main THEN "nullCall" ELSE pc[u]
  BY <1>1, IoFacts
<1>7. FreeList(f)' /\ LinksHold(f)'
  BY <1>1, <1>6, ListSame, ThreadFacts
<1>8. \A s \in Slots, i \in Slots :
        (ready'[i] /\ entry'[i] = s) <=> (ready[i] /\ entry[i] = s) /\ ~ (i = p /\ s = m)
  BY <1>1, <1>3, <1>4, IoFacts
<1>9. \A s \in Slots, u \in Threads :
        (mine'[u] = s /\ pc'[u] # "deliver")
          <=> (mine[u] = s /\ pc[u] # "deliver") \/ (u = Main /\ s = m)
  BY <1>1, <1>2, <1>6
<1>10. Once(f) /\ Once(queue)' /\ \A s \in Slots : jobs'[s] <= 1
  BY <1>1 DEF SlotsPlaced, Once
<1>11. MovesSlot(f, f, m, InEntry(p), InHand(Main))
  BY <1>1, <1>8, <1>9, PlaceFacts, ThreadFacts DEF MovesSlot, Shifted
<1>12. SlotsPlaced(f)'
  BY <1>5, <1>10, <1>11, SlotMoves, PlaceFacts, ThreadFacts
<1> QED BY <1>7, <1>12, ListWitness

LEMMA AnsweredList ==
  ASSUME IoInv, NEW CONSTANT f \in SlotLists, FreeList(f), LinksHold(f), SlotsPlaced(f), Answered
  PROVE  ListAndPlaces'
<1>1. /\ leaked' = leaked /\ queue' = queue /\ jobs' = jobs /\ entry' = entry /\ ready' = ready
      /\ head' = head /\ link' = link /\ next' = next /\ seen' = seen
      /\ pc[Main] = "idle" /\ pc' = [pc EXCEPT ![Main] = "free"]
      /\ mine' = [mine EXCEPT ![Main] = answering] /\ answering' = NoSlot /\ answering # NoSlot
  BY DEF Answered, freeList, completion, submission, At, Goto
<1>2. PICK m \in Slots : m = answering
  BY <1>1 DEF IoInv, TypeOK
<1>3. Has(f, InAnswer, m) /\ mine[Main] = NoSlot
  BY <1>1, <1>2, HasForm, ThreadFacts DEF IoInv, PointsOwned, Holding, CompletePoints, FreePoints
<1>4. \A u \in Threads : /\ pc'[u] = IF u = Main THEN "free" ELSE pc[u]
                         /\ mine'[u] = IF u = Main THEN m ELSE mine[u]
  BY <1>1, <1>2, IoFacts
<1>6. FreeList(f)' /\ LinksHold(f)'
  BY <1>1, <1>4, ListSame, ThreadFacts
<1>7. \A s \in Slots : answering' = s <=> answering = s /\ s # m
  BY <1>1, <1>2, NoSlotApart
<1>8. \A s \in Slots, u \in Threads :
        (mine'[u] = s /\ pc'[u] # "deliver")
          <=> (mine[u] = s /\ pc[u] # "deliver") \/ (u = Main /\ s = m)
  BY <1>1, <1>3, <1>4, NoSlotApart
<1>9. Once(f) /\ Once(queue)' /\ \A s \in Slots : jobs'[s] <= 1
  BY <1>1 DEF SlotsPlaced, Once
<1>10. MovesSlot(f, f, m, InAnswer, InHand(Main))
  BY <1>1, <1>7, <1>8, PlaceFacts, ThreadFacts DEF MovesSlot, Shifted
<1>11. SlotsPlaced(f)'
  BY <1>3, <1>9, <1>10, SlotMoves, PlaceFacts, ThreadFacts
<1> QED BY <1>6, <1>11, ListWitness

LEMMA ListStep == IoInv /\ [Next]_vars => ListAndPlaces'
<1> SUFFICES ASSUME IoInv, [Next]_vars PROVE ListAndPlaces'
  OBVIOUS
<1>0. PICK f \in SlotLists : FreeList(f) /\ LinksHold(f) /\ SlotsPlaced(f)
  BY DEF IoInv, ListAndPlaces
<1>1. CASE UNCHANGED vars
  <2>1. /\ head' = head /\ link' = link /\ next' = next /\ seen' = seen /\ mine' = mine /\ pc' = pc
        /\ queue' = queue /\ jobs' = jobs /\ answering' = answering
        /\ ready' = ready /\ entry' = entry /\ leaked' = leaked
    BY <1>1 DEF vars, freeList, completion, submission, locals
  <2>2. FreeList(f)'
    BY <1>0, <2>1 DEF FreeList
  <2>3. LinksHold(f)'
    BY <1>0, <2>1 DEF LinksHold, Threads
  <2>4. SlotsPlaced(f)'
    BY <1>0, <2>1, SlotsStay
  <2> QED BY <2>2, <2>3, <2>4, ListWitness
<1>2. CASE Submit
  BY <1>0, <1>2, AllocateList, AllocateSwapList, SubmitPushList, SubmitFailsList, MainQuiet
     DEF Submit
<1>3. CASE Update
  BY <1>0, <1>3, TakeList, DeliverList, CallNullList, AnsweredList, FreeLinkList, FreeSwapList, ThreadFacts
     DEF Update
<1>4. CASE Shutdown
  BY <1>0, <1>4, MainQuiet
<1>5. ASSUME NEW t \in IoThreads, Io(t) PROVE ListAndPlaces'
  BY <1>0, <1>5, IoQuiet, PopList, HandOverList, FreeLinkList, FreeSwapList, PublishList, ThreadFacts
     DEF Io, SubmitComplete
<1>6. ASSUME NEW w \in Workers, Worker(w) PROVE ListAndPlaces'
  BY <1>0, <1>6, RunProcessList, IoQuiet, PublishList DEF Worker, SubmitComplete
<1> QED BY <1>0, <1>1, <1>2, <1>3, <1>4, <1>5, <1>6, LostList DEF Next

----------------------------------------------------------------------------
(* The list of completed requests *)

\* Two reservations that are less than a lap apart have different entries.
LEMMA EntryInjective ==
  ASSUME NEW p \in Nat, NEW q \in Nat, p <= q, q < p + PoolSize, p % PoolSize = q % PoolSize
  PROVE  p = q
<1>1. PoolSize \in Nat /\ PoolSize > 0 /\ p \in Int /\ q \in Int
  OBVIOUS
<1> QED BY <1>1, ModInjective

\* Every entry is met in a lap.
LEMMA EntryInLap ==
  ASSUME NEW b \in Nat, NEW i \in Slots
  PROVE  \E p \in b .. b + PoolSize - 1 : p % PoolSize = i
<1> DEFINE N == PoolSize
<1> DEFINE r == b % N
<1> DEFINE k == b \div N
<1>1. N \in Nat /\ N > 0 /\ i \in 0 .. N - 1
  BY DEF Slots
<1>2. r \in 0 .. N - 1 /\ k \in Int /\ b = N * k + r
  BY <1>1, DivMod
<1> DEFINE p == IF i >= r THEN b + (i - r) ELSE b + (i - r) + N
<1>3. p \in b .. b + N - 1 /\ p \in Int
  BY <1>1, <1>2
<1>4. p % N = i
  <2> DEFINE l == p \div N
  <2> DEFINE m == p % N
  <2>1. m \in 0 .. N - 1 /\ l \in Int /\ p = N * l + m
    BY <1>1, <1>3, DivMod
  <2>2. p = N * k + i \/ p = N * k + N + i
    BY <1>1, <1>2
  <2> HIDE DEF p, l, m, r, k, N
  <2>3. PICK e \in {k, k + 1} : p = N * e + i
    <3>1. N * (k + 1) = N * k + N
      BY <1>1, <1>2
    <3> QED BY <1>2, <2>2, <3>1
  <2>4. e \in Int /\ N * (l - e) = i - m
    <3>1. N * (l - e) = N * l - N * e
      BY <1>1, <1>2, <2>1, <2>3
    <3> QED BY <1>1, <1>2, <2>1, <2>3, <3>1
  <2>5. l - e = 0
    BY <1>1, <1>2, <2>1, <2>3, <2>4, NoMultiple
  <2>6. m = i
    <3>1. N * 0 = 0
      BY <1>1
    <3> QED BY <1>1, <2>1, <2>4, <2>5, <3>1
  <2> QED BY <2>6 DEF m
<1> QED BY <1>3, <1>4

LEMMA EntryFacts ==
  ASSUME IoInv
  PROVE  /\ completeTail \in Nat /\ completeHead \in Nat
         /\ completeTail <= completeHead /\ completeHead <= completeTail + PoolSize
         /\ \A p \in Reserved : Used(p % PoolSize)
         /\ \A i \in Slots : Used(i) => \E p \in Reserved : p % PoolSize = i
         /\ \A t, u \in Threads : Entering(t) /\ Entering(u) /\ place[t] = place[u] => t = u
         /\ \A t \in Threads : Entering(t) => ~ ready[place[t]]
         /\ \A t \in Threads : pc[t] = "publish" => entry[place[t]] = mine[t]
         /\ pc[Main] = "deliver" => ready[NextComplete] /\ entry[NextComplete] = mine[Main]
BY IoFacts DEF IoInv, EntriesReserved

\* The list has room for the request that a thread is about to reserve an entry
\* for: each entry in use has a slot of its own, and this one is not among them.
LEMMA RoomForEntry ==
  ASSUME IoInv, NEW t \in Threads, pc[t] = "reserve"
  PROVE  completeHead < completeTail + PoolSize
<1> SUFFICES ASSUME completeHead = completeTail + PoolSize PROVE FALSE
  BY EntryFacts
<1>0. PICK f \in SlotLists : SlotsPlaced(f)
  BY DEF IoInv, ListAndPlaces
<1>1. \A i \in Slots : Used(i)
  <2>1. TAKE i \in Slots
  <2>2. PICK p \in completeTail .. completeTail + PoolSize - 1 : p % PoolSize = i
    BY EntryFacts, EntryInLap
  <2>3. p \in Reserved
    BY <2>2, EntryFacts DEF Reserved
  <2> QED BY <2>2, <2>3, EntryFacts
<1>2. mine[t] \in Slots /\ Has(f, InHand(t), mine[t])
  BY <1>0, HandFacts, InHandOnly DEF Holding, CompletePoints
<1> DEFINE Fills(i, s) == \/ ready[i] /\ entry[i] = s
                          \/ \E u \in Threads : Entering(u) /\ place[u] = i /\ mine[u] = s
<1>3. \A i \in Slots : \E s \in Slots \ {mine[t]} : Fills(i, s)
  <2>1. TAKE i \in Slots
  <2>2. CASE ready[i]
    <3>1. entry[i] \in Slots /\ entry[i] # mine[t]
      BY <1>0, <1>2, <2>2, InHandOnly, IoFacts
    <3> QED BY <2>2, <3>1
  <2>3. CASE \E u \in Threads : Entering(u) /\ place[u] = i
    <3>1. PICK u \in Threads : Entering(u) /\ place[u] = i
      BY <2>3
    <3>2. u # t /\ mine[u] \in Slots /\ pc[u] # "deliver"
      BY <3>1, HandFacts DEF Entering, Holding, CompletePoints
    <3>3. mine[u] # mine[t]
      BY <1>0, <1>2, <3>2, InHandOnly
    <3> QED BY <3>1, <3>2, <3>3
  <2> QED BY <1>1, <2>2, <2>3 DEF Used
<1>4. \A i, k, s \in Slots : Fills(i, s) /\ Fills(k, s) => i = k
  <2>1. SUFFICES ASSUME NEW i \in Slots, NEW k \in Slots, NEW s \in Slots, Fills(i, s), Fills(k, s)
                 PROVE  i = k
    OBVIOUS
  <2>2. \A x, y \in Places : Has(f, x, s) /\ Has(f, y, s) => x = y
    BY <1>0 DEF SlotsPlaced
  <2>3. ASSUME NEW j \in Slots, Fills(j, s)
        PROVE  \/ Has(f, InEntry(j), s)
               \/ \E u \in Threads : Entering(u) /\ place[u] = j /\ Has(f, InHand(u), s)
    <3>1. CASE ready[j] /\ entry[j] = s
      BY <3>1, HasForm
    <3>2. CASE \E u \in Threads : Entering(u) /\ place[u] = j /\ mine[u] = s
      BY <3>2, HasForm DEF Entering, At
    <3> QED BY <2>3, <3>1, <3>2
  <2>4. \/ Has(f, InEntry(i), s)
        \/ \E u \in Threads : Entering(u) /\ place[u] = i /\ Has(f, InHand(u), s)
    BY <2>1, <2>3
  <2>5. \/ Has(f, InEntry(k), s)
        \/ \E u \in Threads : Entering(u) /\ place[u] = k /\ Has(f, InHand(u), s)
    BY <2>1, <2>3
  <2> QED BY <2>2, <2>4, <2>5, PlaceFacts
<1> HIDE DEF Fills
<1>5. PICK h \in [Slots -> Slots \ {mine[t]}] : \A i \in Slots : Fills(i, h[i])
  <2> DEFINE g == [i \in Slots |-> CHOOSE s \in Slots \ {mine[t]} : Fills(i, s)]
  <2>1. \A i \in Slots : g[i] \in Slots \ {mine[t]} /\ Fills(i, g[i])
    BY <1>3
  <2>2. g \in [Slots -> Slots \ {mine[t]}]
    BY <2>1
  <2> QED BY <2>1, <2>2
<1>6. IsFiniteSet(Slots) /\ Cardinality(Slots) = PoolSize
  BY FS_Interval DEF Slots
<1>7. IsFiniteSet(Slots \ {mine[t]}) /\ Cardinality(Slots \ {mine[t]}) = PoolSize - 1
  BY <1>2, <1>6, FS_RemoveElement
<1>8. \E i, k \in Slots : i # k /\ h[i] = h[k]
  BY <1>5, <1>6, <1>7, FS_PigeonHole
<1> QED BY <1>4, <1>5, <1>8

LEMMA ReserveEntries ==
  ASSUME IoInv, NEW t \in IoThreads \cup Workers, Reserve(t)
  PROVE  EntriesReserved'
<1> DEFINE h == completeHead % PoolSize
<1>1. /\ ready' = ready /\ entry' = entry /\ completeTail' = completeTail /\ mine' = mine
      /\ completeHead' = completeHead + 1
      /\ pc[t] = "reserve" /\ pc' = [pc EXCEPT ![t] = "enter"]
      /\ place' = [place EXCEPT ![t] = h]
  BY DEF Reserve, At, Goto
<1>2. t \in Threads /\ t # Main /\ Main \in Threads
  BY ThreadFacts
<1>3. completeHead < completeTail + PoolSize
  BY <1>1, <1>2, RoomForEntry
<1>4. h \in Slots /\ completeHead \in Nat /\ completeTail \in Nat /\ completeTail <= completeHead
  BY Places01, EntryFacts
<1>5. ~ Used(h)
  <2>1. SUFFICES ASSUME NEW p \in Reserved, p % PoolSize = h PROVE FALSE
    BY <1>4, EntryFacts
  <2>2. p \in Nat /\ p <= completeHead /\ completeHead < p + PoolSize /\ p # completeHead
    BY <1>3, <1>4 DEF Reserved
  <2> QED BY <1>4, <2>1, <2>2, EntryInjective
<1> HIDE DEF h
<1>6. \A u \in Threads : /\ pc'[u] = IF u = t THEN "enter" ELSE pc[u]
                         /\ place'[u] = IF u = t THEN h ELSE place[u]
  BY <1>1, IoFacts
<1>7. \A u \in Threads : Entering(u)' <=> Entering(u) \/ u = t
  BY <1>6 DEF Entering
<1>8. ~ Entering(t)
  BY <1>1 DEF Entering
<1>9. \A i \in Slots : Used(i)' <=> Used(i) \/ i = h
  <2>1. TAKE i \in Slots
  <2>2. Used(i)' <=> ready[i] \/ \E u \in Threads : Entering(u)' /\ place'[u] = i
    BY <1>1 DEF Used, Threads, Entering
  <2>3. (\E u \in Threads : Entering(u)' /\ place'[u] = i)
          <=> (\E u \in Threads : Entering(u) /\ place[u] = i) \/ i = h
    BY <1>2, <1>6, <1>7, <1>8
  <2> QED BY <2>2, <2>3 DEF Used
<1>10. /\ \A p : p \in Reserved' <=> p \in Reserved \/ p = completeHead
       /\ \A p \in Reserved' : p \in Nat
  BY <1>1, <1>4 DEF Reserved
<1>11. \A p \in Reserved' : Used(p % PoolSize)'
  <2>1. TAKE p \in Reserved'
  <2>2. p \in Nat /\ p % PoolSize \in Slots /\ (p \in Reserved \/ p = completeHead)
    BY <1>10, Places01
  <2>3. Used(p % PoolSize) \/ p % PoolSize = h
    BY <2>2, EntryFacts DEF h
  <2> QED BY <1>9, <2>2, <2>3 DEF Used, Entering
<1>12. \A i \in Slots : Used(i)' => \E p \in Reserved' : p % PoolSize = i
  <2>1. TAKE i \in Slots
  <2>2. Used(i) => \E p \in Reserved' : p % PoolSize = i
    BY <1>10, EntryFacts
  <2>3. i = h => completeHead \in Reserved' /\ completeHead % PoolSize = i
    BY <1>10 DEF h
  <2> QED BY <1>9, <2>2, <2>3
<1>13. \A u \in Threads : Entering(u) => place[u] # h
  BY <1>5 DEF Used
<1>14. \A u, v \in Threads : Entering(u)' /\ Entering(v)' /\ place'[u] = place'[v] => u = v
  BY <1>6, <1>7, <1>13, EntryFacts
<1>15. \A u \in Threads : Entering(u)' => ~ ready'[place'[u]]
  BY <1>1, <1>5, <1>6, <1>7, EntryFacts DEF Used
<1>16. \A u \in Threads : pc'[u] = "publish" => entry'[place'[u]] = mine'[u]
  BY <1>1, <1>6, EntryFacts
<1>17. pc'[Main] = "deliver" => ready'[NextComplete'] /\ entry'[NextComplete'] = mine'[Main]
  BY <1>1, <1>2, <1>6, EntryFacts DEF NextComplete
<1>18. completeTail' <= completeHead' /\ completeHead' <= completeTail' + PoolSize
  BY <1>1, <1>3, <1>4
<1> QED BY <1>11, <1>12, <1>14, <1>15, <1>16, <1>17, <1>18
        DEF EntriesReserved, Threads, Slots

\* Steps that leave the list of completed requests alone.
LEMMA EntriesSame ==
  ASSUME IoInv, ready' = ready, entry' = entry, completeHead' = completeHead,
         completeTail' = completeTail, place' = place,
         \A t \in Threads : Entering(t)' <=> Entering(t),
         \A t \in Threads : pc'[t] = "publish" => pc[t] = "publish" /\ mine'[t] = mine[t],
         pc'[Main] = "deliver" => ready[NextComplete] /\ entry[NextComplete] = mine'[Main]
  PROVE  EntriesReserved'
<1>1. Reserved' = Reserved /\ NextComplete' = NextComplete /\ Threads' = Threads
  BY DEF Reserved, NextComplete, Threads
<1>2. \A i : Used(i)' <=> Used(i)
  <2>1. TAKE i
  <2>2. Used(i)' <=> ready[i] \/ \E t \in Threads : Entering(t)' /\ place[t] = i
    BY DEF Used, Entering, Threads
  <2> QED BY <2>2 DEF Used
<1>3. \A p \in Reserved : Used(p % PoolSize)'
  <2>1. TAKE p \in Reserved
  <2>2. PICK i : i = p % PoolSize
    OBVIOUS
  <2>3. Used(i)'
    BY <1>2, <2>2, EntryFacts
  <2> QED BY <2>2, <2>3 DEF Used, Entering
<1>4. \A i \in Slots : Used(i)' => \E p \in Reserved : p % PoolSize = i
  BY <1>2, EntryFacts
<1>5. \A t, u \in Threads : Entering(t)' /\ Entering(u)' /\ place[t] = place[u] => t = u
  BY EntryFacts
<1>6. \A t \in Threads : Entering(t)' => ~ ready[place[t]]
  BY EntryFacts
<1>7. \A t \in Threads : pc'[t] = "publish" => entry[place[t]] = mine'[t]
  BY EntryFacts
<1> QED BY <1>1, <1>3, <1>4, <1>5, <1>6, <1>7, EntryFacts DEF EntriesReserved, Slots

LEMMA EnterEntries ==
  ASSUME IoInv, NEW t \in IoThreads \cup Workers, Enter(t)
  PROVE  EntriesReserved'
<1>1. /\ ready' = ready /\ completeTail' = completeTail /\ mine' = mine
      /\ completeHead' = completeHead /\ place' = place
      /\ pc[t] = "enter" /\ pc' = [pc EXCEPT ![t] = "publish"]
      /\ entry' = [entry EXCEPT ![place[t]] = mine[t]]
  BY DEF Enter, At, Goto, locals
<1>2. t \in Threads /\ t # Main /\ Main \in Threads
  BY ThreadFacts
<1>3. PICK k \in Slots : k = place[t]
  BY <1>2, IoFacts
<1>4. \A u \in Threads : pc'[u] = IF u = t THEN "publish" ELSE pc[u]
  BY <1>1, IoFacts
<1>5. \A u \in Threads : Entering(u)' <=> Entering(u)
  BY <1>1, <1>4 DEF Entering
<1>6. \A i \in Slots : entry'[i] = IF i = k THEN mine[t] ELSE entry[i]
  BY <1>1, <1>3, IoFacts
<1>7. Reserved' = Reserved /\ NextComplete' = NextComplete /\ Threads' = Threads
  BY <1>1 DEF Reserved, NextComplete, Threads
<1>8. \A i : Used(i)' <=> Used(i)
  <2>1. TAKE i
  <2>2. Used(i)' <=> ready[i] \/ \E u \in Threads : Entering(u)' /\ place[u] = i
    BY <1>1 DEF Used, Entering, Threads
  <2> QED BY <1>5, <2>2 DEF Used
<1>9. \A p \in Reserved : Used(p % PoolSize)'
  <2>1. TAKE p \in Reserved
  <2>2. PICK i : i = p % PoolSize
    OBVIOUS
  <2>3. Used(i)'
    BY <1>8, <2>2, EntryFacts
  <2> QED BY <2>2, <2>3 DEF Used, Entering
<1>10. \A i \in Slots : Used(i)' => \E p \in Reserved : p % PoolSize = i
  BY <1>8, EntryFacts
<1>11. \A u, v \in Threads : Entering(u)' /\ Entering(v)' /\ place[u] = place[v] => u = v
  BY <1>5, EntryFacts
<1>12. \A u \in Threads : Entering(u)' => ~ ready[place[u]]
  BY <1>5, EntryFacts
<1>13. \A u \in Threads : pc'[u] = "publish" => entry'[place[u]] = mine[u]
  <2>1. TAKE u \in Threads
  <2>2. CASE u = t
    BY <1>3, <1>6, <2>2
  <2>3. CASE u # t
    <3>1. SUFFICES ASSUME pc[u] = "publish" PROVE entry'[place[u]] = mine[u]
      BY <1>4, <2>3
    <3>2. place[u] \in Slots /\ entry[place[u]] = mine[u] /\ place[u] # k
      BY <1>1, <1>2, <1>3, <2>3, <3>1, EntryFacts, IoFacts DEF Entering
    <3> QED BY <1>6, <3>2
  <2> QED BY <2>2, <2>3
<1>14. pc'[Main] = "deliver" => ready[NextComplete] /\ entry'[NextComplete] = mine[Main]
  <2>1. NextComplete \in Slots /\ ~ ready[k]
    BY <1>1, <1>2, <1>3, Places01, EntryFacts DEF NextComplete, Entering
  <2> QED BY <1>2, <1>4, <1>6, <2>1, EntryFacts
<1> QED BY <1>1, <1>7, <1>9, <1>10, <1>11, <1>12, <1>13, <1>14, EntryFacts DEF EntriesReserved, Slots

LEMMA PublishEntries ==
  ASSUME IoInv, NEW t \in IoThreads \cup Workers, Publish(t)
  PROVE  EntriesReserved'
<1>1. /\ entry' = entry /\ completeTail' = completeTail
      /\ completeHead' = completeHead /\ place' = [place EXCEPT ![t] = 0]
      /\ pc[t] = "publish" /\ mine' = [mine EXCEPT ![t] = NoSlot]
      /\ pc' = [pc EXCEPT ![t] = IF t \in IoThreads THEN "wait" ELSE "idle"]
      /\ ready' = [ready EXCEPT ![place[t]] = TRUE]
  BY DEF Publish, Release, At, Goto
<1>2. t \in Threads /\ t # Main /\ Main \in Threads
  BY ThreadFacts
<1>3. PICK k \in Slots : k = place[t]
  BY <1>2, IoFacts
<1>4. \A u \in Threads : /\ u # t => /\ pc'[u] = pc[u] /\ mine'[u] = mine[u]
                                    /\ place'[u] = place[u]
                         /\ u = t => pc'[u] \in {"wait", "idle"}
  BY <1>1, IoFacts
<1>5. \A u \in Threads : Entering(u)' <=> Entering(u) /\ u # t
  BY <1>4 DEF Entering
<1>6. Entering(t)
  BY <1>1 DEF Entering
<1>7. \A i \in Slots : ready'[i] <=> ready[i] \/ i = k
  BY <1>1, <1>3, IoFacts
<1>8. Reserved' = Reserved /\ NextComplete' = NextComplete /\ Threads' = Threads
  BY <1>1 DEF Reserved, NextComplete, Threads
<1>9. \A i \in Slots : Used(i)' <=> Used(i)
  <2>1. TAKE i \in Slots
  <2>2. Used(i)' <=> ready'[i] \/ \E u \in Threads : Entering(u)' /\ place'[u] = i
    BY <1>1 DEF Used, Entering, Threads
  <2> QED BY <1>2, <1>3, <1>4, <1>5, <1>6, <1>7, <2>2 DEF Used
<1>10. \A p \in Reserved : Used(p % PoolSize)'
  <2>1. TAKE p \in Reserved
  <2>2. PICK i \in Slots : i = p % PoolSize
    BY Places01, EntryFacts DEF Reserved
  <2>3. Used(i)'
    BY <1>9, <2>2, EntryFacts
  <2> QED BY <2>2, <2>3 DEF Used, Entering
<1>11. \A i \in Slots : Used(i)' => \E p \in Reserved : p % PoolSize = i
  BY <1>9, EntryFacts
<1>12. \A u, v \in Threads : Entering(u)' /\ Entering(v)' /\ place'[u] = place'[v] => u = v
  BY <1>4, <1>5, EntryFacts
<1>13. \A u \in Threads : Entering(u)' => ~ ready'[place'[u]]
  <2>1. \A u \in Threads : Entering(u)' => place[u] # k /\ place[u] \in Slots
    BY <1>2, <1>3, <1>5, <1>6, EntryFacts, IoFacts
  <2> QED BY <1>4, <1>5, <1>7, <2>1, EntryFacts
<1>14. \A u \in Threads : pc'[u] = "publish" => entry[place'[u]] = mine'[u]
  BY <1>4, EntryFacts
<1>15. pc'[Main] = "deliver" => ready'[NextComplete] /\ entry[NextComplete] = mine'[Main]
  <2>1. NextComplete \in Slots
    BY Places01, EntryFacts DEF NextComplete
  <2> QED BY <1>2, <1>4, <1>7, <2>1, EntryFacts
<1> QED BY <1>1, <1>8, <1>10, <1>11, <1>12, <1>13, <1>14, <1>15, EntryFacts
        DEF EntriesReserved, Slots

\* The entry at the tail is given back; it is not reserved again before.
LEMMA DeliverEntries ==
  ASSUME IoInv, Deliver \/ CallNull
  PROVE  EntriesReserved'
<1>1. /\ entry' = entry /\ completeTail' = completeTail + 1
      /\ completeHead' = completeHead /\ place' = place
      /\ pc[Main] = "deliver" /\ (mine' = [mine EXCEPT ![Main] = NoSlot] \/ mine' = mine)
      /\ \E x \in {"idle", "nullCall"} : pc' = [pc EXCEPT ![Main] = x]
      /\ ready' = [ready EXCEPT ![NextComplete] = FALSE]
  BY ThreadFacts DEF Deliver, CallNull, Release, At, Goto, locals
<1>2. Main \in Threads
  BY ThreadFacts
<1>3. PICK k \in Slots : k = NextComplete
  BY Places01, EntryFacts DEF NextComplete
<1>4. ready[k] /\ Used(k)
  BY <1>1, <1>3, EntryFacts DEF Used
<1>5. \A u \in Threads : /\ u # Main => pc'[u] = pc[u] /\ mine'[u] = mine[u]
                         /\ u = Main => pc'[u] \in {"idle", "nullCall"}
  BY <1>1, IoFacts
<1>6. \A u \in Threads : Entering(u)' <=> Entering(u)
  BY <1>1, <1>5 DEF Entering
<1>7. \A i \in Slots : ready'[i] <=> ready[i] /\ i # k
  BY <1>1, <1>3, IoFacts
<1>8. \A u \in Threads : Entering(u) => place[u] # k
  BY <1>4, EntryFacts
<1>9. \A i \in Slots : Used(i)' <=> Used(i) /\ i # k
  <2>1. TAKE i \in Slots
  <2>2. Used(i)' <=> ready'[i] \/ \E u \in Threads : Entering(u)' /\ place[u] = i
    BY <1>1 DEF Used, Entering, Threads
  <2> QED BY <1>6, <1>7, <1>8, <2>2 DEF Used
<1>10. completeTail < completeHead
  <2>1. PICK p \in Reserved : p % PoolSize = k
    BY <1>4, EntryFacts
  <2> QED BY <2>1, EntryFacts DEF Reserved
<1>11. /\ \A p : p \in Reserved' <=> p \in Reserved /\ p # completeTail
       /\ \A p \in Reserved : p \in Nat
  BY <1>1, <1>10, EntryFacts DEF Reserved
<1>12. \A p \in Reserved' : Used(p % PoolSize)'
  <2>1. TAKE p \in Reserved'
  <2>2. p \in Nat /\ p \in Reserved /\ p # completeTail
    BY <1>11
  <2>3. PICK i \in Slots : i = p % PoolSize
    BY <2>2, Places01
  <2>4. i # k
    <3>1. completeTail \in Nat /\ completeTail <= p /\ p < completeTail + PoolSize
      BY <2>2, EntryFacts DEF Reserved
    <3>2. k = completeTail % PoolSize
      BY <1>3 DEF NextComplete
    <3> QED BY <2>2, <2>3, <3>1, <3>2, EntryInjective
  <2>5. Used(i)'
    BY <1>9, <2>2, <2>3, <2>4, EntryFacts
  <2> QED BY <2>3, <2>5 DEF Used, Entering
<1>13. \A i \in Slots : Used(i)' => \E p \in Reserved' : p % PoolSize = i
  <2>1. TAKE i \in Slots
  <2>2. SUFFICES ASSUME Used(i), i # k PROVE \E p \in Reserved' : p % PoolSize = i
    BY <1>9
  <2>3. PICK p \in Reserved : p % PoolSize = i
    BY <2>2, EntryFacts
  <2>4. p # completeTail
    BY <1>3, <2>2, <2>3 DEF NextComplete
  <2> QED BY <1>11, <2>3, <2>4
<1>14. \A u, v \in Threads : Entering(u)' /\ Entering(v)' /\ place[u] = place[v] => u = v
  BY <1>6, EntryFacts
<1>15. \A u \in Threads : Entering(u)' => ~ ready'[place[u]]
  BY <1>6, <1>7, EntryFacts, IoFacts
<1>16. \A u \in Threads : pc'[u] = "publish" => entry[place[u]] = mine'[u]
  BY <1>1, <1>5, EntryFacts
<1>17. pc'[Main] # "deliver"
  BY <1>2, <1>5
<1>18. completeTail' <= completeHead' /\ completeHead' <= completeTail' + PoolSize
  BY <1>1, <1>10, EntryFacts
<1> QED BY <1>1, <1>12, <1>13, <1>14, <1>15, <1>16, <1>17, <1>18 DEF EntriesReserved, Threads, Slots

\* One thread moves on and the list of completed requests stays.
LEMMA EntriesStay ==
  ASSUME IoInv, completion' = completion, place' = place,
         NEW t \in Threads, NEW x, pc' = [pc EXCEPT ![t] = x], x \notin {"enter", "publish", "deliver"},
         pc[t] \notin {"enter", "publish"}, \A u \in Threads : u # t => mine'[u] = mine[u]
  PROVE  EntriesReserved'
<1>1. /\ ready' = ready /\ entry' = entry /\ completeHead' = completeHead
      /\ completeTail' = completeTail
  BY DEF completion
<1>2. \A u \in Threads : pc'[u] = IF u = t THEN x ELSE pc[u]
  BY IoFacts
<1>3. \A u \in Threads : Entering(u)' <=> Entering(u)
  BY <1>2 DEF Entering
<1>4. \A u \in Threads : pc'[u] = "publish" => pc[u] = "publish" /\ mine'[u] = mine[u]
  BY <1>2
<1>5. pc'[Main] = "deliver" => pc[Main] = "deliver" /\ mine'[Main] = mine[Main]
  BY <1>2, ThreadFacts
<1> QED BY <1>1, <1>3, <1>4, <1>5, EntriesSame, EntryFacts

LEMMA TakeEntries == ASSUME IoInv, TakeEntry PROVE EntriesReserved'
<1>1. /\ ready' = ready /\ entry' = entry /\ completeHead' = completeHead
      /\ completeTail' = completeTail /\ place' = place /\ ready[NextComplete]
      /\ pc[Main] = "idle" /\ pc' = [pc EXCEPT ![Main] = "deliver"]
      /\ mine' = [mine EXCEPT ![Main] = entry[NextComplete]]
  BY DEF TakeEntry, completion, At, Goto
<1>2. \A u \in Threads : /\ pc'[u] = IF u = Main THEN "deliver" ELSE pc[u]
                         /\ mine'[u] = IF u = Main THEN entry[NextComplete] ELSE mine[u]
  BY <1>1, IoFacts
<1>3. \A u \in Threads : Entering(u)' <=> Entering(u)
  BY <1>1, <1>2 DEF Entering
<1>4. \A u \in Threads : pc'[u] = "publish" => pc[u] = "publish" /\ mine'[u] = mine[u]
  BY <1>2
<1>5. mine'[Main] = entry[NextComplete]
  BY <1>2, ThreadFacts
<1> QED BY <1>1, <1>3, <1>4, <1>5, EntriesSame

LEMMA MainEntries ==
  ASSUME IoInv, Submit \/ Shutdown \/ Answered
  PROVE  EntriesReserved'
<1>1. completion' = completion /\ place' = place
  BY DEF Submit, AllocateLoad, AllocateLink, AllocateSwap, AllocateAgain, SubmitPush, SubmitPost,
     SubmitRefused, SubmitInvalid, LetGo, Shutdown, BeginShutdown, PostExit, Join, Answered, locals
<1>2. PICK x \in {"allocLink", "allocSwap", "push", "post", "idle", "stop", "join", "over", "free"} :
        pc' = [pc EXCEPT ![Main] = x]
  BY DEF Submit, AllocateLoad, AllocateLink, AllocateSwap, AllocateAgain, SubmitPush, SubmitPost,
     SubmitRefused, SubmitInvalid, LetGo, Shutdown, BeginShutdown, PostExit, Join, Answered, Goto
<1>3. pc[Main] \in {"idle", "allocLink", "allocSwap", "push", "post", "stop", "join"}
  BY DEF Submit, AllocateLoad, AllocateLink, AllocateSwap, AllocateAgain, SubmitPush, SubmitPost,
     SubmitRefused, SubmitInvalid, LetGo, Shutdown, BeginShutdown, PostExit, Join, Answered, At
<1>4. mine' = mine \/ \E m : mine' = [mine EXCEPT ![Main] = m]
  BY DEF Submit, AllocateLoad, AllocateLink, AllocateSwap, AllocateAgain, SubmitPush, SubmitPost,
     SubmitRefused, SubmitInvalid, LetGo, Shutdown, BeginShutdown, PostExit, Join, Answered, locals
<1>5. \A u \in Threads : u # Main => mine'[u] = mine[u]
  BY <1>4, IoFacts
<1> QED BY <1>1, <1>2, <1>3, <1>5, EntriesStay, ThreadFacts

LEMMA FreeEntries ==
  ASSUME IoInv, NEW t \in Threads, FreeLink(t) \/ FreeSwap(t)
  PROVE  EntriesReserved'
<1>1. completion' = completion /\ place' = place
  BY DEF FreeLink, FreeSwap
<1>2. PICK x \in {"freeSwap", "free", "wait", "idle"} : pc' = [pc EXCEPT ![t] = x]
  BY DEF FreeLink, FreeSwap, Release, Goto
<1>3. pc[t] \in {"free", "freeSwap"}
  BY DEF FreeLink, FreeSwap, At
<1>4. mine' = mine \/ mine' = [mine EXCEPT ![t] = NoSlot]
  BY DEF FreeLink, FreeSwap, Release
<1>5. \A u \in Threads : u # t => mine'[u] = mine[u]
  BY <1>4, IoFacts
<1> QED BY <1>1, <1>2, <1>3, <1>5, EntriesStay

LEMMA IoEntries ==
  ASSUME IoInv, NEW t \in IoThreads \cup Workers,
         \/ t \in IoThreads /\ (WaitForWork(t) \/ Pop(t) \/ PopEmpty(t) \/ ProcessFails(t)
              \/ ReadErs(t) \/ ProcessDone(t) \/ HandOver(t) \/ HandOverFails(t))
         \/ RunProcess(t)
  PROVE  EntriesReserved'
<1>1. completion' = completion /\ place' = place
  BY DEF WaitForWork, Pop, PopEmpty, ProcessFails, ReadErs, ProcessDone, HandOver, HandOverFails,
     RunProcess,
     locals
<1>2. PICK x \in {"pop", "process", "reading", "undefinedIndex", "gone", "reserve", "free", "wait",
               "idle"} : pc' = [pc EXCEPT ![t] = x]
  BY DEF WaitForWork, Pop, PopEmpty, ProcessFails, ReadErs, ProcessDone, HandOver, HandOverFails,
     RunProcess,
     Answer, Release, Goto
<1>3. pc[t] \in {"wait", "pop", "process", "reading", "idle"}
  BY DEF WaitForWork, Pop, PopEmpty, ProcessFails, ReadErs, ProcessDone, HandOver, HandOverFails,
     RunProcess, AccessDone, At
<1>4. mine' = mine \/ \E m : mine' = [mine EXCEPT ![t] = m]
  BY DEF WaitForWork, Pop, PopEmpty, ProcessFails, ReadErs, ProcessDone, HandOver, HandOverFails,
     RunProcess,
     Release, locals
<1>5. \A u \in Threads : u # t => mine'[u] = mine[u]
  BY <1>4, IoFacts
<1> QED BY <1>1, <1>2, <1>3, <1>5, EntriesStay, ThreadFacts

LEMMA EntriesStep == IoInv /\ [Next]_vars => EntriesReserved'
<1> SUFFICES ASSUME IoInv, [Next]_vars PROVE EntriesReserved'
  OBVIOUS
<1>1. CASE UNCHANGED vars
  <2>1. /\ ready' = ready /\ entry' = entry /\ completeHead' = completeHead
        /\ completeTail' = completeTail /\ place' = place /\ mine' = mine /\ pc' = pc
    BY <1>1 DEF vars, completion, locals
  <2>2. \A t \in Threads : Entering(t)' <=> Entering(t)
    BY <2>1 DEF Entering
  <2> QED BY <2>1, <2>2, EntriesSame, EntryFacts
<1>2. CASE Submit \/ Shutdown
  BY <1>2, MainEntries
<1>3. CASE Update
  BY <1>3, TakeEntries, DeliverEntries, MainEntries, FreeEntries, ThreadFacts DEF Update
<1>4. ASSUME NEW t \in IoThreads, Io(t) PROVE EntriesReserved'
  BY <1>4, IoEntries, FreeEntries, ReserveEntries, EnterEntries, PublishEntries, ThreadFacts
     DEF Io, SubmitComplete
<1>5. ASSUME NEW w \in Workers, Worker(w) PROVE EntriesReserved'
  BY <1>5, IoEntries, ReserveEntries, EnterEntries, PublishEntries DEF Worker, SubmitComplete
<1>6. CASE JobLost
  <2>1. /\ ready' = ready /\ entry' = entry /\ completeHead' = completeHead
        /\ completeTail' = completeTail /\ place' = place /\ mine' = mine /\ pc' = pc
    BY <1>6 DEF JobLost, completion, locals
  <2>2. \A t \in Threads : Entering(t)' <=> Entering(t)
    BY <2>1 DEF Entering
  <2> QED BY <2>1, <2>2, EntriesSame, EntryFacts
<1> QED BY <1>1, <1>2, <1>3, <1>4, <1>5, <1>6 DEF Next

----------------------------------------------------------------------------
(* Tokens for the requests in the queue *)

LEMMA TokenFacts ==
  ASSUME IoInv
  PROVE  /\ running => work + Cardinality(Popping) + (IF pc[Main] = "post" THEN 1 ELSE 0) = Len(queue)
         /\ exited = Cardinality(Gone)
         /\ \A t \in IoThreads : pc[t] # "undefinedIndex"
         /\ Cardinality(Popping) \in Nat /\ work \in Nat /\ Len(queue) \in Nat
         /\ IsFiniteSet(Popping)
<1>1. Popping \subseteq IoThreads
  BY DEF Popping
<1>2. IsFiniteSet(Popping) /\ Cardinality(Popping) \in Nat
  BY <1>1, GoneCounted, FS_CardinalityType
<1>3. work \in Nat /\ Len(queue) \in Nat
  BY IoFacts, LenProperties
<1> QED BY <1>2, <1>3 DEF IoInv, TokensMatch, At

\* A thread that neither pops nor leaves goes on.
LEMMA TokensStay ==
  ASSUME IoInv, NEW t \in Threads, NEW x, pc' = [pc EXCEPT ![t] = x],
         x \notin {"pop", "gone", "undefinedIndex"} \/ t \notin IoThreads,
         pc[t] \notin {"pop", "gone"} \/ t \notin IoThreads,
         exited' = exited,
         running' => /\ running
                     /\ work' + (IF pc'[Main] = "post" THEN 1 ELSE 0) - Len(queue')
                          = work + (IF pc[Main] = "post" THEN 1 ELSE 0) - Len(queue)
                     /\ work' \in Nat /\ Len(queue') \in Nat
  PROVE  TokensMatch'
<1>1. \A u \in IoThreads : pc'[u] = IF u = t THEN x ELSE pc[u]
  BY IoFacts, ThreadFacts
<1>2. Popping' = Popping /\ Gone' = Gone
  BY <1>1 DEF Popping, Gone
<1>3. \A u \in IoThreads : pc'[u] # "undefinedIndex"
  BY <1>1, TokenFacts
<1>4. running' => work' + Cardinality(Popping) + (IF pc'[Main] = "post" THEN 1 ELSE 0) = Len(queue')
  BY TokenFacts, SMTT(30)
<1>5. running' => work' + Cardinality(Popping)' + (IF pc'[Main] = "post" THEN 1 ELSE 0) = Len(queue')
  BY <1>2, <1>4
<1>6. exited' = Cardinality(Gone)'
  BY <1>2, TokenFacts
<1> QED BY <1>3, <1>5, <1>6 DEF TokensMatch, At

LEMMA MainTokens ==
  ASSUME IoInv, Submit \/ Shutdown \/ TakeEntry \/ Deliver \/ CallNull \/ Answered
  PROVE  TokensMatch'
<1>0. Main \in Threads /\ Main \notin IoThreads
  BY ThreadFacts
<1>1. CASE SubmitPush
  <2>1. /\ pc[Main] = "push" /\ pc' = [pc EXCEPT ![Main] = "post"] /\ work' = work
        /\ queue' = Append(queue, mine[Main]) /\ running' = running /\ exited' = exited
    BY <1>1 DEF SubmitPush, At, Goto, exits
  <2>2. mine[Main] \in Slots /\ pc'[Main] = "post"
    BY <1>0, <2>1, HandFacts, IoFacts DEF Holding
  <2>3. Len(queue') = Len(queue) + 1
    BY <2>1, <2>2, IoFacts, AppendProperties
  <2>4. work' + 1 - Len(queue') = work + 0 - Len(queue) /\ work' \in Nat /\ Len(queue') \in Nat
    BY <2>1, <2>3, TokenFacts
  <2>5. PICK x \in {"post"} : pc' = [pc EXCEPT ![Main] = x]
    BY <2>1
  <2> QED BY <1>0, <2>1, <2>2, <2>4, <2>5, TokensStay
<1>2. CASE SubmitPost
  <2>1. /\ pc[Main] = "post" /\ pc' = [pc EXCEPT ![Main] = "idle"] /\ work' = work + 1
        /\ queue' = queue /\ running' = running /\ exited' = exited
    BY <1>2 DEF SubmitPost, At, Goto, exits
  <2>2. pc'[Main] = "idle"
    BY <1>0, <2>1, IoFacts
  <2>3. work' + 0 - Len(queue') = work + 1 - Len(queue) /\ work' \in Nat /\ Len(queue') \in Nat
    BY <2>1, TokenFacts
  <2>4. PICK x \in {"idle"} : pc' = [pc EXCEPT ![Main] = x]
    BY <2>1
  <2> QED BY <1>0, <2>1, <2>2, <2>3, <2>4, TokensStay
<1>3. CASE Shutdown
  <2>1. ~ running' /\ exited' = exited
    <3>1. pc[Main] \in {"stop", "join"} => ~ running
      BY DEF IoInv, PointsOwned
    <3> QED BY <1>3, <3>1 DEF Shutdown, BeginShutdown, PostExit, Join, exits, At
  <2>2. PICK x : pc' = [pc EXCEPT ![Main] = x]
    BY <1>3 DEF Shutdown, BeginShutdown, PostExit, Join, Goto
  <2> QED BY <1>0, <2>1, <2>2, TokensStay
<1>4. CASE AllocateLoad \/ AllocateLink \/ AllocateSwap \/ AllocateAgain \/ TakeEntry \/ Deliver
            \/ Answered
  <2>1. work' = work /\ queue' = queue /\ running' = running /\ exited' = exited
    BY <1>4 DEF AllocateLoad, AllocateLink, AllocateSwap, AllocateAgain, TakeEntry, Deliver, Answered,
       exits
  <2>2. PICK x \in {"allocLink", "allocSwap", "push", "deliver", "idle", "free"} :
          pc' = [pc EXCEPT ![Main] = x]
    BY <1>0, <1>4 DEF AllocateLoad, AllocateLink, AllocateSwap, AllocateAgain, TakeEntry, Deliver,
       Answered, Goto, Release
  <2>3. pc[Main] # "post" /\ pc'[Main] = x
    BY <1>0, <1>4, <2>2, IoFacts
       DEF AllocateLoad, AllocateLink, AllocateSwap, AllocateAgain, TakeEntry, Deliver, Answered, At
  <2> QED BY <1>0, <2>1, <2>2, <2>3, TokensStay, TokenFacts
<1>5. CASE SubmitRefused \/ SubmitInvalid \/ CallNull
  <2>1. work' = work /\ queue' = queue /\ running' = running /\ exited' = exited
    BY <1>5 DEF SubmitRefused, SubmitInvalid, CallNull, exits
  <2>2. PICK x \in {"idle", "nullCall"} : pc' = [pc EXCEPT ![Main] = x]
    BY <1>5 DEF SubmitRefused, SubmitInvalid, CallNull, Goto
  <2>3. pc[Main] # "post" /\ pc'[Main] = x
    BY <1>0, <1>5, <2>2, IoFacts DEF SubmitRefused, SubmitInvalid, CallNull, At
  <2> QED BY <1>0, <2>1, <2>2, <2>3, TokensStay, TokenFacts
<1> QED BY <1>1, <1>2, <1>3, <1>4, <1>5 DEF Submit

\* Steps that change neither the tokens nor the queue.
LEMMA OtherTokens ==
  ASSUME IoInv, NEW t \in Threads,
         FreeLink(t) \/ FreeSwap(t) \/ SubmitComplete(t) \/ ProcessFails(t) \/ ReadErs(t)
           \/ ProcessDone(t) \/ HandOver(t) \/ HandOverFails(t) \/ (t \in Workers /\ RunProcess(t))
  PROVE  TokensMatch'
<1>1. work' = work /\ queue' = queue /\ running' = running /\ exited' = exited
  BY DEF FreeLink, FreeSwap, SubmitComplete, Reserve, Enter, Publish, ProcessFails, ReadErs, ProcessDone,
     HandOver, HandOverFails, RunProcess, exits
<1>2. PICK x \in {"freeSwap", "free", "wait", "idle", "enter", "publish", "reserve", "reading"} :
        pc' = [pc EXCEPT ![t] = x]
  BY DEF FreeLink, FreeSwap, SubmitComplete, Reserve, Enter, Publish, ProcessFails, ReadErs, ProcessDone,
     HandOver, HandOverFails, RunProcess, Answer, Release, Goto
<1>3. pc[t] \in {"free", "freeSwap", "reserve", "enter", "publish", "process", "reading", "idle"}
  BY DEF FreeLink, FreeSwap, SubmitComplete, Reserve, Enter, Publish, ProcessFails, ReadErs, ProcessDone,
     HandOver, HandOverFails, RunProcess, AccessDone, At
<1>4. (pc'[Main] = "post") <=> (pc[Main] = "post")
  BY <1>2, <1>3, IoFacts, ThreadFacts
<1> QED BY <1>1, <1>2, <1>3, <1>4, TokensStay, TokenFacts

LEMMA WaitTokens ==
  ASSUME IoInv, NEW t \in IoThreads, WaitForWork(t)
  PROVE  TokensMatch'
<1>1. /\ pc[t] = "wait" /\ pc' = [pc EXCEPT ![t] = "pop"] /\ work > 0 /\ work' = work - 1
      /\ queue' = queue /\ running' = running /\ exited' = exited
  BY DEF WaitForWork, At, Goto, exits
<1>2. \A u \in Threads : pc'[u] = IF u = t THEN "pop" ELSE pc[u]
  BY <1>1, IoFacts
<1>3. Popping' = Popping \cup {t} /\ t \notin Popping /\ Gone' = Gone
  BY <1>1, <1>2, ThreadFacts DEF Popping, Gone
<1>4. Cardinality(Popping)' = Cardinality(Popping) + 1
  BY <1>3, TokenFacts, FS_AddElement
<1>5. pc'[Main] = pc[Main]
  BY <1>2, ThreadFacts
<1>6. running => work' + Cardinality(Popping)' + (IF pc'[Main] = "post" THEN 1 ELSE 0) = Len(queue)
  <2>1. running => work + Cardinality(Popping) + (IF pc[Main] = "post" THEN 1 ELSE 0) = Len(queue)
    BY TokenFacts
  <2> QED BY <1>1, <1>4, <1>5, <2>1, TokenFacts, SMTT(30)
<1>7. \A u \in IoThreads : pc'[u] # "undefinedIndex"
  BY <1>2, ThreadFacts, TokenFacts
<1>8. exited' = Cardinality(Gone)'
  BY <1>1, <1>3, TokenFacts
<1> QED BY <1>1, <1>6, <1>7, <1>8 DEF TokensMatch, At

LEMMA PopTokens ==
  ASSUME IoInv, NEW t \in IoThreads, Pop(t)
  PROVE  TokensMatch'
<1>1. /\ pc[t] = "pop" /\ pc' = [pc EXCEPT ![t] = "process"] /\ work' = work
      /\ queue # <<>> /\ queue' = Tail(queue) /\ running' = running /\ exited' = exited
  BY DEF Pop, At, Goto, exits
<1>2. \A u \in Threads : pc'[u] = IF u = t THEN "process" ELSE pc[u]
  BY <1>1, IoFacts
<1>3. Popping' = Popping \ {t} /\ t \in Popping /\ Gone' = Gone
  BY <1>1, <1>2, ThreadFacts DEF Popping, Gone
<1>4. Cardinality(Popping)' = Cardinality(Popping) - 1
  BY <1>3, TokenFacts, FS_RemoveElement
<1>5. pc'[Main] = pc[Main]
  BY <1>2, ThreadFacts
<1>6. Len(queue') = Len(queue) - 1
  BY <1>1, IoFacts, HeadTailProperties
<1>7. running => work' + Cardinality(Popping)' + (IF pc'[Main] = "post" THEN 1 ELSE 0) = Len(queue')
  <2>1. running => work + Cardinality(Popping) + (IF pc[Main] = "post" THEN 1 ELSE 0) = Len(queue)
    BY TokenFacts
  <2>2. CASE pc[Main] = "post"
    BY <1>1, <1>4, <1>5, <1>6, <2>1, <2>2, TokenFacts
  <2>3. CASE pc[Main] # "post"
    BY <1>1, <1>4, <1>5, <1>6, <2>1, <2>3, TokenFacts
  <2> QED BY <2>2, <2>3
<1>8. \A u \in IoThreads : pc'[u] # "undefinedIndex"
  BY <1>2, ThreadFacts, TokenFacts
<1>9. exited' = Cardinality(Gone)'
  BY <1>1, <1>3, TokenFacts
<1> QED BY <1>1, <1>7, <1>8, <1>9 DEF TokensMatch, At

\* While the system runs, a thread with a token finds a request.
LEMMA PopEmptyTokens ==
  ASSUME IoInv, NEW t \in IoThreads, PopEmpty(t)
  PROVE  TokensMatch'
<1>1. /\ pc[t] = "pop" /\ queue = <<>> /\ running' = running
      /\ \/ running /\ pc' = [pc EXCEPT ![t] = "undefinedIndex"] /\ exited' = exited
         \/ ~ running /\ pc' = [pc EXCEPT ![t] = "gone"] /\ exited' = exited + 1
  BY DEF PopEmpty, At, Goto
<1>2. ~ running
  <2>1. t \in Popping
    BY <1>1 DEF Popping
  <2>2. Cardinality(Popping) # 0
    BY <2>1, TokenFacts, FS_EmptySet
  <2>3. Len(queue) = 0
    BY <1>1
  <2> QED BY <2>2, <2>3, TokenFacts
<1>3. exited' = Cardinality(Gone)'
  BY <1>1, ExitStep
<1>4. \A u \in IoThreads : pc'[u] # "undefinedIndex"
  BY <1>1, <1>2, IoFacts, ThreadFacts, TokenFacts
<1> QED BY <1>1, <1>2, <1>3, <1>4 DEF TokensMatch, At

LEMMA TokensStep == IoInv /\ [Next]_vars => TokensMatch'
<1> SUFFICES ASSUME IoInv, [Next]_vars PROVE TokensMatch'
  OBVIOUS
<1>1. CASE UNCHANGED vars
  <2>1. work' = work /\ queue' = queue /\ running' = running /\ exited' = exited /\ pc' = pc
    BY <1>1 DEF vars, exits
  <2>2. Popping' = Popping /\ Gone' = Gone
    BY <2>1 DEF Popping, Gone
  <2> QED BY <2>1, <2>2 DEF IoInv, TokensMatch, At
<1>2. CASE Submit \/ Shutdown
  BY <1>2, MainTokens
<1>3. CASE Update
  BY <1>3, MainTokens, OtherTokens, ThreadFacts DEF Update
<1>4. ASSUME NEW t \in IoThreads, Io(t) PROVE TokensMatch'
  BY <1>4, WaitTokens, PopTokens, PopEmptyTokens, OtherTokens, ThreadFacts DEF Io
<1>5. ASSUME NEW w \in Workers, Worker(w) PROVE TokensMatch'
  BY <1>5, OtherTokens, ThreadFacts DEF Worker
<1>6. CASE JobLost
  <2>1. work' = work /\ queue' = queue /\ running' = running /\ exited' = exited /\ pc' = pc
    BY <1>6 DEF JobLost, exits
  <2>2. Popping' = Popping /\ Gone' = Gone
    BY <2>1 DEF Popping, Gone
  <2> QED BY <2>1, <2>2 DEF IoInv, TokensMatch, At
<1> QED BY <1>1, <1>2, <1>3, <1>4, <1>5, <1>6 DEF Next

----------------------------------------------------------------------------
(* The inductive invariant *)

LEMMA IoInit == Init => IoInv
<1> SUFFICES ASSUME Init PROVE IoInv
  OBVIOUS
<1> USE DEF Init
<1>1. 0 \in Slots /\ Main \in Threads
  BY ThreadFacts DEF Slots
<1>2. TypeOK
  <2>1. link \in [Slots -> Slots \cup {NoSlot, Path}]
    BY DEF Slots
  <2>2. request \in [Slots -> Records]
    BY DEF Results, Records
  <2>3. queue \in Seq(Slots)
    BY EmptySeq
  <2>4. Cardinality(IoThreads) \in Nat
    BY FS_CardinalityType
  <2> QED BY <1>1, <2>1, <2>2, <2>3, <2>4 DEF TypeOK
<1>3. PointsOwned
  BY <1>1, ThreadFacts DEF PointsOwned, MainPoints, IoPoints, WorkerPoints, Holding, CompletePoints,
     FreePoints, Threads
<1>4. LogTyped
  <2>1. log \in Seq(Answers) /\ Len(log) = 0
    BY EmptySeq
  <2>2. pc[Main] = "idle"
    BY <1>1, ThreadFacts
  <2> QED BY <2>1, <2>2 DEF LogTyped
<1>5. \A t \in Threads : pc[t] \in {"wait", "idle"} /\ mine[t] = NoSlot
  OBVIOUS
<1>6. ListAndPlaces
  <2> DEFINE f == [i \in 1 .. PoolSize |-> i - 1]
  <2>1. f \in [1 .. PoolSize -> Slots] /\ DOMAIN f = 1 .. PoolSize /\ Len(f) = PoolSize
        /\ \A i \in 1 .. PoolSize : f[i] = i - 1
    BY DEF Slots
  <2>2. f # <<>>
    BY <2>1
  <2> HIDE DEF f
  <2>3. f \in SlotLists
    BY <2>1 DEF SlotLists
  <2>4. FreeList(f)
    <3>1. head = f[1]
      BY <2>1
    <3>2. \A i \in 1 .. PoolSize : link[f[i]] = IF i = PoolSize THEN NoSlot ELSE f[i + 1]
      <4>1. TAKE i \in 1 .. PoolSize
      <4>2. f[i] \in Slots /\ f[i] = i - 1
        BY <2>1
      <4>3. i # PoolSize => i + 1 \in 1 .. PoolSize /\ f[i + 1] = i
        BY <2>1
      <4> QED BY <4>2, <4>3
    <3> QED BY <2>1, <2>2, <3>1, <3>2 DEF FreeList
  <2>5. LinksHold(f)
    BY <1>1, <1>5 DEF LinksHold
  <2>6. Once(f) /\ Once(queue) /\ \A s \in Slots : jobs[s] <= 1
    BY <2>1 DEF Once
  <2>7. \A s \in Slots : Has(f, Free, s)
    <3>1. \A s \in Slots : s + 1 \in DOMAIN f /\ f[s + 1] = s
      BY <2>1 DEF Slots
    <3> QED BY <3>1, HasForm
  <2>8. \A s \in Slots, x \in Places : Has(f, x, s) => x = Free
    <3>1. TAKE s \in Slots, x \in Places
    <3>2. CASE \E t \in Threads : x = InHand(t)
      <4>1. PICK t \in Threads : x = InHand(t)
        BY <3>2
      <4>2. ~ Has(f, InHand(t), s)
        <5>1. mine[t] # s
          BY <1>5, NoSlotApart
        <5> QED BY <5>1, HasForm
      <4> QED BY <4>1, <4>2
    <3>3. CASE \E i \in Slots : x = InEntry(i)
      <4>1. PICK i \in Slots : x = InEntry(i)
        BY <3>3
      <4>2. ~ Has(f, InEntry(i), s)
        <5>1. ready[i] = FALSE
          OBVIOUS
        <5> QED BY <5>1, HasForm
      <4> QED BY <4>1, <4>2
    <3>4. /\ ~ Has(f, Queued, s) /\ ~ Has(f, WithJob, s) /\ ~ Has(f, InAnswer, s)
          /\ ~ Has(f, Leaked, s)
      <4>1. DOMAIN queue = {} /\ jobs[s] = 0 /\ answering # s /\ s \notin leaked
        BY NoSlotApart
      <4> QED BY <4>1, HasForm
    <3>5. CASE x = Queued
      BY <3>4, <3>5
    <3>6. CASE x = WithJob
      BY <3>4, <3>6
    <3>7. CASE x = InAnswer
      BY <3>4, <3>7
    <3>8. CASE x = Leaked
      BY <3>4, <3>8
    <3> QED BY <3>2, <3>3, <3>5, <3>6, <3>7, <3>8 DEF Places
  <2>9. SlotsPlaced(f)
    BY <2>6, <2>7, <2>8, PlaceFacts DEF SlotsPlaced
  <2> QED BY <2>3, <2>4, <2>5, <2>9 DEF ListAndPlaces
<1>7. EntriesReserved
  <2>1. \A t \in Threads : ~ Entering(t)
    BY <1>5 DEF Entering
  <2>2. \A i \in Slots : ~ Used(i)
    BY <2>1 DEF Used
  <2>3. Reserved = {}
    BY DEF Reserved
  <2> QED BY <1>1, <1>5, <2>1, <2>2, <2>3 DEF EntriesReserved, Entering
<1>8. TokensMatch
  <2>1. Popping = {} /\ Gone = {}
    BY <1>5, ThreadFacts DEF Popping, Gone
  <2>2. Cardinality(Popping) = 0 /\ Cardinality(Gone) = 0
    BY <2>1, FS_EmptySet
  <2>3. Len(queue) = 0
    BY EmptySeq
  <2>4. \A t \in Threads : pc[t] # "post" /\ pc[t] # "undefinedIndex"
    BY <1>5
  <2> QED BY <1>1, <2>2, <2>3, <2>4, ThreadFacts DEF TokensMatch, At
<1> QED BY <1>2, <1>3, <1>4, <1>6, <1>7, <1>8 DEF IoInv

LEMMA IoStep == IoInv /\ [Next]_vars => IoInv'
BY TypeStep, PointsStep, LogStep, ListStep, EntriesStep, TokensStep DEF IoInv

\* The io system keeps its inductive invariant: threads have a request in hand
\* where the functions have one, every slot is in one place, the entries in use
\* are those reserved, and tokens match the queue.
THEOREM IoInvariant == Spec => []IoInv
BY IoInit, IoStep, PTL DEF Spec

----------------------------------------------------------------------------
(* One owner for every slot *)

LEMMA CountOne ==
  ASSUME NEW S, \A x, y \in S : x = y
  PROVE  Cardinality(S) = IF S = {} THEN 0 ELSE 1
<1>1. CASE S = {}
  BY <1>1, FS_EmptySet
<1>2. CASE S # {}
  <2>1. PICK x : S = {x}
    BY <1>2
  <2> QED BY <1>2, <2>1, FS_Singleton
<1> QED BY <1>1, <1>2

LEMMA PlacedOnce ==
  ASSUME IoInv, NEW f \in SlotLists, SlotsPlaced(f), NEW s \in Slots
  PROVE  Cardinality({i \in DOMAIN f : f[i] = s})
         + Cardinality({t \in Threads : mine[t] = s /\ ~ At(t, "deliver")})
         + Cardinality({i \in DOMAIN queue : queue[i] = s})
         + jobs[s]
         + Cardinality({i \in Slots : ready[i] /\ entry[i] = s})
         + (IF answering = s THEN 1 ELSE 0)
         + (IF s \in leaked THEN 1 ELSE 0) = 1
<1> DEFINE F == {i \in DOMAIN f : f[i] = s}
           H == {t \in Threads : mine[t] = s /\ ~ At(t, "deliver")}
           Q == {i \in DOMAIN queue : queue[i] = s}
           E == {i \in Slots : ready[i] /\ entry[i] = s}
           A == IF answering = s THEN 1 ELSE 0
           L == IF s \in leaked THEN 1 ELSE 0
<1>0. PICK x \in Places : Has(f, x, s) /\ \A y \in Places : Has(f, y, s) => y = x
  BY DEF SlotsPlaced
<1>1. Cardinality(F) = IF x = Free THEN 1 ELSE 0
  <2>1. \A i, k \in F : i = k
    BY DEF SlotsPlaced, Once
  <2>2. F # {} <=> Has(f, Free, s)
    BY HasForm
  <2>3. F # {} <=> x = Free
    BY <1>0, <2>2, PlaceFacts
  <2> HIDE DEF F
  <2> QED BY <2>1, <2>3, CountOne
<1>2. Cardinality(H) = IF \E t \in Threads : x = InHand(t) THEN 1 ELSE 0
  <2>1. \A t \in Threads : t \in H <=> Has(f, InHand(t), s)
    BY HasForm
  <2>2. \A t \in Threads : t \in H <=> x = InHand(t)
    BY <1>0, <2>1, PlaceFacts
  <2>3. \A t, u \in H : t = u
    BY <2>2, PlaceFacts
  <2>4. H # {} <=> \E t \in Threads : x = InHand(t)
    BY <2>2
  <2> HIDE DEF H
  <2> QED BY <2>3, <2>4, CountOne
<1>3. Cardinality(Q) = IF x = Queued THEN 1 ELSE 0
  <2>1. \A i, k \in Q : i = k
    BY DEF SlotsPlaced, Once
  <2>2. Q # {} <=> Has(f, Queued, s)
    BY HasForm
  <2>3. Q # {} <=> x = Queued
    BY <1>0, <2>2, PlaceFacts
  <2> HIDE DEF Q
  <2> QED BY <2>1, <2>3, CountOne
<1>4. jobs[s] = IF x = WithJob THEN 1 ELSE 0
  <2>1. jobs[s] \in Nat /\ jobs[s] <= 1
    BY IoFacts DEF SlotsPlaced
  <2>2. jobs[s] > 0 <=> x = WithJob
    BY <1>0, HasForm, PlaceFacts
  <2> QED BY <2>1, <2>2
<1>5. Cardinality(E) = IF \E i \in Slots : x = InEntry(i) THEN 1 ELSE 0
  <2>1. \A i \in Slots : i \in E <=> Has(f, InEntry(i), s)
    <3>1. TAKE i \in Slots
    <3>2. Has(f, InEntry(i), s) <=> ready[i] /\ entry[i] = s
      BY HasForm
    <3>3. ready[i] \in BOOLEAN
      BY IoFacts
    <3> QED BY <3>2, <3>3
  <2>2. \A i \in Slots : i \in E <=> x = InEntry(i)
    BY <1>0, <2>1, PlaceFacts
  <2>3. \A i, k \in E : i = k
    BY <2>2, PlaceFacts
  <2>4. E # {} <=> \E i \in Slots : x = InEntry(i)
    BY <2>2
  <2> HIDE DEF E
  <2> QED BY <2>3, <2>4, CountOne
<1>6. A = IF x = InAnswer THEN 1 ELSE 0
  BY <1>0, HasForm, PlaceFacts
<1>7. L = IF x = Leaked THEN 1 ELSE 0
  BY <1>0, HasForm, PlaceFacts
<1> HIDE DEF F, H, Q, E, A, L
<1>8. Cardinality(F) + Cardinality(H) + Cardinality(Q) + jobs[s] + Cardinality(E) + A + L = 1
  <2> USE <1>1, <1>2, <1>3, <1>4, <1>5, <1>6, <1>7, PlaceFacts
  <2>1. CASE x = Free
    BY <2>1
  <2>2. CASE \E t \in Threads : x = InHand(t)
    BY <2>2
  <2>3. CASE x = Queued
    BY <2>3
  <2>4. CASE x = WithJob
    BY <2>4
  <2>5. CASE \E i \in Slots : x = InEntry(i)
    BY <2>5
  <2>6. CASE x = InAnswer
    BY <2>6
  <2>7. CASE x = Leaked
    BY <2>7
  <2> QED BY <2>1, <2>2, <2>3, <2>4, <2>5, <2>6, <2>7 DEF Places
<1> QED BY <1>8 DEF F, H, Q, E, A, L

\* Every request slot is in one place, and nobody frees or answers what somebody
\* else still works on.
THEOREM SlotsHaveOneOwner == Spec => []OneOwner
<1>1. IoInv => OneOwner
  BY PlacedOnce DEF IoInv, ListAndPlaces, OneOwner
<1> QED BY <1>1, IoInvariant, PTL

----------------------------------------------------------------------------
(* No request gets lost *)

\* The queue has room for the request that is about to be queued.
LEMMA QueueHasRoom ==
  ASSUME IoInv, pc[Main] = "push"
  PROVE  Len(queue) < PoolSize
<1>1. PICK f \in SlotLists : SlotsPlaced(f)
  BY DEF IoInv, ListAndPlaces
<1>2. mine[Main] \in Slots /\ Main \in Threads
  BY HandFacts, ThreadFacts DEF Holding
<1>3. \A i \in DOMAIN queue : queue[i] # mine[Main]
  BY <1>1, <1>2, InHandOnly
<1>4. /\ Len(queue) \in Nat /\ queue \in [1 .. Len(queue) -> Slots]
      /\ DOMAIN queue = 1 .. Len(queue)
  BY IoFacts, LenProperties
<1>5. Once(queue)
  BY <1>1 DEF SlotsPlaced
<1> QED BY <1>2, <1>3, <1>4, <1>5, OnceWithout

\* Nothing is written over in the list of the completed requests, an io thread
\* that was woken finds a request, and the queue never overflows.
THEOREM EntriesAreKept == Spec => []EntriesKept
<1>1. IoInv => EntriesKept
  <2> SUFFICES ASSUME IoInv PROVE EntriesKept
    OBVIOUS
  <2>1. TypeOK
    BY DEF IoInv
  <2>2. \A t, u \in Threads :
          pc[t] \in {"enter", "publish"} =>
            /\ ~ ready[place[t]]
            /\ (t # u /\ pc[u] \in {"enter", "publish"}) => place[t] # place[u]
    BY EntryFacts DEF Entering
  <2>3. \A t \in IoThreads : ~ At(t, "undefinedIndex")
    BY TokenFacts DEF At
  <2> QED BY <2>1, <2>2, <2>3, QueueHasRoom DEF EntriesKept, At
<1> QED BY <1>1, IoInvariant, PTL

----------------------------------------------------------------------------
(* Answers *)

\* What is known of the request whose onComplete is not there.
NullSound ==
  At(Main, "nullCall") =>
    /\ request[mine[Main]].of \in DOMAIN log
    /\ ~ log[request[mine[Main]].of].wanted
    /\ log[request[mine[Main]].of].process # "none"

LEMMA RequestFacts ==
  ASSUME IoInv, AnswerInv
  PROVE  /\ \A s \in Slots : UnderWay(s) =>
              /\ request[s].of \in DOMAIN log /\ log[request[s].of].answers = <<>>
              /\ log[request[s].of].wanted = request[s].complete
              /\ request[s].process <=> log[request[s].of].process # "none"
         /\ \A s \in Slots : Begun(s) => log[request[s].of].outcome = request[s].result
         /\ \A s \in Slots : Completing(s) =>
              Begun(s) /\ (request[s].complete \/ request[s].process)
         /\ \A s \in Slots : jobs[s] > 0 => request[s].process
         /\ \A s, q \in Slots :
              UnderWay(s) /\ UnderWay(q) /\ request[s].of = request[q].of => s = q
         /\ \A r \in DOMAIN log :
              /\ log[r].answers # <<>> => log[r].wanted /\ log[r].answers = <<log[r].outcome>>
              /\ log[r].outcome = "IO_PROCESS_ERROR" => log[r].process # "none"
         /\ NullSound
<1>1. \A s \in Slots : Completing(s) => Begun(s)
  BY DEF Completing, Begun
<1>2. \A s \in Slots : jobs[s] > 0 => UnderWay(s)
  BY DEF UnderWay, Begun
<1>3. NullSound
  BY DEF AnswerInv, OwnAnswer, NullSound
<1>4. \A r \in DOMAIN log :
        /\ log[r].answers # <<>> => log[r].wanted /\ log[r].answers = <<log[r].outcome>>
        /\ log[r].outcome = "IO_PROCESS_ERROR" => log[r].process # "none"
  BY DEF AnswerInv, OwnAnswer
<1>5. \A s \in Slots : UnderWay(s) =>
        /\ request[s].of \in DOMAIN log /\ log[request[s].of].answers = <<>>
        /\ log[request[s].of].wanted = request[s].complete
        /\ request[s].process <=> log[request[s].of].process # "none"
        /\ Begun(s) => log[request[s].of].outcome = request[s].result
        /\ Completing(s) => request[s].complete \/ request[s].process
        /\ jobs[s] > 0 => request[s].process
  BY DEF AnswerInv, RequestsKept
<1>6. \A s, q \in Slots :
        UnderWay(s) /\ UnderWay(q) /\ request[s].of = request[q].of => s = q
  BY DEF AnswerInv, RequestsKept
<1>7. \A s \in Slots : Begun(s) => UnderWay(s)
  BY DEF UnderWay
<1> QED BY <1>1, <1>2, <1>3, <1>4, <1>5, <1>6, <1>7

\* What makes the invariant hold after a step.
LEMMA AnswerGoal ==
  ASSUME \A s \in Slots : UnderWay(s)' =>
           /\ request'[s].of \in DOMAIN log' /\ log'[request'[s].of].answers = <<>>
           /\ log'[request'[s].of].wanted = request'[s].complete
           /\ request'[s].process <=> log'[request'[s].of].process # "none",
         \A s \in Slots : Begun(s)' => log'[request'[s].of].outcome = request'[s].result,
         \A s \in Slots : Completing(s)' => request'[s].complete \/ request'[s].process,
         \A s \in Slots : jobs'[s] > 0 => request'[s].process,
         \A s, q \in Slots :
           UnderWay(s)' /\ UnderWay(q)' /\ request'[s].of = request'[q].of => s = q,
         \A r \in DOMAIN log' :
           /\ log'[r].answers # <<>> => log'[r].wanted /\ log'[r].answers = <<log'[r].outcome>>
           /\ log'[r].outcome = "IO_PROCESS_ERROR" => log'[r].process # "none",
         NullSound'
  PROVE  AnswerInv'
<1>1. OwnAnswer'
  BY DEF OwnAnswer, NullSound
<1>2. Slots' = Slots
  BY DEF Slots
<1>3. RequestsKept'
  BY <1>2 DEF RequestsKept
<1> QED BY <1>1, <1>3 DEF AnswerInv

\* The main thread stays where it is, or goes elsewhere than to call NULL.
LEMMA NullKept ==
  ASSUME IoInv, AnswerInv,
         pc'[Main] = "nullCall" => pc[Main] = "nullCall" /\ mine'[Main] = mine[Main],
         \A q \in Slots : request'[q].of = request[q].of,
         \A r \in DOMAIN log :
           r \in DOMAIN log' /\ log'[r].wanted = log[r].wanted /\ log'[r].process = log[r].process
  PROVE  NullSound'
<1>1. pc[Main] = "nullCall" => mine[Main] \in Slots
  BY HandFacts, ThreadFacts DEF Holding
<1>2. NullSound
  BY RequestFacts
<1> QED BY <1>1, <1>2 DEF NullSound, At

\* Requests make progress, and nothing is written down.
LEMMA RequestsSame ==
  ASSUME IoInv, AnswerInv, request' = request, log' = log, NullSound',
         \A s \in Slots : /\ Queueing(s)' => Queueing(s)
                          /\ Begun(s)' => Begun(s)
                          /\ Completing(s)' => request[s].complete \/ request[s].process
                          /\ jobs'[s] > 0 => request[s].process
  PROVE  AnswerInv'
<1>1. \A s \in Slots : UnderWay(s)' => UnderWay(s)
  BY DEF UnderWay
<1> QED BY <1>1, RequestFacts, AnswerGoal

\* A request makes progress, and the outcome of its last step is written down.
LEMMA RequestsResult ==
  ASSUME IoInv, AnswerInv, NEW m \in Slots, NEW r \in Results, Result(m, r), UnderWay(m),
         r = "IO_PROCESS_ERROR" => request[m].process,
         pc'[Main] = "nullCall" => pc[Main] = "nullCall" /\ mine'[Main] = mine[Main],
         \A s \in Slots : /\ Queueing(s)' => Queueing(s)
                          /\ Begun(s)' => Begun(s) \/ s = m
                          /\ Completing(s)' => request[s].complete \/ request[s].process
                          /\ jobs'[s] > 0 => request[s].process
  PROVE  AnswerInv'
<1>1. \A s \in Slots : UnderWay(s)' => UnderWay(s)
  BY DEF UnderWay
<1>2. /\ request'[m].result = r
      /\ \A q \in Slots : /\ request'[q].process = request[q].process
                          /\ request'[q].complete = request[q].complete
                          /\ request'[q].of = request[q].of
                          /\ q # m => request'[q].result = request[q].result
  BY ResultTypes
<1> DEFINE k == request[m].of
<1>3. /\ DOMAIN log' = DOMAIN log
      /\ \A i \in DOMAIN log :
           /\ log'[i].wanted = log[i].wanted /\ log'[i].answers = log[i].answers
           /\ log'[i].process = log[i].process
           /\ log'[i].outcome = IF i = k THEN r ELSE log[i].outcome
  BY IoFacts, LogUpdated DEF Result
<1>4. /\ k \in DOMAIN log /\ log[k].answers = <<>>
      /\ request[m].process <=> log[k].process # "none"
  BY RequestFacts
<1>5. \A s \in Slots : UnderWay(s) /\ s # m => request[s].of # k
  BY RequestFacts
<1>6. NullSound'
  BY <1>2, <1>3, NullKept
<1> HIDE DEF k
<1>7. \A s \in Slots : UnderWay(s)' =>
        /\ request'[s].of \in DOMAIN log' /\ log'[request'[s].of].answers = <<>>
        /\ log'[request'[s].of].wanted = request'[s].complete
        /\ request'[s].process <=> log'[request'[s].of].process # "none"
  BY <1>1, <1>2, <1>3, RequestFacts
<1>8. \A s \in Slots : Begun(s)' => log'[request'[s].of].outcome = request'[s].result
  <2>1. TAKE s \in Slots
  <2>2. SUFFICES ASSUME Begun(s)' PROVE log'[request'[s].of].outcome = request'[s].result
    OBVIOUS
  <2>3. CASE s = m
    BY <1>2, <1>3, <1>4, <2>3 DEF k
  <2>4. CASE s # m
    <3>1. Begun(s) /\ UnderWay(s)
      BY <2>2, <2>4 DEF UnderWay
    <3>2. request[s].of \in DOMAIN log /\ request[s].of # k
          /\ log[request[s].of].outcome = request[s].result
      BY <1>5, <2>4, <3>1, RequestFacts
    <3> QED BY <1>2, <1>3, <2>4, <3>2
  <2> QED BY <2>3, <2>4
<1>9. \A s \in Slots : /\ Completing(s)' => request'[s].complete \/ request'[s].process
                       /\ jobs'[s] > 0 => request'[s].process
  BY <1>2
<1>10. \A s, q \in Slots : UnderWay(s)' /\ UnderWay(q)' /\ request'[s].of = request'[q].of => s = q
  BY <1>1, <1>2, RequestFacts
<1>11. \A i \in DOMAIN log' :
         /\ log'[i].answers # <<>> => log'[i].wanted /\ log'[i].answers = <<log'[i].outcome>>
         /\ log'[i].outcome = "IO_PROCESS_ERROR" => log'[i].process # "none"
  BY <1>3, <1>4, RequestFacts
<1> QED BY <1>6, <1>7, <1>8, <1>9, <1>10, <1>11, AnswerGoal

\* One thread moves on: at most slot m may be begun by that, and at most slot n
\* be on its way into the list of completed requests.
MovesAtMost(t, m, n) ==
  /\ \A u \in Threads : u # t => pc'[u] = pc[u] /\ mine'[u] = mine[u]
  /\ \A s \in Slots :
       /\ mine'[t] = s /\ pc'[t] \in {"process", "reading"} => s = m
       /\ mine'[t] = s /\ pc'[t] \in CompletePoints => s = n
       /\ jobs'[s] > 0 => jobs[s] > 0 \/ s = n
       /\ \A i \in Slots : ready'[i] /\ entry'[i] = s => (ready[i] /\ entry[i] = s) \/ s = n

LEMMA OneMoves ==
  ASSUME NEW t \in Threads, NEW m, NEW n, MovesAtMost(t, m, n)
  PROVE  \A s \in Slots : /\ Begun(s)' => Begun(s) \/ s = m \/ s = n
                          /\ Completing(s)' => Completing(s) \/ s = n
<1>1. TAKE s \in Slots
<1>2. Begun(s)' <=> \/ jobs'[s] > 0
                    \/ \E i \in Slots : ready'[i] /\ entry'[i] = s
                    \/ \E u \in Threads : mine'[u] = s /\ pc'[u] \in {"process", "reading"} \cup CompletePoints
  BY DEF Begun, Threads, Slots, CompletePoints
<1>3. Completing(s)' <=> \/ jobs'[s] > 0
                         \/ \E i \in Slots : ready'[i] /\ entry'[i] = s
                         \/ \E u \in Threads : mine'[u] = s /\ pc'[u] \in CompletePoints
  BY DEF Completing, Threads, Slots, CompletePoints
<1>4. Begun(s)' => Begun(s) \/ s = m \/ s = n
  BY <1>2 DEF Begun, MovesAtMost
<1>5. Completing(s)' => Completing(s) \/ s = n
  BY <1>3 DEF Completing, MovesAtMost
<1> QED BY <1>4, <1>5

LEMMA QueueSame ==
  ASSUME queue' = queue
  PROVE  \A s \in Slots : Queueing(s)' <=> Queueing(s)
BY DEF Queueing

\* One thread moves on and takes no request with it.
LEMMA NothingMoves ==
  ASSUME IoInv, AnswerInv, NEW t \in Threads,
         \A u \in Threads : u # t => pc'[u] = pc[u] /\ mine'[u] = mine[u],
         pc'[t] \notin {"process", "reading", "nullCall"} \cup CompletePoints,
         queue' = queue, jobs' = jobs,
         ready' = ready, entry' = entry, request' = request, log' = log
  PROVE  AnswerInv'
<1>1. \A s \in Slots : s # NoSlot
  BY NoSlotApart
<1>2. \A s \in Slots : /\ Begun(s)' => Begun(s) \/ s = NoSlot
                       /\ Completing(s)' => Completing(s) \/ s = NoSlot
  <2>1. MovesAtMost(t, NoSlot, NoSlot)
    BY DEF MovesAtMost
  <2> QED BY <2>1, OneMoves
<1>3. NullSound'
  BY NullKept, ThreadFacts
<1> QED BY <1>1, <1>2, <1>3, QueueSame, RequestsSame, RequestFacts

LEMMA MainAnswers ==
  ASSUME IoInv, AnswerInv,
         AllocateLoad \/ AllocateLink \/ AllocateSwap \/ AllocateAgain \/ SubmitPost \/ Shutdown
           \/ SubmitInvalid \/ TakeEntry \/ Answered
  PROVE  AnswerInv'
<1>1. /\ queue' = queue /\ jobs' = jobs /\ ready' = ready /\ entry' = entry
      /\ request' = request /\ log' = log
  BY DEF AllocateLoad, AllocateLink, AllocateSwap, AllocateAgain, SubmitPost, SubmitInvalid,
     LetGo, Shutdown, BeginShutdown, PostExit, Join, TakeEntry, Answered, requests, completion
<1>2. PICK x \in {"allocLink", "allocSwap", "push", "idle", "stop", "join", "over", "deliver", "free"} :
        pc' = [pc EXCEPT ![Main] = x]
  BY DEF AllocateLoad, AllocateLink, AllocateSwap, AllocateAgain, SubmitPost, SubmitInvalid,
     LetGo, Shutdown, BeginShutdown, PostExit, Join, TakeEntry, Answered, Goto
<1>3. mine' = mine \/ \E m : mine' = [mine EXCEPT ![Main] = m]
  BY DEF AllocateLoad, AllocateLink, AllocateSwap, AllocateAgain, SubmitPost, SubmitInvalid,
     LetGo, Shutdown, BeginShutdown, PostExit, Join, TakeEntry, Answered, locals
<1>4. \A u \in Threads : u # Main => pc'[u] = pc[u] /\ mine'[u] = mine[u]
  BY <1>2, <1>3, IoFacts
<1>5. pc'[Main] = x
  BY <1>2, IoFacts, ThreadFacts
<1> QED BY <1>1, <1>4, <1>5, NothingMoves, ThreadFacts DEF CompletePoints

LEMMA OtherAnswers ==
  ASSUME IoInv, AnswerInv, NEW t \in Threads,
         FreeLink(t) \/ FreeSwap(t) \/ WaitForWork(t) \/ PopEmpty(t)
  PROVE  AnswerInv'
<1>1. /\ queue' = queue /\ jobs' = jobs /\ ready' = ready /\ entry' = entry
      /\ request' = request /\ log' = log
  BY DEF FreeLink, FreeSwap, WaitForWork, PopEmpty, requests, completion
<1>2. PICK x \in {"freeSwap", "free", "wait", "idle", "pop", "undefinedIndex", "gone"} :
        pc' = [pc EXCEPT ![t] = x]
  BY DEF FreeLink, FreeSwap, Release, WaitForWork, PopEmpty, Goto
<1>3. mine' = mine \/ \E m : mine' = [mine EXCEPT ![t] = m]
  BY DEF FreeLink, FreeSwap, Release, WaitForWork, PopEmpty, locals
<1>4. \A u \in Threads : u # t => pc'[u] = pc[u] /\ mine'[u] = mine[u]
  BY <1>2, <1>3, IoFacts
<1>5. pc'[t] = x
  BY <1>2, IoFacts
<1> QED BY <1>1, <1>4, <1>5, NothingMoves DEF CompletePoints

LEMMA PopAnswers ==
  ASSUME IoInv, AnswerInv, NEW t \in IoThreads, Pop(t)
  PROVE  AnswerInv'
<1>1. /\ jobs' = jobs /\ ready' = ready /\ entry' = entry
      /\ queue # <<>> /\ queue' = Tail(queue) /\ Result(Head(queue), "IO_SUCCESS")
      /\ pc' = [pc EXCEPT ![t] = "process"] /\ mine' = [mine EXCEPT ![t] = Head(queue)]
  BY DEF Pop, completion, Goto
<1>2. PICK m \in Slots : m = Head(queue)
  BY <1>1, IoFacts, HeadTailProperties
<1>3. \A u \in Threads : /\ pc'[u] = IF u = t THEN "process" ELSE pc[u]
                         /\ mine'[u] = IF u = t THEN m ELSE mine[u]
  BY <1>1, <1>2, IoFacts
<1>4. \A s \in Slots : s # NoSlot
  BY NoSlotApart
<1>5. \A s \in Slots : /\ Begun(s)' => Begun(s) \/ s = m \/ s = NoSlot
                       /\ Completing(s)' => Completing(s) \/ s = NoSlot
  <2>1. MovesAtMost(t, m, NoSlot)
    BY <1>1, <1>3, ThreadFacts DEF MovesAtMost, CompletePoints
  <2> QED BY <2>1, OneMoves, ThreadFacts
<1>6. /\ Len(queue) \in Nat /\ DOMAIN queue = 1 .. Len(queue) /\ Len(queue) # 0
      /\ Head(queue) = queue[1]
  BY <1>1, IoFacts, LenProperties, EmptySeq, HeadTailProperties
<1>7. /\ DOMAIN queue' = 1 .. Len(queue) - 1
      /\ \A i \in 1 .. Len(queue) - 1 : queue'[i] = queue[i + 1]
  <2>1. /\ queue' \in Seq(Slots) /\ Len(queue') = Len(queue) - 1
        /\ \A i \in 1 .. Len(queue) - 1 : queue'[i] = queue[i + 1]
    BY <1>1, IoFacts, HeadTailProperties
  <2> QED BY <2>1, LenProperties
<1>8. \A s \in Slots : Queueing(s)' => Queueing(s)
  <2>1. \A i \in 1 .. Len(queue) - 1 : i + 1 \in 1 .. Len(queue)
    BY <1>6
  <2> QED BY <1>6, <1>7, <2>1 DEF Queueing
<1>9. UnderWay(m)
  <2>1. 1 \in DOMAIN queue /\ queue[1] = m
    BY <1>2, <1>6
  <2> QED BY <2>1 DEF UnderWay, Queueing
<1>10. PICK r \in Results : Result(m, r) /\ r # "IO_PROCESS_ERROR"
  BY <1>1, <1>2 DEF Results
<1>11. pc'[Main] = pc[Main] /\ mine'[Main] = mine[Main]
  BY <1>3, ThreadFacts
<1>12. \A s \in Slots : /\ Begun(s)' => Begun(s) \/ s = m
                        /\ Completing(s)' => request[s].complete \/ request[s].process
                        /\ jobs'[s] > 0 => request[s].process
  BY <1>1, <1>4, <1>5, RequestFacts
<1> QED BY <1>8, <1>9, <1>10, <1>11, <1>12, RequestsResult

\* The request of a thread that processes it.
LEMMA ProcessFacts ==
  ASSUME IoInv, NEW t \in IoThreads, pc[t] \in {"process", "reading"}
  PROVE  t \in Threads /\ mine[t] \in Slots /\ Begun(mine[t]) /\ UnderWay(mine[t])
<1>1. t \in Threads /\ mine[t] \in Slots
  BY ThreadFacts, HandFacts DEF Holding
<1> QED BY <1>1 DEF UnderWay, Begun

LEMMA ProcessAnswers ==
  ASSUME IoInv, AnswerInv, NEW t \in IoThreads,
         ProcessFails(t) \/ HandOverFails(t) \/ ProcessDone(t)
  PROVE  AnswerInv'
<1>1. /\ queue' = queue /\ jobs' = jobs /\ ready' = ready /\ entry' = entry /\ mine' = mine
      /\ pc[t] \in {"process", "reading"}
      /\ pc' = [pc EXCEPT ![t] = IF request[mine[t]].complete THEN "reserve" ELSE "free"]
  BY DEF ProcessFails, HandOverFails, ProcessDone, AccessDone, Answer, Goto, At, completion, locals
<1>2. t \in Threads /\ Begun(mine[t]) /\ UnderWay(mine[t])
  BY <1>1, ProcessFacts
<1>3. PICK m \in Slots : m = mine[t]
  BY <1>1, ProcessFacts
<1> DEFINE n == IF request[m].complete THEN m ELSE NoSlot
<1>4. \A u \in Threads :
        pc'[u] = IF u = t THEN IF request[m].complete THEN "reserve" ELSE "free" ELSE pc[u]
  BY <1>1, <1>3, IoFacts
<1>5. \A s \in Slots : /\ Begun(s)' => Begun(s) \/ s = m \/ s = n
                       /\ Completing(s)' => Completing(s) \/ s = n
  <2>1. MovesAtMost(t, m, n)
    BY <1>1, <1>2, <1>3, <1>4 DEF MovesAtMost, CompletePoints
  <2> QED BY <2>1, OneMoves, ThreadFacts
<1>6. \A s \in Slots : /\ Queueing(s)' => Queueing(s)
                       /\ Begun(s)' => Begun(s)
                       /\ Completing(s)' => request[s].complete \/ request[s].process
                       /\ jobs'[s] > 0 => request[s].process
  <2>1. \A s \in Slots : s = n => s = m /\ request[s].complete
    BY NoSlotApart
  <2> QED BY <1>1, <1>2, <1>3, <1>5, <2>1, QueueSame, RequestFacts
<1>7. pc'[Main] = pc[Main] /\ mine'[Main] = mine[Main]
  BY <1>1, <1>4, ThreadFacts
<1>8. CASE ProcessDone(t)
  <2>1. request' = request /\ log' = log
    BY <1>8 DEF ProcessDone, requests
  <2>2. NullSound'
    BY <1>7, <2>1, NullKept
  <2> QED BY <1>6, <2>1, <2>2, RequestsSame
<1>9. CASE ProcessFails(t) \/ HandOverFails(t)
  <2>1. PICK r \in Results :
          Result(m, r) /\ (r = "IO_PROCESS_ERROR" => request[m].process)
    BY <1>3, <1>9 DEF ProcessFails, HandOverFails, Results
  <2> QED BY <1>2, <1>3, <1>6, <1>7, <2>1, RequestsResult
<1> QED BY <1>8, <1>9

\* The io thread reads once more.
LEMMA ReadErsAnswers ==
  ASSUME IoInv, AnswerInv, NEW t \in IoThreads, ReadErs(t)
  PROVE  AnswerInv'
<1>1. /\ queue' = queue /\ jobs' = jobs /\ ready' = ready /\ entry' = entry /\ mine' = mine
      /\ request' = request /\ log' = log
      /\ pc[t] = "process" /\ pc' = [pc EXCEPT ![t] = "reading"]
  BY DEF ReadErs, Goto, At, completion, locals, requests
<1>2. t \in Threads /\ Begun(mine[t])
  BY <1>1, ProcessFacts
<1>3. \A u \in Threads : pc'[u] = IF u = t THEN "reading" ELSE pc[u]
  BY <1>1, IoFacts
<1>4. PICK m \in Slots : m = mine[t]
  BY <1>1, ProcessFacts
<1>5. \A s \in Slots : /\ Begun(s)' => Begun(s) \/ s = m \/ s = NoSlot
                       /\ Completing(s)' => Completing(s) \/ s = NoSlot
  <2>1. MovesAtMost(t, m, NoSlot)
    BY <1>1, <1>2, <1>3, <1>4 DEF MovesAtMost, CompletePoints
  <2> QED BY <1>2, <2>1, OneMoves
<1>6. \A s \in Slots : Begun(s)' => Begun(s)
  BY <1>2, <1>4, <1>5, NoSlotApart
<1>7. \A s \in Slots : Completing(s)' => Completing(s)
  BY <1>5, NoSlotApart
<1>8. NullSound'
  BY <1>1, <1>3, NullKept, ThreadFacts
<1> QED BY <1>1, <1>6, <1>7, <1>8, QueueSame, RequestsSame, RequestFacts

\* A job is lost: its request is in no thread's hands any more.
LEMMA JobLostAnswers ==
  ASSUME IoInv, AnswerInv, JobLost
  PROVE  AnswerInv'
<1>1. /\ queue' = queue /\ ready' = ready /\ entry' = entry /\ mine' = mine /\ pc' = pc
      /\ request' = request /\ log' = log
  BY DEF JobLost, completion, locals, requests
<1>2. \A s \in Slots : jobs'[s] > 0 => jobs[s] > 0
  <2>1. PICK m \in Slots : jobs[m] > 0 /\ jobs' = [jobs EXCEPT ![m] = @ - 1]
    BY DEF JobLost
  <2> QED BY <2>1, IoFacts
<1>3. \A s \in Slots : /\ Begun(s)' => Begun(s)
                       /\ Completing(s)' => Completing(s)
  <2>1. Threads' = Threads /\ Slots' = Slots
    BY DEF Threads, Slots
  <2> QED BY <1>1, <1>2, <2>1 DEF Begun, Completing
<1>4. NullSound'
  BY <1>1, NullKept
<1> QED BY <1>1, <1>2, <1>3, <1>4, QueueSame, RequestsSame, RequestFacts

LEMMA HandOverAnswers ==
  ASSUME IoInv, AnswerInv, NEW t \in IoThreads, HandOver(t)
  PROVE  AnswerInv'
<1>1. /\ queue' = queue /\ ready' = ready /\ entry' = entry /\ request' = request /\ log' = log
      /\ pc[t] \in {"process", "reading"} /\ request[mine[t]].process
      /\ pc' = [pc EXCEPT ![t] = "wait"] /\ mine' = [mine EXCEPT ![t] = NoSlot]
      /\ jobs' = [jobs EXCEPT ![mine[t]] = @ + 1]
  BY DEF HandOver, AccessDone, Release, Goto, At, requests, completion
<1>2. t \in Threads /\ Begun(mine[t]) /\ UnderWay(mine[t])
  BY <1>1, ProcessFacts
<1>3. PICK m \in Slots : m = mine[t]
  BY <1>1, ProcessFacts
<1>4. \A u \in Threads : /\ pc'[u] = IF u = t THEN "wait" ELSE pc[u]
                         /\ mine'[u] = IF u = t THEN NoSlot ELSE mine[u]
  BY <1>1, IoFacts
<1>5. \A s \in Slots : jobs'[s] > 0 => jobs[s] > 0 \/ s = m
  BY <1>1, <1>3, IoFacts
<1>6. \A s \in Slots : /\ Begun(s)' => Begun(s) \/ s = m
                       /\ Completing(s)' => Completing(s) \/ s = m
  <2>1. MovesAtMost(t, m, m)
    BY <1>1, <1>2, <1>4, <1>5 DEF MovesAtMost, CompletePoints
  <2> QED BY <2>1, OneMoves, ThreadFacts
<1>7. NullSound'
  BY <1>1, <1>4, NullKept, ThreadFacts
<1>8. \A s \in Slots : jobs'[s] > 0 => request[s].process
  BY <1>1, <1>3, <1>5, RequestFacts
<1> QED BY <1>1, <1>2, <1>3, <1>6, <1>7, <1>8, QueueSame, RequestsSame, RequestFacts

LEMMA RunProcessAnswers ==
  ASSUME IoInv, AnswerInv, NEW w \in Workers, RunProcess(w)
  PROVE  AnswerInv'
<1>1. /\ queue' = queue /\ ready' = ready /\ entry' = entry
      /\ pc' = [pc EXCEPT ![w] = "reserve"]
  BY DEF RunProcess, Goto, completion
<1>2. PICK m \in Slots, r \in Results :
        /\ jobs[m] > 0 /\ jobs' = [jobs EXCEPT ![m] = @ - 1]
        /\ mine' = [mine EXCEPT ![w] = m] /\ Result(m, r)
  BY DEF RunProcess, Results
<1>3. Completing(m) /\ Begun(m) /\ UnderWay(m)
  BY <1>2 DEF Completing, Begun, UnderWay
<1>4. \A u \in Threads : /\ pc'[u] = IF u = w THEN "reserve" ELSE pc[u]
                         /\ mine'[u] = IF u = w THEN m ELSE mine[u]
  BY <1>1, <1>2, IoFacts
<1>5. \A s \in Slots : jobs'[s] > 0 => jobs[s] > 0
  BY <1>2, IoFacts
<1>6. \A s \in Slots : /\ Begun(s)' => Begun(s) \/ s = m
                       /\ Completing(s)' => Completing(s) \/ s = m
  <2>1. MovesAtMost(w, m, m)
    BY <1>1, <1>4, <1>5, ThreadFacts DEF MovesAtMost, CompletePoints
  <2> QED BY <2>1, OneMoves, ThreadFacts
<1>7. request[m].process /\ \A s \in Slots : jobs'[s] > 0 => request[s].process
  BY <1>2, <1>5, RequestFacts
<1>8. \A s \in Slots : /\ Queueing(s)' => Queueing(s)
                       /\ Begun(s)' => Begun(s) \/ s = m
                       /\ Completing(s)' => request[s].complete \/ request[s].process
  BY <1>1, <1>3, <1>6, QueueSame, RequestFacts
<1>9. pc'[Main] = pc[Main] /\ mine'[Main] = mine[Main]
  BY <1>4, ThreadFacts
<1> QED BY <1>2, <1>3, <1>7, <1>8, <1>9, RequestsResult

LEMMA CompleteAnswers ==
  ASSUME IoInv, AnswerInv, NEW t \in IoThreads \cup Workers, SubmitComplete(t)
  PROVE  AnswerInv'
<1>1. queue' = queue /\ jobs' = jobs /\ request' = request /\ log' = log
  BY DEF SubmitComplete, Reserve, Enter, Publish, requests
<1>2. t \in Threads
  BY ThreadFacts
<1>3. pc[t] \in CompletePoints
  BY DEF SubmitComplete, Reserve, Enter, Publish, CompletePoints, At
<1>4. PICK m \in Slots : m = mine[t]
  BY <1>2, <1>3, HandFacts DEF Holding
<1>5. Completing(m) /\ Begun(m)
  BY <1>2, <1>3, <1>4 DEF Completing, Begun
<1>6. place[t] \in Slots
  BY <1>2, IoFacts
<1>7. \A s, i \in Slots : ready'[i] /\ entry'[i] = s => (ready[i] /\ entry[i] = s) \/ s = m
  <2>1. CASE Reserve(t)
    BY <2>1 DEF Reserve
  <2>2. CASE Enter(t)
    <3>1. ready' = ready /\ entry' = [entry EXCEPT ![place[t]] = m]
      BY <1>4, <2>2 DEF Enter
    <3> QED BY <1>6, <3>1, IoFacts
  <2>3. CASE Publish(t)
    <3>1. entry[place[t]] = m
      BY <1>2, <1>4, <2>3, EntryFacts DEF Publish, At
    <3>2. entry' = entry /\ ready' = [ready EXCEPT ![place[t]] = TRUE]
      BY <2>3 DEF Publish
    <3> QED BY <1>6, <3>1, <3>2, IoFacts
  <2> QED BY <2>1, <2>2, <2>3 DEF SubmitComplete
<1>8. \A u \in Threads : u # t => pc'[u] = pc[u] /\ mine'[u] = mine[u]
  <2>1. mine' = mine \/ mine' = [mine EXCEPT ![t] = NoSlot]
    BY DEF SubmitComplete, Reserve, Enter, Publish, Release, locals
  <2>2. \E x : pc' = [pc EXCEPT ![t] = x]
    BY DEF SubmitComplete, Reserve, Enter, Publish, Release, Goto
  <2> QED BY <2>1, <2>2, IoFacts
<1>9. \A s \in Slots : /\ mine'[t] = s /\ pc'[t] \in {"process", "reading"} => s = m
                       /\ mine'[t] = s /\ pc'[t] \in CompletePoints => s = m
  <2>1. mine' = mine \/ mine' = [mine EXCEPT ![t] = NoSlot]
    BY DEF SubmitComplete, Reserve, Enter, Publish, Release, locals
  <2> QED BY <1>2, <1>4, <2>1, IoFacts, NoSlotApart
<1>10. \A s \in Slots : /\ Begun(s)' => Begun(s) \/ s = m
                        /\ Completing(s)' => Completing(s) \/ s = m
  <2>1. MovesAtMost(t, m, m)
    BY <1>1, <1>2, <1>7, <1>8, <1>9 DEF MovesAtMost, CompletePoints
  <2> QED BY <2>1, OneMoves, ThreadFacts
<1>11. NullSound'
  BY <1>1, <1>8, NullKept, ThreadFacts
<1> QED BY <1>1, <1>5, <1>10, <1>11, QueueSame, RequestsSame, RequestFacts

\* A slot that the main thread submits a request in is not under way.
LEMMA NotUnderWay ==
  ASSUME IoInv, pc[Main] = "push"
  PROVE  /\ mine[Main] \in Slots /\ ~ UnderWay(mine[Main]) /\ ~ (jobs[mine[Main]] > 0)
         /\ \A i \in Slots : ~ (ready[i] /\ entry[i] = mine[Main])
         /\ \A u \in Threads : mine[u] = mine[Main] /\ pc[u] # "deliver" => u = Main
<1>1. PICK m \in Slots : m = mine[Main]
  BY HandFacts, ThreadFacts DEF Holding
<1>2. PICK f \in SlotLists : SlotsPlaced(f)
  BY DEF IoInv, ListAndPlaces
<1>3. /\ ~ (jobs[m] > 0)
      /\ \A i \in DOMAIN queue : queue[i] # m
      /\ \A i \in Slots : ~ (ready[i] /\ entry[i] = m)
      /\ \A u \in Threads : mine[u] = m /\ pc[u] # "deliver" => u = Main
  BY <1>1, <1>2, InHandOnly, ThreadFacts
<1>4. \A u \in Threads : mine[u] = m => pc[u] \notin {"process", "reading"} \cup CompletePoints
  BY <1>3 DEF CompletePoints
<1>5. ~ UnderWay(m)
  BY <1>3, <1>4 DEF UnderWay, Queueing, Begun
<1> QED BY <1>1, <1>3, <1>5

\* The main thread fills in the request in its hand and lets go of it.
LEMMA FilledMoves ==
  ASSUME IoInv, AnswerInv, pc[Main] = "push", NEW x \in {"post", "idle"},
         pc' = [pc EXCEPT ![Main] = x], mine' = [mine EXCEPT ![Main] = NoSlot],
         jobs' = jobs, ready' = ready, entry' = entry
  PROVE  /\ \A s \in Slots : /\ Begun(s)' => Begun(s) /\ s # mine[Main]
                             /\ Completing(s)' => Completing(s) /\ s # mine[Main]
         /\ pc'[Main] # "nullCall"
<1>1. PICK m \in Slots : m = mine[Main]
  BY NotUnderWay
<1>2. ~ Begun(m)
  BY <1>1, NotUnderWay DEF UnderWay
<1>3. \A u \in Threads : /\ pc'[u] = IF u = Main THEN x ELSE pc[u]
                         /\ mine'[u] = IF u = Main THEN NoSlot ELSE mine[u]
  BY IoFacts
<1>4. MovesAtMost(Main, NoSlot, NoSlot)
  BY <1>3, ThreadFacts DEF MovesAtMost, CompletePoints
<1>5. \A s \in Slots : /\ Begun(s)' => Begun(s)
                       /\ Completing(s)' => Completing(s)
  BY <1>4, OneMoves, ThreadFacts, NoSlotApart
<1>6. \A s \in Slots : Completing(s) => Begun(s)
  BY RequestFacts
<1>7. pc'[Main] # "nullCall"
  BY <1>3, ThreadFacts
<1> QED BY <1>1, <1>2, <1>5, <1>6, <1>7

\* The queue refuses a request: it has no record.
LEMMA RefusedAnswers ==
  ASSUME IoInv, AnswerInv, SubmitRefused
  PROVE  AnswerInv'
<1>1. /\ jobs' = jobs /\ ready' = ready /\ entry' = entry /\ queue' = queue /\ log' = log
      /\ pc[Main] = "push" /\ pc' = [pc EXCEPT ![Main] = "idle"]
      /\ mine' = [mine EXCEPT ![Main] = NoSlot] /\ Fill(mine[Main])
  BY DEF SubmitRefused, LetGo, completion, At, Goto
<1>2. PICK m \in Slots : m = mine[Main]
  BY <1>1, NotUnderWay
<1>3. /\ \A s \in Slots : /\ Begun(s)' => Begun(s) /\ s # m
                          /\ Completing(s)' => Completing(s) /\ s # m
      /\ pc'[Main] # "nullCall"
  BY <1>1, <1>2, FilledMoves
<1>4. \A q \in Slots : q # m => request'[q] = request[q]
  BY <1>1, <1>2, IoFacts DEF Fill
<1>5. \A s \in Slots : UnderWay(s)' => UnderWay(s) /\ s # m
  BY <1>1, <1>2, <1>3, NotUnderWay DEF UnderWay, Queueing
<1>6. \A s \in Slots : UnderWay(s)' =>
        /\ request'[s].of \in DOMAIN log' /\ log'[request'[s].of].answers = <<>>
        /\ log'[request'[s].of].wanted = request'[s].complete
        /\ request'[s].process <=> log'[request'[s].of].process # "none"
  BY <1>1, <1>4, <1>5, RequestFacts
<1>7. \A s \in Slots : Begun(s)' => log'[request'[s].of].outcome = request'[s].result
  BY <1>1, <1>3, <1>4, RequestFacts
<1>8. \A s \in Slots : Completing(s)' => request'[s].complete \/ request'[s].process
  BY <1>3, <1>4, RequestFacts
<1>9. \A s \in Slots : jobs'[s] > 0 => request'[s].process
  BY <1>1, <1>2, <1>4, NotUnderWay, RequestFacts
<1>10. \A s, q \in Slots : UnderWay(s)' /\ UnderWay(q)' /\ request'[s].of = request'[q].of => s = q
  BY <1>4, <1>5, RequestFacts
<1>11. NullSound'
  BY <1>3 DEF NullSound, At
<1> QED BY <1>1, <1>6, <1>7, <1>8, <1>9, <1>10, <1>11, RequestFacts, AnswerGoal

\* A new request has its own record, and none of its steps is taken.
LEMMA PushAnswers ==
  ASSUME IoInv, AnswerInv, SubmitPush
  PROVE  AnswerInv'
<1>1. /\ jobs' = jobs /\ ready' = ready /\ entry' = entry
      /\ pc[Main] = "push" /\ pc' = [pc EXCEPT ![Main] = "post"]
      /\ mine' = [mine EXCEPT ![Main] = NoSlot]
      /\ queue' = Append(queue, mine[Main]) /\ Fill(mine[Main])
      /\ log' = Append(log, [wanted |-> asked.complete, process |-> ProcessedBy(mine[Main]),
                            outcome |-> "none", answers |-> <<>>])
  BY DEF SubmitPush, LetGo, completion, At, Goto
<1>2. PICK m \in Slots : m = mine[Main]
  BY <1>1, NotUnderWay
<1>3. /\ asked \in [mode : {"read", "write"}, process : BOOLEAN, complete : BOOLEAN]
      /\ Len(log) + 1 \in 0 .. MaxRequests /\ Len(log) \in Nat
  <2>1. asked \in Kinds /\ Len(log) < MaxRequests
    BY <1>1 DEF IoInv, LogTyped
  <2>2. Len(log) \in Nat
    BY IoFacts, LenProperties
  <2> QED BY <2>1, <2>2, KindsAssumption, MaxRequestsAssumption
<1> DEFINE last == Len(log) + 1
           by == ProcessedBy(m)
<1>4. by \in {"none", "own", "left"}
      /\ (by # "none" <=> IF asked.mode = "read" THEN asked.process ELSE request[m].process)
  BY <1>3 DEF ProcessedBy
<1>5. /\ DOMAIN log' = 1 .. last /\ DOMAIN log = 1 .. Len(log)
      /\ \A i \in DOMAIN log : log'[i] = log[i]
      /\ log'[last] =
           [wanted |-> asked.complete, process |-> by, outcome |-> "none", answers |-> <<>>]
  <2>1. asked.complete \in BOOLEAN
    BY <1>3
  <2>2. log' = Append(log, [wanted |-> asked.complete, process |-> by,
                            outcome |-> "none", answers |-> <<>>])
    BY <1>1, <1>2
  <2> HIDE DEF by
  <2> QED BY <1>4, <2>1, <2>2, IoFacts, LogAccepted
<1>6. /\ \A q \in Slots : q # m => request'[q] = request[q]
      /\ request'[m].of = last /\ request'[m].complete = asked.complete
      /\ request'[m].process = IF asked.mode = "read" THEN asked.process ELSE request[m].process
  BY <1>1, <1>2, <1>3, FilledTypes
<1> HIDE DEF last, by
<1>7. /\ \A s \in Slots : /\ Begun(s)' => Begun(s) /\ s # m
                          /\ Completing(s)' => Completing(s) /\ s # m
      /\ pc'[Main] # "nullCall"
  BY <1>1, <1>2, FilledMoves
<1>8. \A s \in Slots : UnderWay(s)' => (UnderWay(s) /\ s # m) \/ s = m
  <2>1. /\ queue' \in Seq(Slots) /\ Len(queue') = Len(queue) + 1 /\ queue'[Len(queue) + 1] = m
        /\ \A i \in 1 .. Len(queue) : queue'[i] = queue[i]
        /\ Len(queue) \in Nat /\ DOMAIN queue = 1 .. Len(queue)
    BY <1>1, <1>2, IoFacts, AppendProperties, LenProperties
  <2>2. DOMAIN queue' = 1 .. Len(queue) + 1
    BY <2>1, LenProperties
  <2>3. \A s \in Slots : Queueing(s)' => Queueing(s) \/ s = m
    BY <2>1, <2>2 DEF Queueing
  <2> QED BY <1>7, <2>3 DEF UnderWay
<1>9. last \notin DOMAIN log /\ last \in DOMAIN log'
  BY <1>3, <1>5 DEF last
<1>10. \A s \in Slots : UnderWay(s)' =>
         /\ request'[s].of \in DOMAIN log' /\ log'[request'[s].of].answers = <<>>
         /\ log'[request'[s].of].wanted = request'[s].complete
         /\ request'[s].process <=> log'[request'[s].of].process # "none"
  <2>1. TAKE s \in Slots
  <2>2. CASE s = m
    BY <1>4, <1>5, <1>6, <1>9, <2>2
  <2>3. CASE s # m
    <3>1. SUFFICES ASSUME UnderWay(s)
                   PROVE  /\ request'[s].of \in DOMAIN log' /\ log'[request'[s].of].answers = <<>>
                          /\ log'[request'[s].of].wanted = request'[s].complete
                          /\ request'[s].process <=> log'[request'[s].of].process # "none"
      BY <1>8, <2>3
    <3>2. request[s].of \in DOMAIN log /\ request[s].of \in DOMAIN log'
      BY <1>3, <1>5, <3>1, RequestFacts DEF last
    <3> QED BY <1>5, <1>6, <2>3, <3>1, <3>2, RequestFacts
  <2> QED BY <2>2, <2>3
<1>11. \A s \in Slots : Begun(s)' => log'[request'[s].of].outcome = request'[s].result
  BY <1>5, <1>6, <1>7, RequestFacts DEF UnderWay
<1>12. \A s \in Slots : Completing(s)' => request'[s].complete \/ request'[s].process
  BY <1>6, <1>7, RequestFacts
<1>13. \A s \in Slots : jobs'[s] > 0 => request'[s].process
  BY <1>1, <1>2, <1>6, NotUnderWay, RequestFacts
<1>14. \A s, q \in Slots : UnderWay(s)' /\ UnderWay(q)' /\ request'[s].of = request'[q].of => s = q
  BY <1>6, <1>8, <1>9, RequestFacts
<1>15. \A i \in DOMAIN log' :
         /\ log'[i].answers # <<>> => log'[i].wanted /\ log'[i].answers = <<log'[i].outcome>>
         /\ log'[i].outcome = "IO_PROCESS_ERROR" => log'[i].process # "none"
  <2>1. TAKE i \in DOMAIN log'
  <2>2. i \in DOMAIN log \/ i = last
    BY <1>3, <1>5 DEF last
  <2> QED BY <1>5, <2>2, RequestFacts
<1>16. NullSound'
  BY <1>7 DEF NullSound, At
<1> QED BY <1>10, <1>11, <1>12, <1>13, <1>14, <1>15, <1>16, AnswerGoal

\* The slot of the request that is being answered is nowhere else.
LEMMA AnswerOnly ==
  ASSUME IoInv, answering \in Slots
  PROVE  ~ UnderWay(answering)
<1>1. PICK f \in SlotLists : SlotsPlaced(f)
  BY DEF IoInv, ListAndPlaces
<1>2. PICK s \in Slots : s = answering
  OBVIOUS
<1>3. Has(f, InAnswer, s)
  BY <1>2, HasForm
<1>4. \A x \in Places : Has(f, x, s) => x = InAnswer
  BY <1>1, <1>3, PlaceFacts DEF SlotsPlaced
<1>5. ~ Has(f, Queued, s) /\ ~ Has(f, WithJob, s)
  BY <1>4, PlaceFacts
<1>6. \A i \in Slots : ~ (ready[i] /\ entry[i] = s)
  BY <1>4, PlaceFacts, HasForm
<1>7. \A t \in Threads : ~ (mine[t] = s /\ pc[t] # "deliver")
  BY <1>4, PlaceFacts, HasForm DEF At
<1>8. ~ Queueing(s) /\ ~ (jobs[s] > 0)
  BY <1>5, HasForm DEF Queueing
<1>9. ~ Begun(s)
  BY <1>6, <1>7, <1>8 DEF Begun, CompletePoints
<1> QED BY <1>2, <1>8, <1>9 DEF UnderWay

\* The answer is the outcome of the request's last step, and its first one.
LEMMA DeliverAnswers ==
  ASSUME IoInv, IoInv', AnswerInv, Deliver
  PROVE  AnswerInv'
<1>1. /\ queue' = queue /\ jobs' = jobs /\ entry' = entry /\ request' = request
      /\ pc[Main] = "deliver" /\ pc' = [pc EXCEPT ![Main] = "idle"]
      /\ mine' = [mine EXCEPT ![Main] = NoSlot] /\ answering' = mine[Main]
      /\ ready' = [ready EXCEPT ![NextComplete] = FALSE] /\ request[mine[Main]].complete
  BY ThreadFacts DEF Deliver, Release, At, Goto
<1>2. PICK m \in Slots : m = mine[Main]
  BY <1>1, HandFacts, ThreadFacts DEF Holding
<1>3. NextComplete \in Slots /\ ready[NextComplete] /\ entry[NextComplete] = m
  BY <1>1, <1>2, Places01, EntryFacts DEF NextComplete
<1>4. Completing(m) /\ Begun(m) /\ UnderWay(m)
  BY <1>3 DEF Completing, Begun, UnderWay
<1> DEFINE k == request[m].of
<1>5. /\ k \in DOMAIN log /\ log[k].answers = <<>> /\ log[k].wanted
      /\ log[k].outcome = request[m].result
  BY <1>1, <1>2, <1>4, RequestFacts
<1>6. request[m].result \in Results
  BY IoFacts DEF Records
<1>7. /\ DOMAIN log' = DOMAIN log
      /\ \A i \in DOMAIN log :
           /\ log'[i].wanted = log[i].wanted /\ log'[i].outcome = log[i].outcome
           /\ log'[i].process = log[i].process
           /\ log'[i].answers = IF i = k THEN Append(log[i].answers, request[m].result)
                                ELSE log[i].answers
  <2>1. log' = [log EXCEPT ![k].answers = Append(@, request[m].result)]
    BY <1>2 DEF Deliver
  <2> HIDE DEF k
  <2> QED BY <1>6, <2>1, IoFacts, LogAnswered
<1>8. \A s \in Slots : UnderWay(s) /\ s # m => request[s].of # k
  BY <1>4, RequestFacts
<1>9. ~ UnderWay(m)'
  <2>1. (answering \in Slots => ~ UnderWay(answering))'
    <3>1. (answering \in Slots /\ IoInv => ~ UnderWay(answering))'
      BY AnswerOnly, PTL
    <3> QED BY <3>1
  <2>2. answering' = m /\ Slots' = Slots
    BY <1>1, <1>2 DEF Slots
  <2> QED BY <2>1, <2>2 DEF UnderWay, Queueing, Begun
<1> HIDE DEF k
<1>10. \A s \in Slots : /\ Begun(s)' => Begun(s)
                        /\ Completing(s)' => Completing(s)
                        /\ UnderWay(s)' => UnderWay(s) /\ s # m
  <2>1. \A u \in Threads : /\ pc'[u] = IF u = Main THEN "idle" ELSE pc[u]
                           /\ mine'[u] = IF u = Main THEN NoSlot ELSE mine[u]
    BY <1>1, IoFacts
  <2>2. \A i \in Slots : ready'[i] => ready[i]
    BY <1>1, <1>3, IoFacts
  <2>3. MovesAtMost(Main, NoSlot, NoSlot)
    BY <1>1, <2>1, <2>2, ThreadFacts DEF MovesAtMost, CompletePoints
  <2>4. \A s \in Slots : /\ Begun(s)' => Begun(s)
                         /\ Completing(s)' => Completing(s)
    BY <2>3, OneMoves, ThreadFacts, NoSlotApart
  <2> QED BY <1>1, <1>9, <2>4, QueueSame DEF UnderWay
<1>11. \A s \in Slots : Begun(s)' \/ Completing(s)' => UnderWay(s)'
  BY DEF Begun, Completing, UnderWay
<1>12. \A s \in Slots : UnderWay(s)' =>
         /\ request'[s].of \in DOMAIN log' /\ log'[request'[s].of].answers = <<>>
         /\ log'[request'[s].of].wanted = request'[s].complete
         /\ request'[s].process <=> log'[request'[s].of].process # "none"
  BY <1>1, <1>7, <1>8, <1>10, RequestFacts
<1>13. \A s \in Slots : Begun(s)' => log'[request'[s].of].outcome = request'[s].result
  BY <1>1, <1>7, <1>10, RequestFacts DEF UnderWay
<1>14. \A s \in Slots : /\ Completing(s)' => request'[s].complete \/ request'[s].process
                        /\ jobs'[s] > 0 => request'[s].process
  BY <1>1, <1>10, RequestFacts
<1>15. \A s, q \in Slots : UnderWay(s)' /\ UnderWay(q)' /\ request'[s].of = request'[q].of => s = q
  BY <1>1, <1>10, RequestFacts
<1>16. \A i \in DOMAIN log' :
         /\ log'[i].answers # <<>> => log'[i].wanted /\ log'[i].answers = <<log'[i].outcome>>
         /\ log'[i].outcome = "IO_PROCESS_ERROR" => log'[i].process # "none"
  <2>1. TAKE i \in DOMAIN log'
  <2>2. CASE i = k
    <3>1. Append(<<>>, request[m].result) = <<request[m].result>>
      OBVIOUS
    <3>2. log[k].answers = <<>> /\ log[k].wanted /\ log[k].outcome = request[m].result
      BY <1>5
    <3>3. /\ log'[k].wanted = log[k].wanted /\ log'[k].outcome = log[k].outcome
          /\ log'[k].process = log[k].process
      BY <1>7, <2>2
    <3>4. log'[k].answers = <<request[m].result>>
      BY <1>7, <2>2, <3>1, <3>2
    <3>5. log[k].outcome = "IO_PROCESS_ERROR" => log[k].process # "none"
      BY <1>5, RequestFacts
    <3> QED BY <2>2, <3>2, <3>3, <3>4, <3>5
  <2>3. CASE i # k
    BY <1>7, <2>3, RequestFacts
  <2> QED BY <2>2, <2>3
<1>17. NullSound'
  BY <1>1, IoFacts, ThreadFacts DEF NullSound, At
<1> QED BY <1>12, <1>13, <1>14, <1>15, <1>16, <1>17, AnswerGoal

\* The main thread calls NULL: a processing function has completed the request.
LEMMA CallNullAnswers ==
  ASSUME IoInv, AnswerInv, CallNull
  PROVE  AnswerInv'
<1>1. /\ queue' = queue /\ jobs' = jobs /\ entry' = entry /\ request' = request /\ log' = log
      /\ pc[Main] = "deliver" /\ pc' = [pc EXCEPT ![Main] = "nullCall"]
      /\ mine' = mine /\ ~ request[mine[Main]].complete
      /\ ready' = [ready EXCEPT ![NextComplete] = FALSE]
  BY DEF CallNull, At, Goto, requests, locals
<1>2. PICK m \in Slots : m = mine[Main]
  BY <1>1, HandFacts, ThreadFacts DEF Holding
<1>3. NextComplete \in Slots /\ ready[NextComplete] /\ entry[NextComplete] = m
  BY <1>1, <1>2, Places01, EntryFacts DEF NextComplete
<1>4. Completing(m) /\ UnderWay(m)
  BY <1>3 DEF Completing, Begun, UnderWay
<1>5. /\ request[m].of \in DOMAIN log /\ ~ log[request[m].of].wanted
      /\ log[request[m].of].process # "none"
  BY <1>1, <1>2, <1>4, RequestFacts
<1>6. NullSound'
  BY <1>1, <1>2, <1>5 DEF NullSound
<1>7. \A u \in Threads : pc'[u] = IF u = Main THEN "nullCall" ELSE pc[u]
  BY <1>1, IoFacts
<1>8. \A i \in Slots : ready'[i] => ready[i]
  BY <1>1, <1>3, IoFacts
<1>9. MovesAtMost(Main, NoSlot, NoSlot)
  BY <1>1, <1>7, <1>8, ThreadFacts DEF MovesAtMost, CompletePoints
<1>10. \A s \in Slots : /\ Begun(s)' => Begun(s)
                        /\ Completing(s)' => Completing(s)
  BY <1>9, OneMoves, ThreadFacts, NoSlotApart
<1> QED BY <1>1, <1>6, <1>10, QueueSame, RequestsSame, RequestFacts

LEMMA AnswerInit == Init => AnswerInv
<1> SUFFICES ASSUME Init PROVE AnswerInv
  OBVIOUS
<1> USE DEF Init
<1>1. DOMAIN log = {}
  OBVIOUS
<1>2. \A s \in Slots : ~ Queueing(s) /\ ~ Begun(s)
  <2>1. TAKE s \in Slots
  <2>2. ~ Queueing(s)
    BY DEF Queueing
  <2>3. \A t \in Threads : pc[t] \in {"wait", "idle"}
    OBVIOUS
  <2>4. ~ (jobs[s] > 0) /\ \A i \in Slots : ready[i] = FALSE
    OBVIOUS
  <2> QED BY <2>2, <2>3, <2>4 DEF Begun, CompletePoints
<1>3. pc[Main] = "idle"
  BY ThreadFacts
<1>4. OwnAnswer
  BY <1>1, <1>3 DEF OwnAnswer, At
<1>5. RequestsKept
  BY <1>2 DEF RequestsKept, UnderWay
<1> QED BY <1>4, <1>5 DEF AnswerInv

LEMMA AnswerStep == IoInv /\ IoInv' /\ AnswerInv /\ [Next]_vars => AnswerInv'
<1> SUFFICES ASSUME IoInv, IoInv', AnswerInv, [Next]_vars PROVE AnswerInv'
  OBVIOUS
<1>1. CASE UNCHANGED vars
  <2>1. /\ queue' = queue /\ jobs' = jobs /\ ready' = ready /\ entry' = entry
        /\ request' = request /\ log' = log /\ mine' = mine /\ pc' = pc
    BY <1>1 DEF vars, requests, completion, locals
  <2>2. \A s \in Slots : Queueing(s)' <=> Queueing(s)
    BY <2>1, QueueSame
  <2>3. \A s \in Slots : (Begun(s)' <=> Begun(s)) /\ (Completing(s)' <=> Completing(s))
    BY <2>1 DEF Begun, Completing, Threads, Slots
  <2>4. NullSound'
    BY <2>1, NullKept
  <2> QED BY <2>1, <2>2, <2>3, <2>4, RequestsSame, RequestFacts
<1>2. CASE Submit
  BY <1>2, MainAnswers, PushAnswers, RefusedAnswers DEF Submit
<1>3. CASE Update
  BY <1>3, MainAnswers, DeliverAnswers, CallNullAnswers, OtherAnswers, ThreadFacts DEF Update
<1>4. CASE Shutdown
  BY <1>4, MainAnswers
<1>5. ASSUME NEW t \in IoThreads, Io(t) PROVE AnswerInv'
  BY <1>5, OtherAnswers, PopAnswers, ProcessAnswers, ReadErsAnswers, HandOverAnswers,
     CompleteAnswers, ThreadFacts DEF Io
<1>6. ASSUME NEW w \in Workers, Worker(w) PROVE AnswerInv'
  BY <1>6, RunProcessAnswers, CompleteAnswers DEF Worker
<1>7. CASE JobLost
  BY <1>7, JobLostAnswers
<1> QED BY <1>1, <1>2, <1>3, <1>4, <1>5, <1>6, <1>7 DEF Next

\* Each answer is the only one of its request, was asked for, and is the outcome
\* of the request's own last step, though its slot was used before; and a request
\* is completed with an onComplete that is not there only after a processing
\* function, its own or one that a read has left in the slot.
THEOREM AnswersAreOwn == Spec => []OwnAnswer
<1>1. AnswerInv => OwnAnswer
  BY DEF AnswerInv
<1> QED BY <1>1, AnswerInit, AnswerStep, IoInvariant, PTL DEF Spec
=============================================================================
