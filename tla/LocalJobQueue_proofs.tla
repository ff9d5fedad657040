------------------------ MODULE LocalJobQueue_proofs ------------------------
(***************************************************************************)
(* Proofs about a worker's local queue: DequeInv is inductive, for any set *)
(* of thieves, any size of the ring and any number of jobs that the word   *)
(* can count; and every step of the queue is one of the deque it stands    *)
(* for, or none.                                                           *)
(***************************************************************************)
EXTENDS LocalJobQueue, TLAPS, SequenceTheorems

----------------------------------------------------------------------------
(* Remainders *)

\* The division theorem for a positive divisor.
LEMMA DivMod ==
  ASSUME NEW W \in Nat, W > 0, NEW p \in Int
  PROVE  /\ p \div W \in Int
         /\ p % W \in 0 .. W - 1
         /\ p = W * (p \div W) + (p % W)
OBVIOUS

\* A number already in range is its own remainder.
LEMMA ModSmall ==
  ASSUME NEW W \in Nat, W > 0, NEW d \in Int, 0 <= d, d < W
  PROVE  d % W = d
OBVIOUS

\* A small negative number wraps once.
LEMMA ModNegative ==
  ASSUME NEW W \in Nat, W > 0, NEW d \in Int, d < 0, d >= -W
  PROVE  d % W = d + W
OBVIOUS

\* The only multiple of W smaller than W in absolute value is 0.
LEMMA NoMultiple ==
  ASSUME NEW W \in Nat, W > 0, NEW k \in Int, -W < W * k, W * k < W
  PROVE  k = 0
<1>1. k >= 1 => W * k >= W
  OBVIOUS
<1>2. k <= -1 => W * k <= -W
  OBVIOUS
<1> QED BY <1>1, <1>2

\* Two numbers of one window of length W with the same remainder are equal.
LEMMA ModInjective ==
  ASSUME NEW W \in Nat, W > 0, NEW p \in Int, NEW q \in Int,
         p <= q, q < p + W, p % W = q % W
  PROVE  p = q
<1> DEFINE k == p \div W
<1> DEFINE l == q \div W
<1>1. /\ k \in Int /\ l \in Int /\ p % W \in Int
      /\ p = W * k + (p % W)
      /\ q = W * l + (q % W)
  BY DivMod
<1> HIDE DEF k, l
<1>2. q - p = W * (l - k)
  <2>1. W * (l - k) = W * l - W * k
    BY <1>1
  <2> QED BY <1>1, <2>1
<1>3. l - k = 0
  BY <1>1, <1>2, NoMultiple
<1> QED BY <1>1, <1>2, <1>3

----------------------------------------------------------------------------

USE DequeAssumption

----------------------------------------------------------------------------
(* Cells and word arithmetic *)

\* A place in the queue has a cell.
LEMMA CellType ==
  ASSUME NEW p \in Int
  PROVE  Cell(p) \in Cells
BY DivMod DEF Cell, Cells

\* Two places less than a ring apart have different cells.
LEMMA CellInjective ==
  ASSUME NEW p \in Int, NEW q \in Int, p - Size < q, q < p + Size,
         Cell(p) = Cell(q)
  PROVE  p = q
<1>1. CASE p <= q
  BY <1>1, ModInjective DEF Cell
<1>2. CASE q <= p
  BY <1>2, ModInjective DEF Cell
<1> QED BY <1>1, <1>2

\* Counters that are close enough are told apart by their last bits.
LEMMA WordExact ==
  ASSUME NEW a \in Int, NEW b \in Int,
         a - b <= MaxJobs + Size, b - a <= MaxJobs + Size
  PROVE  /\ Diff(a, b) = a - b
         /\ SameWord(a, b) <=> a = b
         /\ a >= b => Distance(a, b) = a - b
<1>1. CASE a >= b
  <2>1. (a - b) % Word = a - b
    BY <1>1, ModSmall
  <2> QED BY <2>1, <1>1 DEF Diff, SameWord, Distance
<1>2. CASE a < b
  <2>1. (a - b) % Word = (a - b) + Word
    BY <1>2, ModNegative
  <2> QED BY <2>1, <1>2 DEF Diff, SameWord
<1> QED BY <1>1, <1>2

----------------------------------------------------------------------------
(* Facts about a state of DequeInv *)

\* The counters are numbers, and End is bottom or one more.
LEMMA Counters ==
  ASSUME DequeInv
  PROVE  /\ top \in Nat /\ bottom \in Int /\ End \in Int /\ pushed \in Nat
         /\ pushed <= MaxJobs /\ batch \in 0 .. Size
         /\ top - 1 <= bottom /\ bottom <= End /\ End <= bottom + 1
         /\ Owner \in Threads /\ \A t \in Thieves : t \in Threads /\ t # Owner
         /\ \A t \in Threads : seen[t] \in Nat
BY DEF DequeInv, JobsConserved, TypeOK, End, Threads

\* Every test that a thread makes is exact.
LEMMA TestsExact ==
  ASSUME DequeInv
  PROVE  /\ Diff(bottom, top) = bottom - top
         /\ top <= bottom => Distance(bottom, top) = bottom - top
         /\ \A t \in Threads : /\ Diff(bottom, seen[t]) = bottom - seen[t]
                               /\ SameWord(top, seen[t]) <=> top = seen[t]
<1> USE Counters
<1>1. End <= Start + pushed /\ Start <= top /\ top <= Start + pushed
  BY DEF DequeInv, CountersInWindow
<1>2. \A t \in Threads : Start <= seen[t] /\ seen[t] <= top
  BY DEF DequeInv, CountersInWindow
<1>3. bottom - top <= MaxJobs + Size /\ top - bottom <= MaxJobs + Size
  BY <1>1
<1>4. ASSUME NEW t \in Threads
      PROVE  /\ bottom - seen[t] <= MaxJobs + Size /\ seen[t] - bottom <= MaxJobs + Size
             /\ top - seen[t] <= MaxJobs + Size /\ seen[t] - top <= MaxJobs + Size
  BY <1>1, <1>2
<1>5. Diff(bottom, top) = bottom - top /\ (top <= bottom => Distance(bottom, top) = bottom - top)
  BY <1>3, WordExact
<1>6. ASSUME NEW t \in Threads
      PROVE  Diff(bottom, seen[t]) = bottom - seen[t] /\ (SameWord(top, seen[t]) <=> top = seen[t])
  <2>1. bottom \in Int /\ top \in Int /\ seen[t] \in Int
    OBVIOUS
  <2>2. /\ bottom - seen[t] <= MaxJobs + Size /\ seen[t] - bottom <= MaxJobs + Size
        /\ top - seen[t] <= MaxJobs + Size /\ seen[t] - top <= MaxJobs + Size
    BY <1>4
  <2>3. Diff(bottom, seen[t]) = bottom - seen[t]
    BY ONLY <2>1, <2>2, WordExact
  <2>4. SameWord(top, seen[t]) <=> top = seen[t]
    BY ONLY <2>1, <2>2, WordExact
  <2> QED BY <2>3, <2>4
<1> QED BY <1>5, <1>6

----------------------------------------------------------------------------
(* Initial states *)

LEMMA InitDequeInv == Init => DequeInv
<1> SUFFICES ASSUME Init PROVE DequeInv
  OBVIOUS
<1>1. End = Start /\ Live = {}
  BY DEF Init, End, Live, Threads
<1>2. TypeOK
  BY DEF Init, TypeOK, Threads
<1>3. TakenOnce /\ NothingLost
  BY DEF Init, TakenOnce, NothingLost
<1>4. PointsOwned
  BY DEF Init, PointsOwned, Threads
<1>5. CountersInWindow
  BY <1>1 DEF Init, CountersInWindow, Threads
<1>6. LiveJobs
  BY <1>1 DEF Init, LiveJobs, Threads
<1>7. StealsHold
  BY DEF Init, StealsHold, Threads
<1> QED BY <1>2, <1>3, <1>4, <1>5, <1>6, <1>7 DEF DequeInv, JobsConserved

----------------------------------------------------------------------------
(* What a step does to the jobs in the queue *)

\* A step that leaves the jobs in their cells keeps what is said of them.
LEMMA JobsUntouched ==
  ASSUME DequeInv, Live' = Live, UNCHANGED <<data, pushed, taken>>,
         pc'[Owner] = "pushPublish" =>
           pc[Owner] = "pushPublish" /\ UNCHANGED <<bottom, batch>>
  PROVE  TakenOnce' /\ NothingLost' /\ LiveJobs'
<1>1. TakenOnce'
  BY DEF DequeInv, JobsConserved, TakenOnce
<1>2. NothingLost'
  BY DEF DequeInv, JobsConserved, NothingLost, Live
<1>3. LiveJobs'
  BY DEF DequeInv, LiveJobs
<1> QED BY <1>1, <1>2, <1>3

\* The job at one end is handed out.
LEMMA JobTaken ==
  ASSUME DequeInv, NEW x \in Live, Live' = Live \ {x},
         taken' = [taken EXCEPT ![data[Cell(x)]] = @ + 1],
         UNCHANGED <<data, pushed>>,
         pc'[Owner] = "pushPublish" =>
           pc[Owner] = "pushPublish" /\ UNCHANGED <<bottom, batch>>
  PROVE  TakenOnce' /\ NothingLost' /\ LiveJobs'
<1> DEFINE j == data[Cell(x)]
<1>1. j \in 1 .. pushed /\ taken[j] = 0 /\ j \in 1 .. MaxJobs
  BY Counters DEF DequeInv, LiveJobs
<1>2. \A k \in 1 .. MaxJobs : taken'[k] = IF k = j THEN 1 ELSE taken[k]
  BY <1>1 DEF DequeInv, JobsConserved, TypeOK
<1>3. \A p \in Live : p # x => data[Cell(p)] # j
  BY DEF DequeInv, LiveJobs
<1> HIDE DEF j
<1>4. TakenOnce'
  BY <1>1, <1>2 DEF DequeInv, JobsConserved, TakenOnce
<1>5. NothingLost'
  <2> SUFFICES ASSUME NEW k \in 1 .. pushed, taken'[k] = 0
               PROVE  \E p \in Live' : data[Cell(p)] = k
    BY DEF NothingLost, Live
  <2>1. k \in 1 .. MaxJobs /\ k # j /\ taken[k] = 0
    BY <1>2, Counters
  <2>2. PICK p \in Live : data[Cell(p)] = k
    BY <2>1 DEF DequeInv, JobsConserved, NothingLost, Live
  <2> QED BY <2>1, <2>2 DEF j
<1>6. LiveJobs'
  <2>1. \A p \in Live' : data[Cell(p)] \in 1 .. pushed /\ taken'[data[Cell(p)]] = 0
    BY <1>2, <1>3, Counters DEF DequeInv, LiveJobs
  <2> QED BY <2>1 DEF DequeInv, LiveJobs
<1> QED BY <1>4, <1>5, <1>6

----------------------------------------------------------------------------
(* The owner pushes *)

LEMMA PushLoadTopStep ==
  ASSUME DequeInv, NEW n \in 1 .. Size, PushLoadTop(n)
  PROVE  DequeInv'
<1> USE Counters
<1>1. /\ pc' = [pc EXCEPT ![Owner] = "pushWrite"] /\ pc[Owner] = "idle" /\ batch' = n
      /\ UNCHANGED <<top, bottom, data, seen, job, got, pushed, taken>>
  BY DEF PushLoadTop, Goto
<1>2. pc'[Owner] = "pushWrite" /\ \A t \in Thieves : pc'[t] = pc[t]
  BY <1>1 DEF DequeInv, JobsConserved, TypeOK
<1>3. End = bottom /\ End' = End /\ Live' = Live /\ top <= bottom
  BY <1>1, <1>2 DEF End, Live, DequeInv, CountersInWindow
<1>4. bottom + n <= top + Size /\ pushed + n <= MaxJobs
  <2>1. Distance(bottom, top) = bottom - top
    BY <1>3, TestsExact
  <2>2. Min(n, Size) = n
    BY DEF Min
  <2> QED BY <2>1, <2>2 DEF PushLoadTop, RoomForOne, RoomForBatch
<1>5. TypeOK'
  BY <1>1 DEF DequeInv, JobsConserved, TypeOK
<1>6. TakenOnce' /\ NothingLost' /\ LiveJobs'
  BY <1>1, <1>2, <1>3, JobsUntouched
<1>7. PointsOwned'
  BY <1>2 DEF DequeInv, PointsOwned
<1>8. CountersInWindow'
  BY <1>1, <1>2, <1>3, <1>4 DEF DequeInv, CountersInWindow
<1>9. StealsHold'
  BY <1>1, <1>2, <1>3 DEF DequeInv, StealsHold
<1> QED BY <1>5, <1>6, <1>7, <1>8, <1>9 DEF DequeInv, JobsConserved

\* The cells that are written hold no job that is still to be taken.
LEMMA PushWriteCells ==
  ASSUME DequeInv, PushWrite
  PROVE  /\ \A p \in Live : data'[Cell(p)] = data[Cell(p)]
         /\ \A i \in 0 .. batch - 1 : data'[Cell(bottom + i)] = pushed + 1 + i
         /\ data' \in [Cells -> 1 .. MaxJobs \cup {NoJob}]
<1> USE Counters
<1> DEFINE written(c) == {i \in 0 .. batch - 1 : Cell(bottom + i) = c}
<1>1. pc[Owner] = "pushWrite"
  BY DEF PushWrite
<1>2. /\ top <= bottom /\ bottom + batch <= top + Size /\ End = bottom
      /\ pushed + batch <= MaxJobs
  BY <1>1 DEF DequeInv, CountersInWindow, End
<1>3. \A c \in Cells : data'[c] = IF written(c) = {} THEN data[c]
         ELSE pushed + 1 + (CHOOSE i \in written(c) : \A k \in written(c) : i >= k)
  BY DEF PushWrite
<1>4. ASSUME NEW i \in 0 .. batch - 1
      PROVE  data'[Cell(bottom + i)] = pushed + 1 + i
  <2>1. \A k \in 0 .. batch - 1 : Cell(bottom + k) = Cell(bottom + i) => k = i
    BY <1>2, CellInjective
  <2>2. written(Cell(bottom + i)) = {i}
    BY <2>1
  <2>3. Cell(bottom + i) \in Cells
    BY CellType
  <2>4. (CHOOSE m \in {i} : \A k \in {i} : m >= k) = i
    OBVIOUS
  <2> QED BY <1>3, <2>2, <2>3, <2>4
<1>5. ASSUME NEW p \in Live
      PROVE  data'[Cell(p)] = data[Cell(p)]
  <2>1. p \in Int /\ top <= p /\ p < bottom
    BY <1>2 DEF Live
  <2>2. \A k \in 0 .. batch - 1 : Cell(bottom + k) # Cell(p)
    BY <1>2, <2>1, CellInjective
  <2>3. written(Cell(p)) = {}
    BY <2>2
  <2> QED BY <1>3, <2>1, <2>3, CellType
<1>6. ASSUME NEW c \in Cells
      PROVE  data'[c] \in 1 .. MaxJobs \cup {NoJob}
  <2>1. CASE written(c) = {}
    BY <1>3, <2>1 DEF DequeInv, JobsConserved, TypeOK
  <2>2. CASE written(c) # {}
    <3>1. PICK i \in 0 .. batch - 1 : Cell(bottom + i) = c
      BY <2>2
    <3>2. data'[c] = pushed + 1 + i
      BY <3>1, <1>4
    <3> QED BY <3>2, <1>2
  <2> QED BY <2>1, <2>2
<1>7. data' \in [Cells -> 1 .. MaxJobs \cup {NoJob}]
  <2>1. data' = [c \in Cells |-> data'[c]]
    BY DEF PushWrite
  <2> QED BY <1>6, <2>1
<1> QED BY <1>4, <1>5, <1>7

LEMMA PushWriteStep ==
  ASSUME DequeInv, PushWrite
  PROVE  DequeInv'
<1> USE Counters
<1>1. /\ pc' = [pc EXCEPT ![Owner] = "pushPublish"] /\ pc[Owner] = "pushWrite"
      /\ UNCHANGED <<top, bottom, seen, batch, job, got, pushed, taken>>
  BY DEF PushWrite, Goto
<1>2. pc'[Owner] = "pushPublish" /\ \A t \in Thieves : pc'[t] = pc[t]
  BY <1>1 DEF DequeInv, JobsConserved, TypeOK
<1>3. End' = End /\ Live' = Live
  BY <1>1, <1>2 DEF End, Live
<1>4. TypeOK'
  BY <1>1, PushWriteCells DEF DequeInv, JobsConserved, TypeOK
<1>5. TakenOnce'
  BY <1>1 DEF DequeInv, JobsConserved, TakenOnce
<1>6. NothingLost'
  BY <1>1, <1>3, PushWriteCells DEF DequeInv, JobsConserved, NothingLost, Live
<1>7. LiveJobs'
  BY <1>1, <1>3, PushWriteCells DEF DequeInv, LiveJobs
<1>8. PointsOwned'
  BY <1>2 DEF DequeInv, PointsOwned
<1>9. CountersInWindow'
  BY <1>1, <1>2, <1>3 DEF DequeInv, CountersInWindow
<1>10. StealsHold'
  <2>1. top < End => top \in Live
    BY DEF Live
  <2> QED BY <1>1, <1>2, <1>3, <2>1, PushWriteCells DEF DequeInv, StealsHold
<1> QED BY <1>4, <1>5, <1>6, <1>7, <1>8, <1>9, <1>10 DEF DequeInv, JobsConserved

LEMMA PushPublishStep ==
  ASSUME DequeInv, PushPublish
  PROVE  DequeInv'
<1> USE Counters
<1>1. /\ pc' = [pc EXCEPT ![Owner] = "idle"] /\ pc[Owner] = "pushPublish"
      /\ bottom' = bottom + batch /\ pushed' = pushed + batch /\ batch' = 0
      /\ UNCHANGED <<top, data, seen, job, got, taken>>
  BY DEF PushPublish, Goto
<1>2. pc'[Owner] = "idle" /\ \A t \in Thieves : pc'[t] = pc[t]
  BY <1>1 DEF DequeInv, JobsConserved, TypeOK
<1>3. /\ top <= bottom /\ bottom + batch <= top + Size /\ pushed + batch <= MaxJobs
      /\ batch > 0
  BY <1>1 DEF DequeInv, CountersInWindow
<1>4. End = bottom /\ End' = bottom + batch /\ top' = top
  BY <1>1, <1>2 DEF End
<1>5. \A p : p \in Live' <=> p \in Live \/ \E i \in 0 .. batch - 1 : p = bottom + i
  <2>1. Live' = top .. bottom + batch - 1 /\ Live = top .. bottom - 1
    BY <1>4 DEF Live
  <2>2. ASSUME NEW p \in Live', p \notin Live
        PROVE  \E i \in 0 .. batch - 1 : p = bottom + i
    <3>1. p \in Int /\ p <= bottom + batch - 1 /\ ~(p <= bottom - 1)
      BY <1>3, <2>1, <2>2
    <3>2. p - bottom \in 0 .. batch - 1 /\ p = bottom + (p - bottom)
      BY <3>1
    <3> QED BY <3>2
  <2>3. \A i \in 0 .. batch - 1 : bottom + i \in Live'
    <3>1. \A i \in 0 .. batch - 1 : bottom + i \in top .. bottom + batch - 1
      BY <1>3
    <3> QED BY <2>1, <3>1
  <2>4. \A p \in Live : p \in Live'
    BY <1>3, <2>1
  <2> QED BY <2>2, <2>3, <2>4
<1>6. /\ \A i \in 0 .. batch - 1 : data[Cell(bottom + i)] = pushed + 1 + i
      /\ \A p \in Live : data[Cell(p)] \in 1 .. pushed /\ taken[data[Cell(p)]] = 0
      /\ \A p, q \in Live : data[Cell(p)] = data[Cell(q)] => p = q
  BY <1>1 DEF DequeInv, LiveJobs
<1>7. \A j \in 1 .. MaxJobs : taken[j] \in Nat /\ taken[j] <= IF j <= pushed THEN 1 ELSE 0
  BY DEF DequeInv, JobsConserved, TakenOnce, TypeOK
<1>8. TypeOK'
  BY <1>1, <1>3 DEF DequeInv, JobsConserved, TypeOK
<1>9. TakenOnce'
  BY <1>1, <1>7 DEF TakenOnce
<1>10. NothingLost'
  <2> SUFFICES ASSUME NEW j \in 1 .. pushed', taken[j] = 0
               PROVE  \E p \in Live' : data[Cell(p)] = j
    BY <1>1 DEF NothingLost, Live
  <2>1. CASE j <= pushed
    <3>1. PICK p \in Live : data[Cell(p)] = j
      BY <2>1 DEF DequeInv, JobsConserved, NothingLost, Live
    <3> QED BY <3>1, <1>5
  <2>2. CASE j > pushed
    <3> DEFINE i == j - pushed - 1
    <3>1. i \in 0 .. batch - 1 /\ pushed + 1 + i = j
      BY <1>1, <2>2
    <3> HIDE DEF i
    <3> QED BY <3>1, <1>5, <1>6
  <2> QED BY <2>1, <2>2
<1>11. LiveJobs'
  <2>1. ASSUME NEW p \in Live'
        PROVE  data[Cell(p)] \in 1 .. pushed + batch /\ taken[data[Cell(p)]] = 0
    <3>1. CASE p \in Live
      BY <3>1, <1>6
    <3>2. CASE \E i \in 0 .. batch - 1 : p = bottom + i
      BY <3>2, <1>3, <1>6, <1>7
    <3> QED BY <3>1, <3>2, <1>5
  <2>2. ASSUME NEW p \in Live', NEW q \in Live', data[Cell(p)] = data[Cell(q)]
        PROVE  p = q
    <3>1. CASE p \in Live /\ q \in Live
      BY <3>1, <2>2, <1>6
    <3>2. CASE \E i \in 0 .. batch - 1 : p = bottom + i
      BY <3>2, <2>2, <1>5, <1>6
    <3>3. CASE \E i \in 0 .. batch - 1 : q = bottom + i
      BY <3>3, <2>2, <1>5, <1>6
    <3> QED BY <3>1, <3>2, <3>3, <1>5
  <2> QED BY <1>1, <1>2, <2>1, <2>2 DEF LiveJobs
<1>12. PointsOwned'
  BY <1>2 DEF DequeInv, PointsOwned
<1>13. CountersInWindow'
  BY <1>1, <1>2, <1>3, <1>4 DEF DequeInv, CountersInWindow
<1>14. StealsHold'
  BY <1>1, <1>2, <1>3, <1>4 DEF DequeInv, StealsHold
<1> QED BY <1>8, <1>9, <1>10, <1>11, <1>12, <1>13, <1>14 DEF DequeInv, JobsConserved

----------------------------------------------------------------------------
(* A job that is handed out *)

LEMMA HandsOutJob ==
  ASSUME DequeInv, NEW t \in Threads, NEW x \in Live, HandOut(t, data[Cell(x)])
  PROVE  /\ got' = [got EXCEPT ![t] = data[Cell(x)]]
         /\ taken' = [taken EXCEPT ![data[Cell(x)]] = @ + 1]
         /\ got' \in [Threads -> (1 .. MaxJobs) \cup {NoJob}]
         /\ taken' \in [1 .. MaxJobs -> Nat]
<1> DEFINE j == data[Cell(x)]
<1>1. j \in 1 .. MaxJobs /\ j # NoJob
  BY Counters DEF DequeInv, LiveJobs
<1>2. got \in [Threads -> (1 .. MaxJobs) \cup {NoJob}] /\ taken \in [1 .. MaxJobs -> Nat]
  BY DEF DequeInv, JobsConserved, TypeOK
<1>3. got' = [got EXCEPT ![t] = j] /\ taken' = [taken EXCEPT ![j] = @ + 1]
  BY <1>1 DEF HandOut
<1> HIDE DEF j
<1>4. got' \in [Threads -> (1 .. MaxJobs) \cup {NoJob}]
  BY <1>1, <1>2, <1>3
<1>5. taken' \in [1 .. MaxJobs -> Nat]
  BY <1>1, <1>2, <1>3
<1> QED BY <1>3, <1>4, <1>5 DEF j

----------------------------------------------------------------------------
(* The owner pulls *)

LEMMA PullClaimStep ==
  ASSUME DequeInv, PullClaim
  PROVE  DequeInv'
<1> USE Counters
<1>1. /\ pc' = [pc EXCEPT ![Owner] = "pullTop"] /\ pc[Owner] = "idle"
      /\ bottom' = bottom - 1
      /\ UNCHANGED <<top, data, seen, batch, job, got, pushed, taken>>
  BY DEF PullClaim, Goto
<1>2. pc'[Owner] = "pullTop" /\ \A t \in Thieves : pc'[t] = pc[t]
  BY <1>1 DEF DequeInv, JobsConserved, TypeOK
<1>3. top <= bottom /\ End = bottom /\ End' = End /\ Live' = Live
  BY <1>1, <1>2 DEF End, Live, DequeInv, CountersInWindow
<1>4. TypeOK'
  BY <1>1, <1>3 DEF DequeInv, JobsConserved, TypeOK
<1>5. TakenOnce' /\ NothingLost' /\ LiveJobs'
  BY <1>1, <1>2, <1>3, JobsUntouched
<1>6. PointsOwned'
  BY <1>2 DEF DequeInv, PointsOwned
<1>7. CountersInWindow'
  BY <1>1, <1>2, <1>3 DEF DequeInv, CountersInWindow
<1>8. StealsHold'
  BY <1>1, <1>2, <1>3 DEF DequeInv, StealsHold
<1> QED BY <1>4, <1>5, <1>6, <1>7, <1>8 DEF DequeInv, JobsConserved

LEMMA PullFindsNothingStep ==
  ASSUME DequeInv, PullFindsNothing
  PROVE  DequeInv' /\ End = top
<1> USE Counters, TestsExact
<1>1. /\ pc' = [pc EXCEPT ![Owner] = "pullEmpty"] /\ pc[Owner] = "pullTop"
      /\ seen' = [seen EXCEPT ![Owner] = top] /\ got' = [got EXCEPT ![Owner] = NoJob]
      /\ bottom < top
      /\ UNCHANGED <<top, bottom, data, batch, job, pushed, taken>>
  BY DEF PullFindsNothing, Goto, HandOut
<1>2. pc'[Owner] = "pullEmpty" /\ \A t \in Thieves : pc'[t] = pc[t]
  BY <1>1 DEF DequeInv, JobsConserved, TypeOK
<1>3. seen'[Owner] = top /\ \A t \in Thieves : seen'[t] = seen[t]
  BY <1>1 DEF DequeInv, JobsConserved, TypeOK
<1>4. bottom = top - 1 /\ End = bottom + 1 /\ End' = End /\ Live' = Live
  <2>1. bottom = top - 1
    BY <1>1
  <2>2. End = bottom + 1 /\ End' = bottom' + 1
    BY <1>1, <1>2 DEF End
  <2> QED BY <1>1, <2>1, <2>2 DEF Live
<1>5. TypeOK'
  BY <1>1 DEF DequeInv, JobsConserved, TypeOK
<1>6. TakenOnce' /\ NothingLost' /\ LiveJobs'
  BY <1>1, <1>2, <1>4, JobsUntouched
<1>7. PointsOwned'
  BY <1>2 DEF DequeInv, PointsOwned
<1>8. CountersInWindow'
  BY <1>1, <1>2, <1>3, <1>4 DEF DequeInv, CountersInWindow, Threads
<1>9. StealsHold'
  BY <1>1, <1>2, <1>3, <1>4 DEF DequeInv, StealsHold
<1> QED BY <1>4, <1>5, <1>6, <1>7, <1>8, <1>9 DEF DequeInv, JobsConserved

LEMMA PullEmptyStep ==
  ASSUME DequeInv, PullEmpty
  PROVE  DequeInv' /\ End' = End
<1> USE Counters
<1>1. /\ pc' = [pc EXCEPT ![Owner] = "idle"] /\ pc[Owner] = "pullEmpty"
      /\ bottom' = seen[Owner]
      /\ UNCHANGED <<top, data, seen, batch, job, got, pushed, taken>>
  BY DEF PullEmpty, Goto
<1>2. pc'[Owner] = "idle" /\ \A t \in Thieves : pc'[t] = pc[t]
  BY <1>1 DEF DequeInv, JobsConserved, TypeOK
<1>3. seen[Owner] = top /\ bottom = top - 1 /\ bottom' = top
  BY <1>1 DEF DequeInv, CountersInWindow
<1>4. End = top /\ End' = End /\ Live' = Live
  BY <1>1, <1>2, <1>3 DEF End, Live
<1>5. TypeOK'
  BY <1>1, <1>3 DEF DequeInv, JobsConserved, TypeOK
<1>6. TakenOnce' /\ NothingLost' /\ LiveJobs'
  BY <1>1, <1>2, <1>4, JobsUntouched
<1>7. PointsOwned'
  BY <1>2 DEF DequeInv, PointsOwned
<1>8. CountersInWindow'
  BY <1>1, <1>2, <1>3, <1>4 DEF DequeInv, CountersInWindow
<1>9. StealsHold'
  BY <1>1, <1>2, <1>4 DEF DequeInv, StealsHold
<1> QED BY <1>4, <1>5, <1>6, <1>7, <1>8, <1>9 DEF DequeInv, JobsConserved

LEMMA PullSomeStep ==
  ASSUME DequeInv, PullSome
  PROVE  /\ DequeInv' /\ top < End /\ End' = End - 1
         /\ got' = [got EXCEPT ![Owner] = data[Cell(End - 1)]]
<1> USE Counters, TestsExact
<1>1. /\ pc' = [pc EXCEPT ![Owner] = "idle"] /\ pc[Owner] = "pullTop"
      /\ HandOut(Owner, data[Cell(bottom)]) /\ bottom > top
      /\ UNCHANGED <<top, bottom, data, seen, batch, job, pushed>>
  BY DEF PullSome, Goto
<1>2. pc'[Owner] = "idle" /\ \A t \in Thieves : pc'[t] = pc[t]
  BY <1>1 DEF DequeInv, JobsConserved, TypeOK
<1>3. End = bottom + 1 /\ End' = bottom
  BY <1>1, <1>2 DEF End
<1>4. bottom \in Live /\ Live' = Live \ {bottom}
  BY <1>1, <1>3 DEF Live
<1>5. /\ taken' = [taken EXCEPT ![data[Cell(bottom)]] = @ + 1]
      /\ got' = [got EXCEPT ![Owner] = data[Cell(bottom)]]
      /\ got' \in [Threads -> (1 .. MaxJobs) \cup {NoJob}]
      /\ taken' \in [1 .. MaxJobs -> Nat]
  BY <1>1, <1>4, HandsOutJob
<1>6. End - 1 = bottom
  BY <1>3
<1>7. TypeOK'
  BY <1>1, <1>5 DEF DequeInv, JobsConserved, TypeOK
<1>8. TakenOnce' /\ NothingLost' /\ LiveJobs'
  BY <1>1, <1>2, <1>4, <1>5, JobTaken
<1>9. PointsOwned'
  BY <1>2 DEF DequeInv, PointsOwned
<1>10. CountersInWindow'
  BY <1>1, <1>2, <1>3 DEF DequeInv, CountersInWindow
<1>11. StealsHold'
  BY <1>1, <1>2, <1>3 DEF DequeInv, StealsHold
<1>12. got' = [got EXCEPT ![Owner] = data[Cell(End - 1)]]
  BY <1>5, <1>6, Zenon
<1>13. top < End /\ End' = End - 1
  BY <1>1, <1>3
<1> QED BY <1>12, <1>13, <1>7, <1>8, <1>9, <1>10, <1>11 DEF DequeInv, JobsConserved

LEMMA PullLastStep ==
  ASSUME DequeInv, PullLast
  PROVE  DequeInv' /\ End' = End
<1> USE Counters, TestsExact
<1>1. /\ pc' = [pc EXCEPT ![Owner] = "pullRace"] /\ pc[Owner] = "pullTop"
      /\ seen' = [seen EXCEPT ![Owner] = top] /\ bottom = top
      /\ UNCHANGED <<top, bottom, data, batch, job, got, pushed, taken>>
  BY DEF PullLast, Goto
<1>2. pc'[Owner] = "pullRace" /\ \A t \in Thieves : pc'[t] = pc[t]
  BY <1>1 DEF DequeInv, JobsConserved, TypeOK
<1>3. seen'[Owner] = top /\ \A t \in Thieves : seen'[t] = seen[t]
  BY <1>1 DEF DequeInv, JobsConserved, TypeOK
<1>4. End = bottom + 1 /\ End' = End /\ Live' = Live
  BY <1>1, <1>2 DEF End, Live
<1>5. TypeOK'
  BY <1>1 DEF DequeInv, JobsConserved, TypeOK
<1>6. TakenOnce' /\ NothingLost' /\ LiveJobs'
  BY <1>1, <1>2, <1>4, JobsUntouched
<1>7. PointsOwned'
  BY <1>2 DEF DequeInv, PointsOwned
<1>8. CountersInWindow'
  BY <1>1, <1>2, <1>3, <1>4 DEF DequeInv, CountersInWindow, Threads
<1>9. StealsHold'
  BY <1>1, <1>2, <1>3, <1>4 DEF DequeInv, StealsHold
<1> QED BY <1>4, <1>5, <1>6, <1>7, <1>8, <1>9 DEF DequeInv, JobsConserved

\* The owner gets the last job, or a thief has got it.
LEMMA PullRaceStep ==
  ASSUME DequeInv, PullRace
  PROVE  /\ DequeInv'
         /\ \/ /\ top < End /\ End = top + 1 /\ top' = top + 1 /\ End' = End - 1
               /\ got' = [got EXCEPT ![Owner] = data[Cell(End - 1)]]
            \/ /\ End <= top /\ top' = top /\ Live' = {} /\ Live = {}
               /\ got' = [got EXCEPT ![Owner] = NoJob]
<1> USE Counters, TestsExact
<1>1. /\ pc' = [pc EXCEPT ![Owner] = "pullRestore"] /\ pc[Owner] = "pullRace"
      /\ UNCHANGED <<bottom, data, seen, batch, job, pushed>>
  BY DEF PullRace, Goto
<1>2. pc'[Owner] = "pullRestore" /\ \A t \in Thieves : pc'[t] = pc[t]
  BY <1>1 DEF DequeInv, JobsConserved, TypeOK
<1>3. seen[Owner] = bottom /\ bottom <= top /\ End = bottom + 1 /\ End' = bottom
  BY <1>1, <1>2 DEF DequeInv, CountersInWindow, End
<1>4. PointsOwned'
  BY <1>2 DEF DequeInv, PointsOwned
<1>5. CASE top = bottom
  <2>1. top' = top + 1 /\ HandOut(Owner, data[Cell(bottom)])
    BY <1>3, <1>5 DEF PullRace
  <2>2. bottom \in Live /\ Live' = Live \ {bottom}
    BY <1>3, <1>5, <2>1 DEF Live
  <2>3. /\ taken' = [taken EXCEPT ![data[Cell(bottom)]] = @ + 1]
        /\ got' = [got EXCEPT ![Owner] = data[Cell(bottom)]]
        /\ got' \in [Threads -> (1 .. MaxJobs) \cup {NoJob}]
        /\ taken' \in [1 .. MaxJobs -> Nat]
    BY <2>1, <2>2, HandsOutJob
  <2>4. End - 1 = bottom
    BY <1>3
  <2>5. TypeOK'
    <3>1. TypeOK
      BY DEF DequeInv, JobsConserved
    <3>2. top' \in Nat /\ top' - 1 <= bottom' /\ bottom' <= top' + Size
      BY <1>1, <1>5, <2>1, <3>1 DEF TypeOK
    <3> QED BY <1>1, <2>3, <3>1, <3>2 DEF TypeOK
  <2>6. TakenOnce' /\ NothingLost' /\ LiveJobs'
    BY <1>1, <1>2, <2>2, <2>3, JobTaken
  <2>7. CountersInWindow'
    BY <1>1, <1>2, <1>3, <1>5, <2>1 DEF DequeInv, CountersInWindow
  <2>8. StealsHold'
    BY <1>1, <1>2, <2>1 DEF DequeInv, CountersInWindow, StealsHold
  <2>9. got' = [got EXCEPT ![Owner] = data[Cell(End - 1)]]
    BY <2>3, <2>4, Zenon
  <2>10. top < End /\ End = top + 1 /\ top' = top + 1 /\ End' = End - 1
    BY <1>3, <1>5, <2>1
  <2> QED BY <1>4, <2>9, <2>10, <2>5, <2>6, <2>7, <2>8 DEF DequeInv, JobsConserved
<1>6. CASE top # bottom
  <2>1. UNCHANGED <<top, taken>> /\ got' = [got EXCEPT ![Owner] = NoJob]
    BY <1>3, <1>6 DEF PullRace, HandOut
  <2>2. bottom = top - 1
    BY <1>3, <1>6
  <2>3. Live = {} /\ Live' = {}
    BY <1>3, <2>1, <2>2 DEF Live
  <2>4. TypeOK'
    BY <1>1, <2>1 DEF DequeInv, JobsConserved, TypeOK
  <2>5. TakenOnce' /\ NothingLost' /\ LiveJobs'
    BY <1>1, <1>2, <2>1, <2>3, JobsUntouched
  <2>6. CountersInWindow'
    BY <1>1, <1>2, <1>3, <2>1, <2>2 DEF DequeInv, CountersInWindow
  <2>7. StealsHold'
    BY <1>1, <1>2, <1>3, <2>1, <2>2 DEF DequeInv, StealsHold
  <2> QED BY <1>3, <1>4, <2>1, <2>2, <2>3, <2>4, <2>5, <2>6, <2>7 DEF DequeInv, JobsConserved
<1> QED BY <1>5, <1>6

LEMMA PullRestoreStep ==
  ASSUME DequeInv, PullRestore
  PROVE  DequeInv' /\ Live = {} /\ Live' = {}
<1> USE Counters
<1>1. /\ pc' = [pc EXCEPT ![Owner] = "idle"] /\ pc[Owner] = "pullRestore"
      /\ bottom' = bottom + 1
      /\ UNCHANGED <<top, data, seen, batch, job, got, pushed, taken>>
  BY DEF PullRestore, Goto
<1>2. pc'[Owner] = "idle" /\ \A t \in Thieves : pc'[t] = pc[t]
  BY <1>1 DEF DequeInv, JobsConserved, TypeOK
<1>3. bottom = top - 1 /\ bottom' = top
  BY <1>1 DEF DequeInv, CountersInWindow
<1>4. End = top - 1 /\ End' = top /\ Live = {} /\ Live' = {}
  BY <1>1, <1>2, <1>3 DEF End, Live
<1>5. TypeOK'
  BY <1>1, <1>3 DEF DequeInv, JobsConserved, TypeOK
<1>6. TakenOnce' /\ NothingLost' /\ LiveJobs'
  BY <1>1, <1>2, <1>4, JobsUntouched
<1>7. PointsOwned'
  BY <1>2 DEF DequeInv, PointsOwned
<1>8. CountersInWindow'
  BY <1>1, <1>2, <1>3, <1>4 DEF DequeInv, CountersInWindow
<1>9. StealsHold'
  BY <1>1, <1>2, <1>4 DEF DequeInv, StealsHold
<1> QED BY <1>4, <1>5, <1>6, <1>7, <1>8, <1>9 DEF DequeInv, JobsConserved

----------------------------------------------------------------------------
(* A thief steals *)

LEMMA StealLoadTopStep ==
  ASSUME DequeInv, NEW t \in Thieves, StealLoadTop(t)
  PROVE  DequeInv' /\ End' = End
<1> USE Counters
<1>1. /\ pc' = [pc EXCEPT ![t] = "stealBottom"] /\ seen' = [seen EXCEPT ![t] = top]
      /\ UNCHANGED <<top, bottom, data, batch, job, got, pushed, taken>>
  BY DEF StealLoadTop, Goto
<1>2. pc'[t] = "stealBottom" /\ \A u \in Threads : u # t => pc'[u] = pc[u] /\ seen'[u] = seen[u]
  BY <1>1 DEF DequeInv, JobsConserved, TypeOK
<1>3. seen'[t] = top
  BY <1>1 DEF DequeInv, JobsConserved, TypeOK
<1>4. End' = End /\ Live' = Live
  BY <1>1, <1>2 DEF End, Live
<1>5. TypeOK'
  BY <1>1 DEF DequeInv, JobsConserved, TypeOK
<1>6. TakenOnce' /\ NothingLost' /\ LiveJobs'
  BY <1>1, <1>2, <1>4, JobsUntouched
<1>7. PointsOwned'
  BY <1>2 DEF DequeInv, PointsOwned
<1>8. CountersInWindow'
  BY <1>1, <1>2, <1>3, <1>4 DEF DequeInv, CountersInWindow
<1>9. StealsHold'
  BY <1>1, <1>2, <1>3, <1>4 DEF DequeInv, StealsHold
<1> QED BY <1>4, <1>5, <1>6, <1>7, <1>8, <1>9 DEF DequeInv, JobsConserved

LEMMA StealLoadBottomStep ==
  ASSUME DequeInv, NEW t \in Thieves, StealLoadBottom(t)
  PROVE  /\ DequeInv' /\ End' = End
         /\ got' = got \/ got' = [got EXCEPT ![t] = NoJob]
<1> USE Counters, TestsExact
<1>1. /\ pc' = [pc EXCEPT ![t] = IF bottom <= seen[t] THEN "idle" ELSE "stealRead"]
      /\ got' = IF bottom <= seen[t] THEN [got EXCEPT ![t] = NoJob] ELSE got
      /\ UNCHANGED <<top, bottom, data, seen, batch, job, pushed, taken>>
  BY DEF StealLoadBottom, Goto, HandOut
<1>2. /\ pc'[t] = IF bottom <= seen[t] THEN "idle" ELSE "stealRead"
      /\ \A u \in Threads : u # t => pc'[u] = pc[u]
  BY <1>1 DEF DequeInv, JobsConserved, TypeOK
<1>3. End' = End /\ Live' = Live
  BY <1>1, <1>2 DEF End, Live
<1>4. TypeOK'
  BY <1>1 DEF DequeInv, JobsConserved, TypeOK
<1>5. TakenOnce' /\ NothingLost' /\ LiveJobs'
  BY <1>1, <1>2, <1>3, JobsUntouched
<1>6. PointsOwned'
  BY <1>2 DEF DequeInv, PointsOwned
<1>7. CountersInWindow'
  BY <1>1, <1>2, <1>3 DEF DequeInv, CountersInWindow
<1>8. StealsHold'
  BY <1>1, <1>2, <1>3 DEF DequeInv, StealsHold
<1> QED BY <1>1, <1>3, <1>4, <1>5, <1>6, <1>7, <1>8 DEF DequeInv, JobsConserved

LEMMA StealReadStep ==
  ASSUME DequeInv, NEW t \in Thieves, StealRead(t)
  PROVE  DequeInv' /\ End' = End
<1> USE Counters
<1>1. /\ pc' = [pc EXCEPT ![t] = "stealRace"] /\ pc[t] = "stealRead"
      /\ job' = [job EXCEPT ![t] = data[Cell(seen[t])]]
      /\ UNCHANGED <<top, bottom, data, seen, batch, got, pushed, taken>>
  BY DEF StealRead, Goto
<1>2. pc'[t] = "stealRace" /\ \A u \in Threads : u # t => pc'[u] = pc[u]
  BY <1>1 DEF DequeInv, JobsConserved, TypeOK
<1>3. job'[t] = data[Cell(seen[t])] /\ \A u \in Thieves : u # t => job'[u] = job[u]
  BY <1>1 DEF DequeInv, JobsConserved, TypeOK
<1>4. End' = End /\ Live' = Live
  BY <1>1, <1>2 DEF End, Live
<1>5. TypeOK'
  <2>1. data[Cell(seen[t])] \in 1 .. MaxJobs \cup {NoJob}
    BY CellType DEF DequeInv, JobsConserved, TypeOK
  <2> QED BY <1>1, <2>1 DEF DequeInv, JobsConserved, TypeOK
<1>6. TakenOnce' /\ NothingLost' /\ LiveJobs'
  BY <1>1, <1>2, <1>4, JobsUntouched
<1>7. PointsOwned'
  BY <1>2 DEF DequeInv, PointsOwned
<1>8. CountersInWindow'
  BY <1>1, <1>2, <1>4 DEF DequeInv, CountersInWindow
<1>9. StealsHold'
  BY <1>1, <1>2, <1>3, <1>4 DEF DequeInv, StealsHold
<1> QED BY <1>4, <1>5, <1>6, <1>7, <1>8, <1>9 DEF DequeInv, JobsConserved

\* The thief gets the oldest job, or somebody was faster.
LEMMA StealRaceStep ==
  ASSUME DequeInv, NEW t \in Thieves, StealRace(t)
  PROVE  /\ DequeInv' /\ End' = End
         /\ \/ /\ top < End /\ top' = top + 1
               /\ got' = [got EXCEPT ![t] = data[Cell(top)]]
            \/ top' = top /\ got' = [got EXCEPT ![t] = NoJob]
<1> USE Counters, TestsExact
<1>1. /\ pc' = [pc EXCEPT ![t] = "idle"] /\ pc[t] = "stealRace"
      /\ job' = [job EXCEPT ![t] = NoJob]
      /\ UNCHANGED <<bottom, data, seen, batch, pushed>>
  BY DEF StealRace, Goto
<1>2. pc'[t] = "idle" /\ \A u \in Threads : u # t => pc'[u] = pc[u]
  BY <1>1 DEF DequeInv, JobsConserved, TypeOK
<1>3. \A u \in Thieves : u # t => job'[u] = job[u]
  BY <1>1 DEF DequeInv, JobsConserved, TypeOK
<1>4. End' = End
  BY <1>1, <1>2 DEF End
<1>5. PointsOwned'
  BY <1>2 DEF DequeInv, PointsOwned
<1>6. CASE top = seen[t]
  <2>1. top' = top + 1 /\ HandOut(t, job[t])
    BY <1>6 DEF StealRace
  <2>2. top < End /\ job[t] = data[Cell(top)]
    BY <1>1, <1>6 DEF DequeInv, StealsHold
  <2>3. top \in Live /\ Live' = Live \ {top}
    BY <1>4, <2>1, <2>2 DEF Live
  <2>4. /\ taken' = [taken EXCEPT ![data[Cell(top)]] = @ + 1]
        /\ got' = [got EXCEPT ![t] = data[Cell(top)]]
        /\ got' \in [Threads -> (1 .. MaxJobs) \cup {NoJob}]
        /\ taken' \in [1 .. MaxJobs -> Nat]
    BY <2>1, <2>2, <2>3, HandsOutJob
  <2>5. top' - 1 <= bottom /\ bottom <= top' + Size
    <3>1. bottom <= top + Size
      BY DEF DequeInv, JobsConserved, TypeOK
    <3>2. top <= bottom
      BY <2>2
    <3> QED BY <2>1, <3>1, <3>2
  <2>6. TypeOK'
    <3>1. /\ pc' \in [Threads -> {"idle", "pushWrite", "pushPublish", "pullTop", "pullEmpty",
                "pullRace", "pullRestore", "stealBottom", "stealRead", "stealRace"}]
          /\ job' \in [Thieves -> (1 .. MaxJobs) \cup {NoJob}]
      BY <1>1 DEF DequeInv, JobsConserved, TypeOK
    <3>2. top' \in Nat
      BY <2>1
    <3> QED BY <1>1, <2>4, <2>5, <3>1, <3>2 DEF DequeInv, JobsConserved, TypeOK
  <2>7. TakenOnce' /\ NothingLost' /\ LiveJobs'
    BY <1>1, <1>2, <2>3, <2>4, JobTaken
  <2>8. CountersInWindow'
    <3>1. /\ Start <= top' /\ top' <= Start + pushed' /\ End' <= Start + pushed'
          /\ End' <= top' + Size
      BY <1>1, <1>4, <2>1, <2>2 DEF DequeInv, CountersInWindow
    <3>2. \A u \in Threads : Start <= seen'[u] /\ seen'[u] <= top'
      BY <1>1, <2>1 DEF DequeInv, CountersInWindow
    <3>3. pc'[Owner] \notin {"pullEmpty", "pullRestore"}
      BY <1>2, <2>2 DEF DequeInv, CountersInWindow, End
    <3>4. pc'[Owner] = pc[Owner] /\ UNCHANGED <<bottom, batch, pushed, seen>>
      BY <1>1, <1>2
    <3>5. pc[Owner] \in {"idle", "pushWrite", "pushPublish"} => top' <= bottom
      BY <2>1, <2>2 DEF End
    <3>6. pc[Owner] \in {"pushWrite", "pushPublish"} =>
            batch > 0 /\ bottom + batch <= top' + Size /\ pushed + batch <= MaxJobs
      BY <2>1 DEF DequeInv, CountersInWindow
    <3>7. pc[Owner] = "pullRace" => seen[Owner] = bottom /\ bottom <= top'
      BY <2>1 DEF DequeInv, CountersInWindow
    <3> QED BY <3>1, <3>2, <3>3, <3>4, <3>5, <3>6, <3>7 DEF CountersInWindow
  <2>9. StealsHold'
    BY <1>1, <1>2, <2>1 DEF DequeInv, CountersInWindow, StealsHold
  <2> QED BY <1>4, <1>5, <2>1, <2>2, <2>4, <2>6, <2>7, <2>8, <2>9 DEF DequeInv, JobsConserved
<1>7. CASE top # seen[t]
  <2>1. UNCHANGED <<top, taken>> /\ got' = [got EXCEPT ![t] = NoJob]
    BY <1>7 DEF StealRace, HandOut
  <2>2. Live' = Live
    BY <1>4, <2>1 DEF Live
  <2>3. TypeOK'
    BY <1>1, <2>1 DEF DequeInv, JobsConserved, TypeOK
  <2>4. TakenOnce' /\ NothingLost' /\ LiveJobs'
    BY <1>1, <1>2, <2>1, <2>2, JobsUntouched
  <2>5. CountersInWindow'
    BY <1>1, <1>2, <1>4, <2>1 DEF DequeInv, CountersInWindow
  <2>6. StealsHold'
    BY <1>1, <1>2, <1>3, <1>4, <2>1 DEF DequeInv, StealsHold
  <2> QED BY <1>4, <1>5, <2>1, <2>3, <2>4, <2>5, <2>6 DEF DequeInv, JobsConserved
<1> QED BY <1>6, <1>7

----------------------------------------------------------------------------
(* The invariant *)

LEMMA UnchangedStep ==
  ASSUME DequeInv, UNCHANGED vars
  PROVE  DequeInv'
BY DEF vars, DequeInv, JobsConserved, TypeOK, TakenOnce, NothingLost, PointsOwned,
       CountersInWindow, LiveJobs, StealsHold, Live, End

LEMMA NextDequeInv == DequeInv /\ [Next]_vars => DequeInv'
<1> SUFFICES ASSUME DequeInv, [Next]_vars PROVE DequeInv'
  OBVIOUS
<1>1. CASE OwnerStep
  BY <1>1, PushLoadTopStep, PushWriteStep, PushPublishStep, PullClaimStep,
     PullFindsNothingStep, PullEmptyStep, PullSomeStep, PullLastStep, PullRaceStep,
     PullRestoreStep DEF OwnerStep
<1>2. ASSUME NEW t \in Thieves, Steal(t) PROVE DequeInv'
  BY <1>2, StealLoadTopStep, StealLoadBottomStep, StealReadStep, StealRaceStep DEF Steal
<1>3. CASE UNCHANGED vars
  BY <1>3, UnchangedStep
<1> QED BY <1>1, <1>2, <1>3 DEF Next

\* The invariant holds in every reachable state of the queue: the race of the
\* owner with the thieves for the last job, and of the thieves with each other,
\* leaves every job in the queue or with exactly one of them (jobQueue.c:73-137).
THEOREM DequeInvariant == Spec => []DequeInv
BY InitDequeInv, NextDequeInv, PTL DEF Spec

\* In particular no job is lost and none is handed out twice, for any number of
\* thieves, any ring size and any distance the word can count.
THEOREM DequeConservesJobs == Spec => []JobsConserved
<1>1. DequeInv => JobsConserved
  BY DEF DequeInv
<1> QED BY <1>1, DequeInvariant, PTL

----------------------------------------------------------------------------
(* The window of the ring as a sequence *)

LEMMA WindowSeq ==
  ASSUME NEW S, NEW d, NEW a \in Int, NEW b \in Int,
         \A p \in a .. b - 1 : d[Cell(p)] \in S
  PROVE  Window(d, a, b) \in Seq(S)
<1> DEFINE n == IF a < b THEN b - a ELSE 0
<1>1. n \in Nat /\ 1 .. b - a = 1 .. n
  OBVIOUS
<1>2. Window(d, a, b) = [i \in 1 .. n |-> d[Cell(a + i - 1)]]
  BY <1>1 DEF Window
<1>3. \A i \in 1 .. n : a + i - 1 \in a .. b - 1
  OBVIOUS
<1>4. \A i \in 1 .. n : d[Cell(a + i - 1)] \in S
  BY <1>3
<1> HIDE DEF n
<1> QED BY <1>1, <1>2, <1>4

LEMMA WindowLen ==
  ASSUME NEW d, NEW a \in Int, NEW b \in Int
  PROVE  /\ a <= b => Len(Window(d, a, b)) = b - a
         /\ b <= a => Window(d, a, b) = <<>>
         /\ a < b => Window(d, a, b) # <<>>
<1>1. \A p \in a .. b - 1 : d[Cell(p)] \in {d[Cell(q)] : q \in a .. b - 1}
  OBVIOUS
<1>2. Window(d, a, b) \in Seq({d[Cell(q)] : q \in a .. b - 1})
  BY <1>1, WindowSeq
<1>3. DOMAIN Window(d, a, b) = 1 .. b - a
  BY DEF Window
<1>4. DOMAIN Window(d, a, b) = 1 .. Len(Window(d, a, b)) /\ Len(Window(d, a, b)) \in Nat
  BY <1>2, LenProperties
<1>5. a <= b => Len(Window(d, a, b)) = b - a
  BY <1>3, <1>4
<1>6. b <= a => Window(d, a, b) = <<>>
  <2>1. b <= a => Len(Window(d, a, b)) = 0
    BY <1>3, <1>4
  <2> QED BY <1>2, <2>1, EmptySeq
<1>7. a < b => Window(d, a, b) # <<>>
  BY <1>5, EmptySeq
<1> QED BY <1>5, <1>6, <1>7

LEMMA WindowAt ==
  ASSUME NEW d, NEW a \in Int, NEW b \in Int, NEW i \in 1 .. b - a
  PROVE  Window(d, a, b)[i] = d[Cell(a + i - 1)]
BY DEF Window

\* Only the cells between the ends count.
LEMMA WindowSame ==
  ASSUME NEW d, NEW e, NEW a \in Int, NEW b \in Int,
         \A p \in a .. b - 1 : d[Cell(p)] = e[Cell(p)]
  PROVE  Window(d, a, b) = Window(e, a, b)
<1>1. \A i \in 1 .. b - a : a + i - 1 \in a .. b - 1
  OBVIOUS
<1>2. \A i \in 1 .. b - a : d[Cell(a + i - 1)] = e[Cell(a + i - 1)]
  BY <1>1
<1> QED BY <1>2 DEF Window

\* Taking at the right end.
LEMMA WindowRight ==
  ASSUME NEW d, NEW a \in Int, NEW b \in Int, a < b
  PROVE  /\ Window(d, a, b)[Len(Window(d, a, b))] = d[Cell(b - 1)]
         /\ SubSeq(Window(d, a, b), 1, Len(Window(d, a, b)) - 1) = Window(d, a, b - 1)
<1> DEFINE S == {d[Cell(p)] : p \in a .. b - 1}
<1> DEFINE w == Window(d, a, b)
<1> DEFINE v == Window(d, a, b - 1)
<1> DEFINE u == SubSeq(w, 1, Len(w) - 1)
<1>0. \A p \in a .. b - 1 : d[Cell(p)] \in S
  OBVIOUS
<1> HIDE DEF S
<1>1. /\ w \in Seq(S) /\ Len(w) = b - a
      /\ \A i \in 1 .. b - a : w[i] = d[Cell(a + i - 1)]
  BY <1>0, WindowSeq, WindowLen, WindowAt
<1>2. /\ v \in Seq(S) /\ Len(v) = b - a - 1
      /\ \A i \in 1 .. b - a - 1 : v[i] = d[Cell(a + i - 1)]
  BY <1>0, WindowSeq, WindowLen, WindowAt
<1> HIDE DEF w, v
<1>3. w[Len(w)] = d[Cell(b - 1)]
  <2>1. b - a \in 1 .. b - a /\ a + (b - a) - 1 = b - 1
    OBVIOUS
  <2> QED BY <1>1, <2>1
<1>4. \A i \in 1 .. Len(w) - 1 : w[i] \in S
  BY <1>1
<1>5. u \in Seq(S) /\ Len(u) = b - a - 1 /\ \A i \in 1 .. b - a - 1 : u[i] = w[1 + i - 1]
  BY <1>1, <1>4, SubSeqProperties
<1>6. \A i \in 1 .. b - a - 1 : u[i] = v[i]
  BY <1>1, <1>2, <1>5
<1>7. u = v
  BY <1>2, <1>5, <1>6, SeqEqual
<1> QED BY <1>3, <1>7 DEF w, v

\* Taking at the left end.
LEMMA WindowLeft ==
  ASSUME NEW d, NEW a \in Int, NEW b \in Int, a < b
  PROVE  /\ Head(Window(d, a, b)) = d[Cell(a)]
         /\ Tail(Window(d, a, b)) = Window(d, a + 1, b)
<1> DEFINE S == {d[Cell(p)] : p \in a .. b - 1}
<1> DEFINE w == Window(d, a, b)
<1> DEFINE v == Window(d, a + 1, b)
<1>0. \A p \in a .. b - 1 : d[Cell(p)] \in S
  OBVIOUS
<1> HIDE DEF S
<1>1. /\ w \in Seq(S) /\ Len(w) = b - a /\ w # <<>>
      /\ \A i \in 1 .. b - a : w[i] = d[Cell(a + i - 1)]
  BY <1>0, WindowSeq, WindowLen, WindowAt
<1>2. /\ v \in Seq(S) /\ Len(v) = b - a - 1
      /\ \A i \in 1 .. b - a - 1 : v[i] = d[Cell((a + 1) + i - 1)]
  BY <1>0, WindowSeq, WindowLen, WindowAt
<1> HIDE DEF w, v
<1>3. Head(w) = d[Cell(a)]
  <2>1. Head(w) = w[1]
    BY <1>1
  <2>2. w[1] = d[Cell(a + 1 - 1)] /\ a + 1 - 1 = a
    BY <1>1
  <2> QED BY <2>1, <2>2
<1>4. Tail(w) \in Seq(S) /\ Len(Tail(w)) = b - a - 1
      /\ \A i \in 1 .. b - a - 1 : Tail(w)[i] = w[i + 1]
  BY <1>1, HeadTailProperties
<1>5. ASSUME NEW i \in 1 .. b - a - 1
      PROVE  Tail(w)[i] = v[i]
  <2>1. i + 1 \in 1 .. b - a /\ a + (i + 1) - 1 = (a + 1) + i - 1
    OBVIOUS
  <2>2. w[i + 1] = d[Cell(a + (i + 1) - 1)]
    BY <1>1, <2>1
  <2> QED BY <1>2, <1>4, <2>1, <2>2
<1>6. Tail(w) = v
  BY <1>2, <1>4, <1>5, SeqEqual
<1> QED BY <1>3, <1>6 DEF w, v

\* Adding at the right end.
LEMMA WindowAdd ==
  ASSUME NEW d, NEW a \in Int, NEW b \in Int, a <= b, NEW x \in Seq(Int),
         \A p \in a .. b + Len(x) - 1 : d[Cell(p)] \in Int,
         \A i \in 1 .. Len(x) : x[i] = d[Cell(b + i - 1)]
  PROVE  Window(d, a, b + Len(x)) = Window(d, a, b) \o x
<1> DEFINE w == Window(d, a, b)
<1> DEFINE n == Len(x)
<1> DEFINE v == Window(d, a, b + n)
<1>0. n \in Nat
  BY LenProperties
<1>1. w \in Seq(Int) /\ Len(w) = b - a /\ \A i \in 1 .. b - a : w[i] = d[Cell(a + i - 1)]
  <2>1. \A p \in a .. b - 1 : d[Cell(p)] \in Int
    BY <1>0
  <2> QED BY <2>1, WindowSeq, WindowLen, WindowAt
<1>2. /\ v \in Seq(Int) /\ Len(v) = b + n - a
      /\ \A i \in 1 .. b + n - a : v[i] = d[Cell(a + i - 1)]
  BY <1>0, WindowSeq, WindowLen, WindowAt
<1> HIDE DEF w, v
<1>3. /\ w \o x \in Seq(Int) /\ Len(w \o x) = Len(w) + n
      /\ \A i \in 1 .. Len(w) + n : (w \o x)[i] = IF i <= Len(w) THEN w[i] ELSE x[i - Len(w)]
  <2>1. w \in Seq(Int) /\ x \in Seq(Int)
    BY <1>1
  <2> QED BY ONLY <2>1, ConcatProperties DEF n
<1>4. Len(w) + n = b + n - a
  BY <1>0, <1>1
<1>5. ASSUME NEW i \in 1 .. b + n - a
      PROVE  v[i] = (w \o x)[i]
  <2>1. CASE i <= b - a
    BY <1>1, <1>2, <1>3, <1>4, <2>1
  <2>2. CASE i > b - a
    <3>1. i - (b - a) \in 1 .. n /\ b + (i - (b - a)) - 1 = a + i - 1
      BY <1>0, <2>2
    <3>2. (w \o x)[i] = x[i - (b - a)]
      BY <1>1, <1>3, <1>4, <2>2
    <3> QED BY <1>2, <3>1, <3>2
  <2>3. i <= b - a \/ i > b - a
    OBVIOUS
  <2> QED BY <2>1, <2>2, <2>3, Zenon
<1>6. v = w \o x
  BY <1>2, <1>3, <1>4, <1>5, SeqEqual
<1> QED BY <1>6 DEF w, v

----------------------------------------------------------------------------
(* The queue implements the deque *)

LEMMA InitDeque == Init => Deque!Init
<1> SUFFICES ASSUME Init PROVE Deque!Init
  OBVIOUS
<1>1. End = Start /\ top = Start
  BY DEF Init, End, Threads
<1>2. Window(data, top, End) = <<>>
  BY <1>1, WindowLen
<1> QED BY <1>2 DEF Deque!Init, Init, Threads

\* The jobs in the window, before a step and after it.
LEMMA WindowTyped ==
  ASSUME DequeInv
  PROVE  /\ top \in Int /\ End \in Int
         /\ \A p \in top .. End - 1 : data[Cell(p)] \in 1 .. MaxJobs
BY Counters DEF DequeInv, LiveJobs, Live

\* A step that takes nothing and brings nothing.
LEMMA WindowKept ==
  ASSUME UNCHANGED <<top, data, End, got, pushed>>
  PROVE  UNCHANGED Deque!vars
BY DEF Deque!vars, Window

LEMMA PushWriteStutters ==
  ASSUME DequeInv, PushWrite
  PROVE  UNCHANGED Deque!vars
<1>1. pc[Owner] = "pushWrite" /\ pc' = [pc EXCEPT ![Owner] = "pushPublish"]
      /\ UNCHANGED <<top, bottom, got, pushed>>
  BY DEF PushWrite, Goto
<1>2. pc'[Owner] = "pushPublish"
  BY <1>1, Counters DEF DequeInv, JobsConserved, TypeOK
<1>3. End' = End
  BY <1>1, <1>2 DEF End
<1>4. \A p \in top .. End - 1 : data'[Cell(p)] = data[Cell(p)]
  BY PushWriteCells DEF Live
<1>5. Window(data', top, End) = Window(data, top, End)
  BY <1>4, Counters, WindowSame
<1>6. Window(data, top, End)' = Window(data, top, End)
  BY <1>1, <1>3, <1>5 DEF Window
<1> QED BY <1>1, <1>6 DEF Deque!vars

LEMMA PushPublishAdds ==
  ASSUME DequeInv, PushPublish
  PROVE  \E n \in 1 .. Size : Deque!Add(n)
<1> USE Counters
<1>1. /\ pc' = [pc EXCEPT ![Owner] = "idle"] /\ pc[Owner] = "pushPublish"
      /\ bottom' = bottom + batch /\ pushed' = pushed + batch
      /\ UNCHANGED <<top, data, got>>
  BY DEF PushPublish, Goto
<1>2. pc'[Owner] = "idle"
  BY <1>1 DEF DequeInv, JobsConserved, TypeOK
<1>3. End = bottom /\ End' = bottom + batch
  BY <1>1, <1>2 DEF End
<1>4. top <= bottom /\ batch > 0 /\ bottom + batch <= top + Size /\ pushed + batch <= MaxJobs
  BY <1>1 DEF DequeInv, CountersInWindow
<1>5. \A i \in 0 .. batch - 1 : data[Cell(bottom + i)] = pushed + 1 + i
  BY <1>1 DEF DequeInv, LiveJobs
<1>6. \A p \in top .. bottom - 1 : data[Cell(p)] \in Int
  BY <1>3, WindowTyped
<1>7. ASSUME NEW p \in top .. bottom + batch - 1
      PROVE  data[Cell(p)] \in Int
  <2>1. CASE p < bottom
    BY <1>6, <2>1
  <2>2. CASE p >= bottom
    <3>1. p - bottom \in 0 .. batch - 1 /\ bottom + (p - bottom) = p
      BY <2>2
    <3> QED BY <1>5, <3>1
  <2> QED BY <2>1, <2>2
<1>8. Window(data, top, bottom + batch)
        = Window(data, top, bottom) \o [i \in 1 .. batch |-> (pushed + 1) + i - 1]
  <2> DEFINE x == [i \in 1 .. batch |-> (pushed + 1) + i - 1]
  <2>1. x \in Seq(Int) /\ Len(x) = batch /\ \A i \in 1 .. batch : x[i] = pushed + i
    <3>1. batch \in Nat /\ \A i \in 1 .. batch : (pushed + 1) + i - 1 \in Int
      OBVIOUS
    <3>2. x \in Seq(Int) /\ Len(x) = batch
      BY <3>1
    <3>3. \A i \in 1 .. batch : x[i] = (pushed + 1) + i - 1 /\ (pushed + 1) + i - 1 = pushed + i
      OBVIOUS
    <3> QED BY <3>2, <3>3
  <2> HIDE DEF x
  <2>2. ASSUME NEW i \in 1 .. batch
        PROVE  x[i] = data[Cell(bottom + i - 1)]
    <3>1. i - 1 \in 0 .. batch - 1 /\ bottom + (i - 1) = bottom + i - 1
      OBVIOUS
    <3>2. data[Cell(bottom + (i - 1))] = pushed + 1 + (i - 1)
      BY <1>5, <3>1
    <3> QED BY <2>1, <3>1, <3>2
  <2>3. /\ \A p \in top .. bottom + Len(x) - 1 : data[Cell(p)] \in Int
        /\ \A i \in 1 .. Len(x) : x[i] = data[Cell(bottom + i - 1)]
    BY <1>7, <2>1, <2>2
  <2>4. Window(data, top, bottom + Len(x)) = Window(data, top, bottom) \o x
    <3>1. top \in Int /\ bottom \in Int /\ top <= bottom /\ x \in Seq(Int)
      BY <1>4, <2>1
    <3> QED BY ONLY <2>3, <3>1, WindowAdd, Zenon
  <2> QED BY <2>1, <2>4 DEF x
<1>9. Window(data, top, End)' = Window(data, top, bottom + batch)
  BY <1>1, <1>3 DEF Window
<1>10. Window(data, top, End)'
        = Window(data, top, End) \o [i \in 1 .. batch |-> (pushed + 1) + i - 1]
  BY <1>3, <1>8, <1>9, Zenon
<1>11. Len(Window(data, top, End)) + batch <= Size
  BY <1>3, <1>4, WindowLen
<1>12. batch \in 1 .. Size /\ (pushed + 1)' = (pushed + 1) + batch
  BY <1>1, <1>4
<1>13. Deque!Add(batch)
  BY <1>1, <1>10, <1>11, <1>12 DEF Deque!Add
<1> QED BY <1>12, <1>13

\* The owner takes the newest job.
LEMMA OwnerTakes ==
  ASSUME DequeInv, top < End, UNCHANGED pushed,
         Window(data, top, End)' = Window(data, top, End - 1),
         got' = [got EXCEPT ![Owner] = data[Cell(End - 1)]]
  PROVE  Deque!Remove
<1>1. Window(data, top, End) # <<>>
  BY WindowTyped, WindowLen
<1>2. /\ Window(data, top, End)[Len(Window(data, top, End))] = data[Cell(End - 1)]
      /\ SubSeq(Window(data, top, End), 1, Len(Window(data, top, End)) - 1)
           = Window(data, top, End - 1)
  BY WindowTyped, WindowRight
<1> QED BY <1>1, <1>2 DEF Deque!Remove

LEMMA PullSomeRemoves ==
  ASSUME DequeInv, PullSome
  PROVE  Deque!Remove
<1>1. UNCHANGED <<top, data, pushed>>
  BY DEF PullSome
<1>2. /\ top < End /\ End' = End - 1
      /\ got' = [got EXCEPT ![Owner] = data[Cell(End - 1)]]
  BY PullSomeStep
<1>3. Window(data, top, End)' = Window(data, top, End - 1)
  BY <1>1, <1>2 DEF Window
<1> QED BY <1>1, <1>2, <1>3, OwnerTakes

LEMMA EmptyInterval ==
  ASSUME NEW a \in Int, NEW b \in Int, a .. b - 1 = {}
  PROVE  b <= a
<1>1. a < b => a \in a .. b - 1
  OBVIOUS
<1> QED BY <1>1

\* The owner is told that there is nothing only when there is nothing.
LEMMA OwnerTakesNothing ==
  ASSUME DequeInv, End <= top, DequeInv', End' <= top', UNCHANGED pushed,
         got' = [got EXCEPT ![Owner] = NoJob]
  PROVE  Deque!RemoveNothing
<1>1. Window(data, top, End) = <<>>
  BY WindowTyped, WindowLen
<1>2. top' \in Int /\ End' \in Int
  BY DEF DequeInv, JobsConserved, TypeOK, End
<1>3. Window(data', top', End') = <<>>
  BY <1>2, WindowLen
<1>4. Window(data, top, End)' = <<>>
  BY <1>3
<1> QED BY <1>1, <1>4 DEF Deque!RemoveNothing

LEMMA PullRaceRemoves ==
  ASSUME DequeInv, PullRace
  PROVE  Deque!Remove \/ Deque!RemoveNothing
<1>1. UNCHANGED <<bottom, data, pushed>>
  BY DEF PullRace
<1>2. CASE /\ top < End /\ End = top + 1 /\ top' = top + 1 /\ End' = End - 1
           /\ got' = [got EXCEPT ![Owner] = data[Cell(End - 1)]]
  <2>1. top \in Int /\ End \in Int
    BY Counters
  <2>2. End - 1 <= top /\ End' <= top' /\ top' \in Int /\ End' \in Int
    BY <1>2, <2>1
  <2>3. Window(data, top, End - 1) = <<>> /\ Window(data', top', End') = <<>>
    BY <2>1, <2>2, WindowLen
  <2>4. Window(data, top, End)' = Window(data, top, End - 1)
    BY <2>3
  <2> QED BY <1>1, <1>2, <2>4, OwnerTakes
<1>3. CASE /\ End <= top /\ top' = top /\ Live' = {} /\ Live = {}
           /\ got' = [got EXCEPT ![Owner] = NoJob]
  <2>1. DequeInv'
    BY PullRaceStep
  <2>2. End' <= top'
    <3>1. top' \in Int /\ End' \in Int
      BY <2>1 DEF DequeInv, JobsConserved, TypeOK, End
    <3>2. top' .. End' - 1 = {}
      BY <1>3 DEF Live
    <3> QED BY <3>1, <3>2, EmptyInterval
  <2> QED BY <1>1, <1>3, <2>1, <2>2, OwnerTakesNothing
<1> QED BY <1>2, <1>3, PullRaceStep

LEMMA PullRestoreStutters ==
  ASSUME DequeInv, PullRestore
  PROVE  UNCHANGED Deque!vars
<1>1. DequeInv' /\ Live = {} /\ Live' = {}
  BY PullRestoreStep
<1>2. UNCHANGED <<top, data, got, pushed>>
  BY DEF PullRestore
<1>3. top \in Int /\ End \in Int /\ top' \in Int /\ End' \in Int
  BY <1>1 DEF DequeInv, JobsConserved, TypeOK, End
<1>4. End <= top /\ End' <= top'
  <2>1. top .. End - 1 = {} /\ top' .. End' - 1 = {}
    BY <1>1 DEF Live
  <2> QED BY <1>3, <2>1, EmptyInterval
<1>5. Window(data, top, End) = <<>> /\ Window(data', top', End') = <<>>
  BY <1>3, <1>4, WindowLen
<1>6. Window(data, top, End)' = Window(data, top, End)
  BY <1>5
<1> QED BY <1>2, <1>6 DEF Deque!vars

LEMMA StealRaceSteals ==
  ASSUME DequeInv, NEW t \in Thieves, StealRace(t)
  PROVE  Deque!Steal(t) \/ Deque!StealNothing(t)
<1>1. UNCHANGED <<data, pushed>>
  BY DEF StealRace
<1>2. End' = End
  BY StealRaceStep
<1>3. CASE /\ top < End /\ top' = top + 1
           /\ got' = [got EXCEPT ![t] = data[Cell(top)]]
  <2>1. /\ Head(Window(data, top, End)) = data[Cell(top)]
        /\ Tail(Window(data, top, End)) = Window(data, top + 1, End)
    BY <1>3, WindowTyped, WindowLeft
  <2>2. Window(data, top, End)' = Window(data, top + 1, End)
    BY <1>1, <1>2, <1>3 DEF Window
  <2>3. Window(data, top, End) # <<>>
    BY <1>3, WindowTyped, WindowLen
  <2> QED BY <1>1, <1>3, <2>1, <2>2, <2>3 DEF Deque!Steal
<1>4. CASE top' = top /\ got' = [got EXCEPT ![t] = NoJob]
  <2>1. Window(data, top, End)' = Window(data, top, End)
    BY <1>1, <1>2, <1>4 DEF Window
  <2> QED BY <1>1, <1>4, <2>1 DEF Deque!StealNothing
<1> QED BY <1>3, <1>4, StealRaceStep

LEMMA StealLoadBottomMaps ==
  ASSUME DequeInv, NEW t \in Thieves, StealLoadBottom(t)
  PROVE  Deque!StealNothing(t) \/ UNCHANGED Deque!vars
<1>1. UNCHANGED <<top, data, pushed>>
  BY DEF StealLoadBottom
<1>2. End' = End /\ (got' = got \/ got' = [got EXCEPT ![t] = NoJob])
  BY StealLoadBottomStep
<1>3. Window(data, top, End)' = Window(data, top, End)
  BY <1>1, <1>2 DEF Window
<1> QED BY <1>1, <1>2, <1>3 DEF Deque!StealNothing, Deque!vars

LEMMA OwnerStepMaps ==
  ASSUME DequeInv, OwnerStep
  PROVE  Deque!Next \/ UNCHANGED Deque!vars
<1> USE Counters
<1>1. ASSUME NEW n \in 1 .. Size, PushLoadTop(n)
      PROVE  UNCHANGED Deque!vars
  <2>1. pc[Owner] = "idle" /\ pc' = [pc EXCEPT ![Owner] = "pushWrite"]
        /\ UNCHANGED <<top, bottom, data, got, pushed>>
    BY <1>1 DEF PushLoadTop, Goto
  <2>2. pc'[Owner] = "pushWrite"
    BY <2>1 DEF DequeInv, JobsConserved, TypeOK
  <2>3. End' = End
    BY <2>1, <2>2 DEF End
  <2> QED BY <2>1, <2>3, WindowKept
<1>2. CASE PushWrite
  BY <1>2, PushWriteStutters
<1>3. CASE PushPublish
  BY <1>3, PushPublishAdds DEF Deque!Next
<1>4. CASE PullClaim
  <2>1. pc[Owner] = "idle" /\ pc' = [pc EXCEPT ![Owner] = "pullTop"] /\ bottom' = bottom - 1
        /\ UNCHANGED <<top, data, got, pushed>>
    BY <1>4 DEF PullClaim, Goto
  <2>2. pc'[Owner] = "pullTop"
    BY <2>1 DEF DequeInv, JobsConserved, TypeOK
  <2>3. End' = End
    BY <2>1, <2>2 DEF End
  <2> QED BY <2>1, <2>3, WindowKept
<1>5. CASE PullFindsNothing
  <2>1. UNCHANGED <<top, pushed>> /\ got' = [got EXCEPT ![Owner] = NoJob]
        /\ pc[Owner] = "pullTop" /\ pc' = [pc EXCEPT ![Owner] = "pullEmpty"] /\ bottom' = bottom
    BY <1>5 DEF PullFindsNothing, HandOut, Goto
  <2>2. pc'[Owner] = "pullEmpty"
    BY <2>1 DEF DequeInv, JobsConserved, TypeOK
  <2>3. DequeInv' /\ End = top /\ End' = End
    BY <1>5, <2>1, <2>2, PullFindsNothingStep DEF End
  <2>4. Deque!RemoveNothing
    BY <2>1, <2>3, OwnerTakesNothing
  <2> QED BY <2>4 DEF Deque!Next
<1>6. CASE PullEmpty
  <2>1. UNCHANGED <<top, data, got, pushed>>
    BY <1>6 DEF PullEmpty
  <2> QED BY <1>6, <2>1, PullEmptyStep, WindowKept
<1>7. CASE PullSome
  BY <1>7, PullSomeRemoves DEF Deque!Next
<1>8. CASE PullLast
  <2>1. UNCHANGED <<top, data, got, pushed>>
    BY <1>8 DEF PullLast
  <2> QED BY <1>8, <2>1, PullLastStep, WindowKept
<1>9. CASE PullRace
  BY <1>9, PullRaceRemoves DEF Deque!Next
<1>10. CASE PullRestore
  BY <1>10, PullRestoreStutters
<1> QED BY <1>1, <1>2, <1>3, <1>4, <1>5, <1>6, <1>7, <1>8, <1>9, <1>10 DEF OwnerStep

LEMMA StealMaps ==
  ASSUME DequeInv, NEW t \in Thieves, Steal(t)
  PROVE  Deque!Next \/ UNCHANGED Deque!vars
<1>1. CASE StealLoadTop(t)
  <2>1. UNCHANGED <<top, data, got, pushed>>
    BY <1>1 DEF StealLoadTop
  <2> QED BY <1>1, <2>1, StealLoadTopStep, WindowKept
<1>2. CASE StealLoadBottom(t)
  BY <1>2, StealLoadBottomMaps DEF Deque!Next
<1>3. CASE StealRead(t)
  <2>1. UNCHANGED <<top, data, got, pushed>>
    BY <1>3 DEF StealRead
  <2> QED BY <1>3, <2>1, StealReadStep, WindowKept
<1>4. CASE StealRace(t)
  BY <1>4, StealRaceSteals DEF Deque!Next
<1> QED BY <1>1, <1>2, <1>3, <1>4 DEF Steal

\* Every step of the queue is one of the deque or changes none of its state:
\* the owner gets the newest job and is told "nothing there" only when that is
\* so, a thief gets the oldest (jobQueue.c:73-137).
THEOREM QueueIsADeque == Spec => ImplementsDeque
<1>1. DequeInv /\ [Next]_vars => [Deque!Next]_Deque!vars
  <2> SUFFICES ASSUME DequeInv, [Next]_vars
               PROVE  Deque!Next \/ UNCHANGED Deque!vars
    OBVIOUS
  <2>1. CASE OwnerStep
    BY <2>1, OwnerStepMaps
  <2>2. ASSUME NEW t \in Thieves, Steal(t)
        PROVE  Deque!Next \/ UNCHANGED Deque!vars
    BY <2>2, StealMaps
  <2>3. CASE UNCHANGED vars
    BY <2>3, WindowKept DEF vars, End
  <2> QED BY <2>1, <2>2, <2>3 DEF Next
<1> QED BY <1>1, InitDeque, DequeInvariant, PTL DEF Spec, Deque!Spec, ImplementsDeque
=============================================================================
