------------------------ MODULE JobQueueRing_proofs -------------------------
(***************************************************************************)
(* Proofs about the job queue ring: RingInv is inductive, for any number   *)
(* of threads and jobs, any ring size and any word size that exceeds the   *)
(* number of pushes of the behaviour by the size of the ring.              *)
(***************************************************************************)
EXTENDS JobQueueRing, TLAPS, SequenceTheorems

----------------------------------------------------------------------------
(* Remainders *)

\* The division theorem for a positive divisor.
LEMMA DivMod ==
  ASSUME NEW W \in Nat, W > 0, NEW p \in Int
  PROVE  /\ p \div W \in Int
         /\ p % W \in 0 .. W - 1
         /\ p = W * (p \div W) + (p % W)
OBVIOUS

\* A number already in range is its own remainder.
LEMMA ModSmall ==
  ASSUME NEW W \in Nat, W > 0, NEW d \in Int, 0 <= d, d < W
  PROVE  d % W = d
OBVIOUS

\* A small negative number wraps once.
LEMMA ModNegative ==
  ASSUME NEW W \in Nat, W > 0, NEW d \in Int, d < 0, d >= -W
  PROVE  d % W = d + W
OBVIOUS

\* The only multiple of W smaller than W in absolute value is 0.
LEMMA NoMultiple ==
  ASSUME NEW W \in Nat, W > 0, NEW k \in Int, -W < W * k, W * k < W
  PROVE  k = 0
<1>1. k >= 1 => W * k >= W
  OBVIOUS
<1>2. k <= -1 => W * k <= -W
  OBVIOUS
<1> QED BY <1>1, <1>2

\* Two numbers of one window of length W with the same remainder are equal.
LEMMA ModInjective ==
  ASSUME NEW W \in Nat, W > 0, NEW p \in Int, NEW q \in Int,
         p <= q, q < p + W, p % W = q % W
  PROVE  p = q
<1> DEFINE k == p \div W
<1> DEFINE l == q \div W
<1>1. /\ k \in Int /\ l \in Int /\ p % W \in Int
      /\ p = W * k + (p % W)
      /\ q = W * l + (q % W)
  BY DivMod
<1> HIDE DEF k, l
<1>2. q - p = W * (l - k)
  <2>1. W * (l - k) = W * l - W * k
    BY <1>1
  <2> QED BY <1>1, <2>1
<1>3. l - k = 0
  BY <1>1, <1>2, NoMultiple
<1> QED BY <1>1, <1>2, <1>3

\* Adding W does not change the remainder.
LEMMA ModShift ==
  ASSUME NEW W \in Nat, W > 0, NEW p \in Int
  PROVE  (p + W) % W = p % W
<1> DEFINE k == p \div W
<1> DEFINE l == (p + W) \div W
<1> DEFINE r == p % W
<1> DEFINE m == (p + W) % W
<1>1. /\ k \in Int /\ l \in Int /\ r \in 0 .. W - 1 /\ m \in 0 .. W - 1
      /\ p = W * k + r
      /\ p + W = W * l + m
  BY DivMod
<1> HIDE DEF k, l, r, m
<1>2. W * (l - k - 1) = r - m
  <2>1. W * (l - k - 1) = W * l - W * k - W
    BY <1>1
  <2> QED BY <1>1, <2>1
<1>3. l - k - 1 = 0
  BY <1>1, <1>2, NoMultiple
<1>4. m = r
  <2>1. W * 0 = 0
    OBVIOUS
  <2> QED BY <1>1, <1>2, <1>3, <2>1
<1> QED BY <1>4 DEF m, r

\* From any position on, a window of W numbers has one that is congruent to an
\* earlier p, a positive number of laps ahead of it.
LEMMA NextLap ==
  ASSUME NEW W \in Nat, W > 0, NEW p \in Int, NEW b \in Int, p < b
  PROVE  \E q \in b .. b + W - 1 : q % W = p % W /\ q >= p + W
<1> DEFINE d == b - 1 - p
<1> DEFINE c == d \div W
<1> DEFINE e == d % W
<1> DEFINE q == p + d - e + W
<1>1. c \in Int /\ e \in 0 .. W - 1 /\ d = W * c + e /\ d \in Int /\ d >= 0
  BY DivMod
<1>2. d = b - 1 - p
  OBVIOUS
<1> HIDE DEF c, e, d
<1>3. q \in b .. b + W - 1
  BY <1>1, <1>2
<1>4. d - e >= 0
  <2>1. c >= 0
    <3>1. c <= -1 => W * c <= -W
      BY <1>1
    <3> QED BY <1>1, <3>1
  <2>2. W * c >= 0
    BY <1>1, <2>1
  <2> QED BY <1>1, <2>2
<1>5. q >= p + W
  BY <1>1, <1>4
<1>6. q % W = p % W
  <2> DEFINE k == p \div W
  <2> DEFINE l == q \div W
  <2> DEFINE r == p % W
  <2> DEFINE m == q % W
  <2>1. q \in Int
    BY <1>3
  <2>2. /\ k \in Int /\ l \in Int /\ r \in 0 .. W - 1 /\ m \in 0 .. W - 1
        /\ p = W * k + r /\ q = W * l + m
    BY <2>1, DivMod
  <2>3. q = p + W * c + W
    BY <1>1
  <2> HIDE DEF k, l, r, m, q
  <2>4. W * (l - k - c - 1) = r - m
    <3>1. W * (l - k - c - 1) = W * l - W * k - W * c - W
      BY <1>1, <2>2
    <3> QED BY <1>1, <2>1, <2>2, <2>3, <3>1
  <2>5. l - k - c - 1 = 0
    BY <1>1, <2>2, <2>4, NoMultiple
  <2>6. m = r
    <3>1. W * 0 = 0
      OBVIOUS
    <3> QED BY <2>2, <2>4, <2>5, <3>1
  <2> QED BY <2>6 DEF m, r
<1> QED BY <1>3, <1>5, <1>6

----------------------------------------------------------------------------

USE SizeAssumption, WordAssumption, StartAssumption, MaxOpsAssumption,
    NoJobAssumption

----------------------------------------------------------------------------
(* Slots and word arithmetic *)

\* A ticket has a slot.
LEMMA SlotType ==
  ASSUME NEW p \in Int
  PROVE  Slot(p) \in Slots
BY DivMod DEF Slot, Slots

\* Two tickets of one lap have different slots.
LEMMA SlotInjective ==
  ASSUME NEW p \in Int, NEW q \in Int, p - Size < q, q < p + Size,
         Slot(p) = Slot(q)
  PROVE  p = q
<1>1. CASE p <= q
  BY <1>1, ModInjective DEF Slot
<1>2. CASE q <= p
  BY <1>2, ModInjective DEF Slot
<1> QED BY <1>1, <1>2

\* A ticket has the slot of the ticket one lap before.
LEMMA SlotShift ==
  ASSUME NEW p \in Int
  PROVE  Slot(p + Size) = Slot(p)
<1>1. Size \in Nat /\ Size > 0
  OBVIOUS
<1>2. (p + Size) % Size = p % Size
  BY ONLY <1>1, p \in Int, ModShift
<1> QED BY <1>2 DEF Slot

\* Within the window the wrapped tests are exact.
LEMMA DiffExact ==
  ASSUME NEW a \in Int, NEW b \in Int,
         a - b <= MaxOps + Size, b - a <= MaxOps + Size
  PROVE  Diff(a, b) = a - b
<1>1. CASE a >= b
  <2>1. (a - b) % Word = a - b
    BY <1>1, ModSmall
  <2> QED BY <2>1 DEF Diff
<1>2. CASE a < b
  <2>1. (a - b) % Word = (a - b) + Word
    BY <1>2, ModNegative
  <2> QED BY <2>1, <1>2 DEF Diff
<1> QED BY <1>1, <1>2

LEMMA SameWordExact ==
  ASSUME NEW a \in Int, NEW b \in Int,
         a - b <= MaxOps + Size, b - a <= MaxOps + Size
  PROVE  SameWord(a, b) <=> a = b
<1>1. CASE a >= b
  <2>1. (a - b) % Word = a - b
    BY <1>1, ModSmall
  <2> QED BY <2>1 DEF SameWord
<1>2. CASE a < b
  <2>1. (a - b) % Word = (a - b) + Word
    BY <1>2, ModNegative
  <2> QED BY <2>1, <1>2 DEF SameWord
<1> QED BY <1>1, <1>2

----------------------------------------------------------------------------
(* Every test a thread makes is exact in a state of RingInv *)

LEMMA TestsExact ==
  ASSUME RingInv, NEW t \in Threads
  PROVE  /\ Diff(seq[Slot(pos[t])], pos[t]) = seq[Slot(pos[t])] - pos[t]
         /\ Diff(seq[Slot(pos[t])], pos[t] + 1) = seq[Slot(pos[t])] - (pos[t] + 1)
         /\ SameWord(tail, pos[t]) <=> tail = pos[t]
         /\ SameWord(head, pos[t]) <=> head = pos[t]
<1> DEFINE n == seq[Slot(pos[t])]
<1>1. /\ pos[t] \in Nat /\ Slot(pos[t]) \in Slots /\ n \in Nat
      /\ head \in Nat /\ tail \in Nat
  BY SlotType DEF RingInv, TypeOK
<1>2. /\ Start <= pos[t] /\ pos[t] <= tail /\ Start <= n /\ n <= tail + Size
      /\ Start <= head /\ head <= tail /\ tail <= Start + MaxOps
  BY <1>1 DEF RingInv, CountersInWindow, TicketsInWindow
<1> HIDE DEF n
<1>3. Diff(n, pos[t]) = n - pos[t]
  BY <1>1, <1>2, DiffExact
<1>4. Diff(n, pos[t] + 1) = n - (pos[t] + 1)
  BY <1>1, <1>2, DiffExact
<1>5. SameWord(tail, pos[t]) <=> tail = pos[t]
  BY <1>1, <1>2, SameWordExact
<1>6. SameWord(head, pos[t]) <=> head = pos[t]
  BY <1>1, <1>2, SameWordExact
<1> QED BY <1>3, <1>4, <1>5, <1>6 DEF n

----------------------------------------------------------------------------
(* Initial states *)

LEMMA InitRingInv == Init => RingInv
<1> SUFFICES ASSUME Init PROVE RingInv
  OBVIOUS
<1>1. TypeOK
  BY DEF Init, TypeOK, Slots, PushPoints, PullPoints
<1>2. CountersInWindow
  BY DEF Init, CountersInWindow, TicketsInWindow, Slots, PullPoints
<1>3. SlotStates
  <2> SUFFICES ASSUME NEW q \in tail .. tail + Size - 1
               PROVE  seq[Slot(q)] = q /\ q < head + Size
    BY DEF SlotStates
  <2>1. PICK s \in Slots : q = Start + s
    <3>1. q - Start \in Slots /\ q = Start + (q - Start)
      BY DEF Init, Slots
    <3> QED BY <3>1
  <2>2. Slot(q) = s
    <3>1. /\ Slot(s) = s /\ Slot(q) \in Slots /\ s \in Int /\ q \in Int
      <4>1. s \in Int /\ q \in Int
        BY <2>1 DEF Slots
      <4>2. Slot(s) = s
        BY ModSmall DEF Slot, Slots
      <4>3. Slot(q) \in Slots
        BY SlotType, <4>1
      <4> QED BY <4>1, <4>2, <4>3
    <3>2. Start \div Size \in Int /\ Start = Size * (Start \div Size)
      BY DivMod
    <3>3. Slot(q) = Slot(s)
      <4> DEFINE k == Start \div Size
      <4> DEFINE l == q \div Size
      <4>1. k \in Int /\ l \in Int /\ Start = Size * k
            /\ q = Size * l + Slot(q)
        BY <3>2, DivMod, <3>1 DEF Slot
      <4> HIDE DEF k, l
      <4>2. Size * (k - l) = Slot(q) - s
        <5>1. Size * (k - l) = Size * k - Size * l
          BY <4>1
        <5> QED BY <5>1, <4>1, <2>1, <3>1 DEF Slots
      <4>3. k - l = 0
        BY <4>1, <4>2, <3>1, NoMultiple DEF Slots
      <4> QED BY <4>1, <4>2, <4>3, <3>1 DEF Slots
    <3> QED BY <3>1, <3>3
  <2> QED BY <2>1, <2>2 DEF Init, Slots
<1>4. TicketOwners
  BY DEF Init, TicketOwners, Writing, Reading
<1>5. AnswersHold
  BY DEF Init, AnswersHold
<1>6. PublishedJobs
  BY DEF Init, PublishedJobs
<1>7. TicketsServed
  <2>1. ASSUME NEW p \in tail - Size .. head - 1
        PROVE  seq[Slot(p)] # p + 1
    <3>1. p \in Int /\ p + Size \in tail .. tail + Size - 1 /\ p + Size - Size = p /\ p < Start
      BY DEF Init
    <3>2. Slot(p + Size) = Slot(p)
      BY <3>1, SlotShift
    <3> QED BY <1>3, <3>1, <3>2 DEF SlotStates, Init
  <2>2. head .. tail - 1 = {}
    BY DEF Init
  <2> QED BY <2>1, <2>2 DEF TicketsServed
<1>8. HandsEmpty
  BY DEF Init, HandsEmpty
<1> QED BY <1>1, <1>2, <1>3, <1>4, <1>5, <1>6, <1>7, <1>8 DEF RingInv

----------------------------------------------------------------------------
(* Steps that touch only the local variables of a thread *)

LEMMA LocalStep ==
  ASSUME RingInv, NEW t \in Threads,
         UNCHANGED <<head, tail, seq, data>>,
         pc' = [pc EXCEPT ![t] = pc'[t]],
         pos' = [pos EXCEPT ![t] = pos'[t]],
         job' = [job EXCEPT ![t] = job'[t]],
         ~Writing(t), ~Reading(t),
         pc'[t] \in {"idle", "pushTail", "pushSlot", "pushReserve",
                     "pullHead", "pullSlot", "pullReserve"},
         pos'[t] \in Nat, Start <= pos'[t], pos'[t] <= tail,
         pc'[t] \in {"pullSlot", "pullReserve"} => pos'[t] <= head,
         (pc'[t] = "pushReserve" /\ tail = pos'[t])
           => seq[Slot(pos'[t])] = pos'[t],
         (pc'[t] = "pullReserve" /\ head = pos'[t])
           => seq[Slot(pos'[t])] = pos'[t] + 1
  PROVE  CountersInWindow' /\ SlotStates' /\ TicketOwners' /\ AnswersHold'
         /\ PublishedJobs'
<1> USE DEF RingInv
<1>1. CountersInWindow'
  BY DEF TypeOK, CountersInWindow, TicketsInWindow, PullPoints
<1>2. SlotStates'
  BY DEF SlotStates, Slot
<1>3. TicketOwners'
  BY DEF TicketOwners, TypeOK, Writing, Reading, Slot
<1>4. AnswersHold'
  BY DEF AnswersHold, TypeOK, Slot
<1>5. PublishedJobs'
  BY DEF PublishedJobs, TypeOK, Writing, Reading, Slot
<1> QED BY <1>1, <1>2, <1>3, <1>4, <1>5

LEMMA TypeStep == RingInv /\ [Next]_vars => TypeOK'
<1> SUFFICES ASSUME RingInv, [Next]_vars PROVE TypeOK'
  OBVIOUS
<1> USE DEF TypeOK, Goto, PushPoints, PullPoints
<1>0. TypeOK
  BY DEF RingInv
<1>1. ASSUME NEW t \in Threads, Begin(t)
      PROVE  TypeOK'
  BY <1>0, <1>1 DEF Begin, BeginPush, BeginPull
<1>2. ASSUME NEW t \in Threads, Push(t)
      PROVE  TypeOK'
  <2>1. Slot(pos[t]) \in Slots
    BY <1>0, SlotType
  <2>2. CASE PushPublish(t)
    BY <1>0, <2>1, <2>2 DEF PushPublish
  <2>3. CASE PushWrite(t)
    BY <1>0, <2>1, <2>3 DEF PushWrite
  <2>4. CASE PushReserve(t)
    BY <1>0, <2>4 DEF PushReserve
  <2> QED
    BY <1>0, <1>2, <2>2, <2>3, <2>4 DEF Push, PushLoadTail, PushSlotFree,
       PushFull, PushStale, PushReserveFails
<1>3. ASSUME NEW t \in Threads, Pull(t)
      PROVE  TypeOK'
  <2>1. Slot(pos[t]) \in Slots
    BY <1>0, SlotType
  <2>2. CASE PullRelease(t)
    BY <1>0, <2>1, <2>2 DEF PullRelease
  <2>3. CASE PullRead(t)
    <3>1. data[Slot(pos[t])] \in Jobs
      BY <2>3 DEF PullRead, RingInv, PublishedJobs
    <3> QED BY <1>0, <2>1, <2>3, <3>1 DEF PullRead
  <2>4. CASE PullReserve(t)
    BY <1>0, <2>4 DEF PullReserve
  <2> QED
    BY <1>0, <1>3, <2>2, <2>3, <2>4 DEF Pull, PullLoadHead, PullSlotReady,
       PullEmpty, PullStale, PullReserveFails
<1>4. CASE UNCHANGED vars
  BY <1>0, <1>4 DEF vars
<1> QED BY <1>1, <1>2, <1>3, <1>4 DEF Next

\* The parts of RingInv that say what the slots show.
RingParts ==
  CountersInWindow /\ SlotStates /\ TicketOwners /\ AnswersHold /\ PublishedJobs

LEMMA PushReserveStep ==
  ASSUME RingInv, NEW t \in Threads, PushReserve(t), TypeOK'
  PROVE  RingParts'
<1> USE DEF RingInv, RingParts
<1>1. tail = pos[t] /\ seq[Slot(tail)] = tail /\ tail \in Nat
  BY TestsExact DEF PushReserve, AnswersHold, TypeOK
<1>2. tail < head + Size
  <2>1. tail \in tail .. tail + Size - 1
    BY <1>1
  <2> QED BY <1>1, <2>1 DEF SlotStates
<1>3. CountersInWindow'
  BY <1>1, <1>2 DEF PushReserve, Goto, TypeOK, CountersInWindow,
     TicketsInWindow, PullPoints
<1>4. SlotStates'
  <2> SUFFICES ASSUME NEW q \in tail + 1 .. tail + Size
               PROVE  \/ seq[Slot(q)] = q /\ q < head + Size
                      \/ seq[Slot(q)] = q - Size + 1 /\ q >= Start + Size
                      \/ seq[Slot(q)] = q - Size /\ q >= head + Size
    BY <1>1 DEF SlotStates, PushReserve, Slot
  <2>1. CASE q = tail + Size
    <3>1. Slot(q) = Slot(tail)
      BY <1>1, <2>1, SlotShift
    <3> QED BY <1>1, <2>1, <3>1 DEF CountersInWindow, TicketsInWindow, TypeOK
  <2>2. CASE q # tail + Size
    BY <1>1, <2>2 DEF SlotStates
  <2> QED BY <2>1, <2>2
<1>5. TicketOwners'
  <2>1. \A u \in Threads : Reading(u) => tail < pos[u] + Size
    <3> SUFFICES ASSUME NEW u \in Threads, Reading(u), tail = pos[u] + Size
                 PROVE  FALSE
      BY <1>1 DEF TicketOwners, TypeOK
    <3>1. Slot(tail) = Slot(pos[u])
      BY SlotShift DEF TypeOK
    <3> QED BY <1>1, <3>1 DEF TicketOwners, TypeOK
  <2>2. head <= tail
    BY DEF CountersInWindow, TicketsInWindow
  <2> QED
    BY <1>1, <2>1, <2>2 DEF PushReserve, Goto, TicketOwners, TypeOK, Writing,
       Reading, Slot
<1>6. AnswersHold'
  BY <1>1 DEF PushReserve, Goto, AnswersHold, TypeOK, CountersInWindow, Slot
<1>7. PublishedJobs'
  <2>1. UNCHANGED <<head, seq, data, pos, job>> /\ tail' = tail + 1
    BY DEF PushReserve
  <2>2. \A p \in head .. tail : seq[Slot(p)] = p + 1 => data[Slot(p)] \in Jobs
    <3> SUFFICES ASSUME NEW p \in head .. tail, seq[Slot(p)] = p + 1
                 PROVE  data[Slot(p)] \in Jobs
      OBVIOUS
    <3>1. p # tail
      BY <1>1
    <3>2. p \in head .. tail - 1
      BY <1>1, <3>1 DEF TypeOK
    <3> QED BY <3>2 DEF PublishedJobs
  <2>3. head' .. tail' - 1 = head .. tail
    BY <1>1, <2>1
  <2>4. \A u \in Threads :
           /\ pc'[u] = "pushPublish" => pc[u] = "pushPublish"
           /\ pc'[u] = "pullRead" => pc[u] = "pullRead"
    BY DEF PushReserve, Goto, TypeOK
  <2> QED BY <2>1, <2>2, <2>3, <2>4 DEF PublishedJobs, Slot
<1> QED BY <1>3, <1>4, <1>5, <1>6, <1>7

LEMMA PullReserveStep ==
  ASSUME RingInv, NEW t \in Threads, PullReserve(t), TypeOK'
  PROVE  RingParts'
<1> USE DEF RingInv, RingParts
<1>1. head = pos[t] /\ seq[Slot(head)] = head + 1 /\ head \in Nat
  BY TestsExact DEF PullReserve, AnswersHold, TypeOK
<1>2. head < tail /\ tail <= head + Size /\ tail \in Nat
  <2>1. CASE head = tail
    <3>1. head \in tail .. tail + Size - 1
      BY <1>1, <2>1
    <3> QED BY <1>1, <3>1 DEF SlotStates
  <2> QED BY <1>1, <2>1 DEF CountersInWindow, TicketsInWindow, TypeOK
<1>3. CountersInWindow'
  BY <1>1, <1>2 DEF PullReserve, Goto, TypeOK, CountersInWindow,
     TicketsInWindow, PullPoints
<1>4. SlotStates'
  <2>1. Slot(head + Size) = Slot(head)
    BY <1>1, SlotShift
  <2> SUFFICES ASSUME NEW q \in tail .. tail + Size - 1
               PROVE  \/ seq[Slot(q)] = q /\ q < head' + Size
                      \/ seq[Slot(q)] = q - Size + 1 /\ q >= Start + Size
                      \/ seq[Slot(q)] = q - Size /\ q >= head' + Size
    BY <1>1 DEF SlotStates, PullReserve, Slot
  <2>2. head' = head + 1
    BY DEF PullReserve
  <2>3. q = head + Size => seq[Slot(q)] # q - Size
    BY <1>1, <2>1
  <2> QED BY <1>1, <1>2, <2>2, <2>3 DEF SlotStates
<1>5. TicketOwners'
  <2>1. \A u \in Threads : Writing(u) => pos[u] # head
    BY <1>1 DEF TicketOwners
  <2>2. UNCHANGED <<tail, seq, pos>> /\ head' = head + 1
    BY DEF PullReserve
  <2>3. \A u \in Threads :
           /\ Writing(u)' <=> Writing(u)
           /\ Reading(u)' <=> (u = t \/ Reading(u))
    BY DEF PullReserve, Goto, TypeOK, Writing, Reading
  <2>4. ~ Reading(t) /\ ~ Writing(t)
    BY DEF PullReserve, Reading, Writing
  <2>5. \A u \in Threads : Writing(u)' =>
           /\ head' <= pos'[u] /\ pos'[u] < tail'
           /\ seq'[Slot(pos'[u])] = pos'[u]
    BY <1>1, <2>1, <2>2, <2>3 DEF TicketOwners, TypeOK
  <2>6. \A u \in Threads : Reading(u)' =>
           /\ pos'[u] < head' /\ tail' <= pos'[u] + Size
           /\ seq'[Slot(pos'[u])] = pos'[u] + 1
    BY <1>1, <1>2, <2>2, <2>3 DEF TicketOwners, TypeOK
  <2>7. \A u \in Threads : Reading(u) => pos[u] # pos[t]
    BY <1>1 DEF TicketOwners, TypeOK
  <2>8. \A u, v \in Threads :
           (u # v /\ ((Writing(u)' /\ Writing(v)') \/ (Reading(u)' /\ Reading(v)')))
             => pos'[u] # pos'[v]
    BY <2>2, <2>3, <2>7 DEF TicketOwners
  <2> QED BY <2>2, <2>5, <2>6, <2>8 DEF TicketOwners, Slot
<1>6. AnswersHold'
  BY <1>1 DEF PullReserve, Goto, AnswersHold, TypeOK, CountersInWindow, Slot,
     PullPoints
<1>7. PublishedJobs'
  <2>1. /\ UNCHANGED <<tail, seq, data, pos, job>> /\ head' = head + 1
        /\ \A u \in Threads \ {t} : pc'[u] = pc[u]
        /\ pc'[t] = "pullRead"
    BY <1>1 DEF PullReserve, Goto, TypeOK
  <2>2. data[Slot(head)] \in Jobs
    BY <1>1, <1>2 DEF PublishedJobs
  <2>3. \A p \in head' .. tail' - 1 : seq'[Slot(p)] = p + 1 => data'[Slot(p)] \in Jobs
    BY <1>1, <1>2, <2>1 DEF PublishedJobs
  <2>4. \A u \in Threads : pc'[u] = "pushPublish" => data'[Slot(pos'[u])] = job'[u]
    BY <2>1 DEF PublishedJobs
  <2>5. \A u \in Threads : pc'[u] = "pullRead" => data'[Slot(pos'[u])] \in Jobs
    BY <1>1, <2>1, <2>2 DEF PublishedJobs
  <2> QED BY <2>3, <2>4, <2>5 DEF PublishedJobs, Slot
<1> QED BY <1>3, <1>4, <1>5, <1>6, <1>7

LEMMA PushWriteStep ==
  ASSUME RingInv, NEW t \in Threads, PushWrite(t), TypeOK'
  PROVE  RingParts'
<1> USE DEF RingInv, RingParts
<1>1. /\ pos[t] \in Nat /\ Slot(pos[t]) \in Slots /\ Writing(t)
      /\ head <= pos[t] /\ pos[t] < tail /\ seq[Slot(pos[t])] = pos[t]
      /\ head \in Nat /\ tail \in Nat
      /\ tail <= head + Size
  BY SlotType DEF PushWrite, TypeOK, TicketOwners, Writing, CountersInWindow,
     TicketsInWindow
<1>2. CountersInWindow'
  BY DEF PushWrite, Goto, TypeOK, CountersInWindow, TicketsInWindow, PullPoints
<1>3. SlotStates'
  BY DEF SlotStates, PushWrite, Slot
<1>4. TicketOwners'
  BY DEF PushWrite, Goto, TicketOwners, TypeOK, Writing, Reading, Slot
<1>5. AnswersHold'
  BY DEF PushWrite, Goto, AnswersHold, TypeOK, Slot
<1>6. PublishedJobs'
  <2>1. \A p \in Nat : Slot(p) = Slot(pos[t]) /\ seq[Slot(p)] = p + 1
                          => p \notin head .. tail - 1
    BY <1>1, SlotInjective
  <2>2. \A u \in Threads : u # t /\ (Writing(u) \/ Reading(u))
                             => Slot(pos[u]) # Slot(pos[t])
    <3> SUFFICES ASSUME NEW u \in Threads, u # t, Writing(u) \/ Reading(u),
                        Slot(pos[u]) = Slot(pos[t])
                 PROVE  FALSE
      OBVIOUS
    <3>1. pos[u] \in Nat
      BY DEF TypeOK
    <3>2. CASE Writing(u)
      <4>1. head <= pos[u] /\ pos[u] < tail /\ pos[u] # pos[t]
        BY <1>1, <3>2 DEF TicketOwners
      <4> QED BY <1>1, <3>1, <4>1, SlotInjective
    <3>3. CASE Reading(u)
      <4>1. pos[u] < head /\ tail <= pos[u] + Size
        BY <1>1, <3>3 DEF TicketOwners
      <4> QED BY <1>1, <3>1, <4>1, SlotInjective
    <3> QED BY <3>2, <3>3
  <2>3. data' = [data EXCEPT ![Slot(pos[t])] = job[t]] /\ job[t] \in Jobs
    BY DEF PushWrite, TypeOK, PushPoints
  <2>4. \A p \in Int : Slot(p) \in Slots
    BY SlotType
  <2>5. \A p \in head .. tail - 1 :
          seq[Slot(p)] = p + 1 => data'[Slot(p)] \in Jobs
    BY <1>1, <2>3, <2>4 DEF PublishedJobs, TypeOK
  <2>6. \A u \in Threads :
          pc'[u] = "pushPublish" => data'[Slot(pos[u])] = job[u]
    BY <1>1, <2>2, <2>3, <2>4 DEF PublishedJobs, TypeOK, PushWrite, Goto, Writing
  <2>7. \A u \in Threads : pc'[u] = "pullRead" => data'[Slot(pos[u])] \in Jobs
    BY <1>1, <2>2, <2>3, <2>4 DEF PublishedJobs, TypeOK, PushWrite, Goto, Reading
  <2> QED BY <2>5, <2>6, <2>7 DEF PublishedJobs, PushWrite, Slot
<1> QED BY <1>2, <1>3, <1>4, <1>5, <1>6

LEMMA PushPublishStep ==
  ASSUME RingInv, NEW t \in Threads, PushPublish(t), TypeOK'
  PROVE  RingParts'
<1> USE DEF RingInv, RingParts
<1> DEFINE s == Slot(pos[t])
<1>1. /\ pos[t] \in Nat /\ s \in Slots /\ Writing(t)
      /\ head <= pos[t] /\ pos[t] < tail /\ seq[s] = pos[t]
      /\ head \in Nat /\ tail \in Nat
      /\ tail <= head + Size
      /\ seq' = [seq EXCEPT ![s] = pos[t] + 1]
      /\ \A p \in Int : Slot(p) \in Slots
  BY SlotType DEF PushPublish, TypeOK, TicketOwners, Writing, CountersInWindow,
     TicketsInWindow
\* Other tickets of this slot are at least a lap away.
<1>2. \A p \in Int : Slot(p) = s /\ pos[t] - Size < p /\ p < pos[t] + Size
                      => p = pos[t]
  BY <1>1, SlotInjective
<1>3. CountersInWindow'
  BY <1>1 DEF PushPublish, Goto, TypeOK, CountersInWindow, TicketsInWindow,
     PullPoints
<1>4. SlotStates'
  <2> SUFFICES ASSUME NEW q \in tail .. tail + Size - 1
               PROVE  \/ seq'[Slot(q)] = q /\ q < head + Size
                      \/ seq'[Slot(q)] = q - Size + 1 /\ q >= Start + Size
                      \/ seq'[Slot(q)] = q - Size /\ q >= head + Size
    BY <1>1 DEF SlotStates, PushPublish, Slot
  <2>1. CASE Slot(q) = s
    <3>1. Slot(pos[t] + Size) = s
      BY <1>1, SlotShift
    <3>2. q = pos[t] + Size
      BY <1>1, <2>1, <3>1, SlotInjective
    <3> QED BY <1>1, <2>1, <3>2 DEF TypeOK, CountersInWindow
  <2>2. CASE Slot(q) # s
    BY <1>1, <2>2 DEF SlotStates, TypeOK
  <2> QED BY <2>1, <2>2
<1>5. TicketOwners'
  <2>1. \A u \in Threads : u # t /\ Writing(u) => Slot(pos[u]) # s
    BY <1>1, <1>2 DEF TicketOwners, TypeOK
  <2>2. \A u \in Threads : u # t /\ Reading(u) => Slot(pos[u]) # s
    BY <1>1, <1>2 DEF TicketOwners, TypeOK
  <2> QED
    BY <1>1, <2>1, <2>2 DEF PushPublish, Goto, TicketOwners, TypeOK, Writing,
       Reading, Slot
<1>6. AnswersHold'
  <2> SUFFICES ASSUME NEW u \in Threads, u # t
               PROVE  /\ (pc[u] = "pushReserve" /\ tail = pos[u])
                           => seq'[Slot(pos[u])] = pos[u]
                      /\ (pc[u] = "pullReserve" /\ head = pos[u])
                           => seq'[Slot(pos[u])] = pos[u] + 1
    BY DEF AnswersHold, PushPublish, Goto, TypeOK, Slot
  <2>1. pc[u] = "pushReserve" /\ tail = pos[u] => Slot(pos[u]) # s
    BY <1>1 DEF AnswersHold
  <2>2. pc[u] = "pullReserve" /\ head = pos[u] => Slot(pos[u]) # s
    BY <1>1, <1>2 DEF AnswersHold, TypeOK
  <2> QED BY <1>1, <2>1, <2>2 DEF AnswersHold, TypeOK
<1>7. PublishedJobs'
  <2>1. data[s] \in Jobs
    BY DEF PushPublish, PublishedJobs, TypeOK, PushPoints
  <2>2. \A p \in head .. tail - 1 : seq'[Slot(p)] = p + 1 => data[Slot(p)] \in Jobs
    BY <1>1, <1>2, <2>1 DEF PublishedJobs, TypeOK
  <2>3. \A u \in Threads : pc'[u] = "pushPublish" => data[Slot(pos[u])] = job'[u]
    BY DEF PushPublish, Goto, PublishedJobs, TypeOK
  <2>4. \A u \in Threads : pc'[u] = "pullRead" => data[Slot(pos[u])] \in Jobs
    BY DEF PushPublish, Goto, PublishedJobs, TypeOK
  <2> QED BY <2>2, <2>3, <2>4 DEF PushPublish, PublishedJobs, Slot
<1> QED BY <1>3, <1>4, <1>5, <1>6, <1>7

LEMMA PullReadStep ==
  ASSUME RingInv, NEW t \in Threads, PullRead(t), TypeOK'
  PROVE  RingParts'
<1> USE DEF RingInv, RingParts, PullRead, Goto
<1>1. CountersInWindow'
  BY DEF TypeOK, CountersInWindow, TicketsInWindow, PullPoints
<1>2. SlotStates'
  BY DEF SlotStates, Slot
<1>3. TicketOwners'
  BY DEF TicketOwners, TypeOK, Writing, Reading, Slot
<1>4. AnswersHold'
  BY DEF AnswersHold, TypeOK, Slot
<1>5. PublishedJobs'
  BY DEF PublishedJobs, TypeOK, Writing, Reading, Slot
<1> QED BY <1>1, <1>2, <1>3, <1>4, <1>5

LEMMA PullReleaseStep ==
  ASSUME RingInv, NEW t \in Threads, PullRelease(t), TypeOK'
  PROVE  RingParts'
<1> USE DEF RingInv, RingParts
<1> DEFINE s == Slot(pos[t])
<1>1. /\ pos[t] \in Nat /\ s \in Slots /\ Reading(t)
      /\ pos[t] < head /\ tail <= pos[t] + Size /\ seq[s] = pos[t] + 1
      /\ head \in Nat /\ tail \in Nat /\ head <= tail
      /\ tail <= head + Size
      /\ seq' = [seq EXCEPT ![s] = pos[t] + Size]
      /\ \A p \in Int : Slot(p) \in Slots
  BY SlotType DEF PullRelease, TypeOK, TicketOwners, Reading, CountersInWindow,
     TicketsInWindow
<1>2. \A p \in Int : Slot(p) = s /\ pos[t] - Size < p /\ p < pos[t] + Size
                      => p = pos[t]
  BY <1>1, SlotInjective
<1>3. CountersInWindow'
  BY <1>1 DEF PullRelease, Goto, TypeOK, CountersInWindow, TicketsInWindow,
     PullPoints
<1>4. SlotStates'
  <2> SUFFICES ASSUME NEW q \in tail .. tail + Size - 1
               PROVE  \/ seq'[Slot(q)] = q /\ q < head + Size
                      \/ seq'[Slot(q)] = q - Size + 1 /\ q >= Start + Size
                      \/ seq'[Slot(q)] = q - Size /\ q >= head + Size
    BY <1>1 DEF SlotStates, PullRelease, Slot
  <2>1. CASE Slot(q) = s
    <3>1. Slot(pos[t] + Size) = s
      BY <1>1, SlotShift
    <3>2. q = pos[t] + Size
      BY <1>1, <2>1, <3>1, SlotInjective
    <3> QED BY <1>1, <2>1, <3>2 DEF TypeOK
  <2>2. CASE Slot(q) # s
    BY <1>1, <2>2 DEF SlotStates, TypeOK
  <2> QED BY <2>1, <2>2
<1>5. TicketOwners'
  <2>1. \A u \in Threads : u # t /\ Writing(u) => Slot(pos[u]) # s
    BY <1>1, <1>2 DEF TicketOwners, TypeOK
  <2>2. \A u \in Threads : u # t /\ Reading(u) => Slot(pos[u]) # s
    BY <1>1, <1>2 DEF TicketOwners, TypeOK
  <2> QED
    BY <1>1, <2>1, <2>2 DEF PullRelease, Goto, TicketOwners, TypeOK, Writing,
       Reading, Slot
<1>6. AnswersHold'
  <2> SUFFICES ASSUME NEW u \in Threads, u # t
               PROVE  /\ (pc[u] = "pushReserve" /\ tail = pos[u])
                           => seq'[Slot(pos[u])] = pos[u]
                      /\ (pc[u] = "pullReserve" /\ head = pos[u])
                           => seq'[Slot(pos[u])] = pos[u] + 1
    BY DEF AnswersHold, PullRelease, Goto, TypeOK, Slot
  <2>1. pc[u] = "pushReserve" /\ tail = pos[u] => Slot(pos[u]) # s
    BY <1>1, <1>2 DEF AnswersHold, TypeOK
  <2>2. pc[u] = "pullReserve" /\ head = pos[u] => Slot(pos[u]) # s
    BY <1>1, <1>2 DEF AnswersHold, TypeOK
  <2> QED BY <1>1, <2>1, <2>2 DEF AnswersHold, TypeOK
<1>7. PublishedJobs'
  <2>1. \A p \in head .. tail - 1 : Slot(p) # s
    BY <1>1, <1>2
  <2>2. \A p \in head .. tail - 1 : seq'[Slot(p)] = p + 1 => data[Slot(p)] \in Jobs
    BY <1>1, <2>1 DEF PublishedJobs, TypeOK
  <2>3. \A u \in Threads : pc'[u] = "pushPublish" => data[Slot(pos[u])] = job'[u]
    BY DEF PullRelease, Goto, PublishedJobs, TypeOK
  <2>4. \A u \in Threads : pc'[u] = "pullRead" => data[Slot(pos[u])] \in Jobs
    BY DEF PullRelease, Goto, PublishedJobs, TypeOK
  <2> QED BY <2>2, <2>3, <2>4 DEF PullRelease, PublishedJobs, Slot
<1> QED BY <1>3, <1>4, <1>5, <1>6, <1>7

----------------------------------------------------------------------------
(* The theorems *)

\* What a state of RingInv is made of.
LEMMA RingFacts ==
  ASSUME RingInv
  PROVE  /\ head \in Nat /\ tail \in Nat /\ head <= tail /\ tail <= head + Size
         /\ seq \in [Slots -> Nat] /\ data \in [Slots -> Jobs \cup {NoJob}]
         /\ pc \in [Threads -> {"idle"} \cup PushPoints \cup PullPoints]
         /\ pos \in [Threads -> Nat] /\ job \in [Threads -> Jobs \cup {NoJob}]
         /\ \A p \in Int : Slot(p) \in Slots
BY SlotType DEF RingInv, TypeOK, CountersInWindow, TicketsInWindow

\* A step changes the local variables of the thread that takes it.
LEMMA OthersSame ==
  ASSUME RingInv, NEW t \in Threads, Begin(t) \/ Push(t) \/ Pull(t)
  PROVE  \A u \in Threads \ {t} : pc'[u] = pc[u] /\ pos'[u] = pos[u] /\ job'[u] = job[u]
<1>1. CASE Begin(t)
  BY <1>1, RingFacts DEF Begin, BeginPush, BeginPull, Goto
<1>2. CASE Push(t)
  BY <1>2, RingFacts DEF Push, PushLoadTail, PushSlotFree, PushFull, PushStale, PushReserve,
     PushReserveFails, PushWrite, PushPublish, Goto
<1>3. CASE Pull(t)
  BY <1>3, RingFacts DEF Pull, PullLoadHead, PullSlotReady, PullEmpty, PullStale, PullReserve,
     PullReserveFails, PullRead, PullRelease, Goto
<1> QED BY <1>1, <1>2, <1>3

\* A ticket keeps its producer until its slot is published, and its consumer
\* until its slot is released.
LEMMA ServedStep == RingInv /\ [Next]_vars => TicketsServed'
<1> SUFFICES ASSUME RingInv, [Next]_vars PROVE TicketsServed'
  OBVIOUS
<1>1. /\ head \in Nat /\ tail \in Nat /\ head <= tail /\ tail <= head + Size
      /\ \A t \in Threads : pos[t] \in Nat
      /\ pc \in [Threads -> {"idle"} \cup PushPoints \cup PullPoints]
      /\ pos \in [Threads -> Nat] /\ seq \in [Slots -> Nat]
      /\ \A p \in Int : Slot(p) \in Slots
  BY SlotType DEF RingInv, TypeOK, CountersInWindow, TicketsInWindow
<1>2. TicketsServed
  BY DEF RingInv
<1>3. ASSUME UNCHANGED <<head, tail, seq>>,
             \A t \in Threads : Writing(t) => Writing(t)' /\ pos'[t] = pos[t],
             \A t \in Threads : Reading(t) => Reading(t)' /\ pos'[t] = pos[t]
      PROVE  TicketsServed'
  <2>1. ASSUME NEW p \in head .. tail - 1, seq[Slot(p)] = p
        PROVE  \E t \in Threads : Writing(t)' /\ pos'[t] = p
    BY <1>2, <1>3, <2>1 DEF TicketsServed
  <2>2. ASSUME NEW p \in tail - Size .. head - 1, seq[Slot(p)] = p + 1
        PROVE  \E t \in Threads : Reading(t)' /\ pos'[t] = p
    BY <1>2, <1>3, <2>2 DEF TicketsServed
  <2> QED BY <1>3, <2>1, <2>2 DEF TicketsServed, Slot
<1>4. CASE UNCHANGED vars
  BY <1>3, <1>4 DEF vars, Writing, Reading
<1>5. ASSUME NEW t \in Threads, PushReserve(t)
      PROVE  TicketsServed'
  <2>1. tail = pos[t] /\ tail' = tail + 1 /\ UNCHANGED <<head, seq, pos>>
        /\ pc' = [pc EXCEPT ![t] = "pushWrite"] /\ pc[t] = "pushReserve"
    BY <1>5, TestsExact DEF PushReserve, Goto
  <2>2. /\ Writing(t)'
        /\ \A u \in Threads : (Writing(u) => Writing(u)') /\ (Reading(u) => Reading(u)')
    BY <1>1, <2>1 DEF Writing, Reading
  <2>3. \A p \in head .. tail : seq[Slot(p)] = p => \E u \in Threads : Writing(u)' /\ pos[u] = p
    <3> SUFFICES ASSUME NEW p \in head .. tail, seq[Slot(p)] = p
                 PROVE  \E u \in Threads : Writing(u)' /\ pos[u] = p
      OBVIOUS
    <3>1. CASE p = tail
      BY <2>1, <2>2, <3>1
    <3>2. CASE p # tail
      <4>1. p \in head .. tail - 1
        BY <1>1, <3>2
      <4> QED BY <1>2, <2>2, <4>1 DEF TicketsServed
    <3> QED BY <3>1, <3>2
  <2>4. \A p \in tail' - Size .. head - 1 : p \in tail - Size .. head - 1
    BY <1>1, <2>1
  <2>5. head' .. tail' - 1 = head .. tail
    BY <1>1, <2>1
  <2> QED BY <1>2, <2>1, <2>2, <2>3, <2>4, <2>5 DEF TicketsServed, Slot
<1>6. ASSUME NEW t \in Threads, PullReserve(t)
      PROVE  TicketsServed'
  <2>1. head = pos[t] /\ head' = head + 1 /\ UNCHANGED <<tail, seq, pos>>
        /\ pc' = [pc EXCEPT ![t] = "pullRead"] /\ pc[t] = "pullReserve"
    BY <1>6, TestsExact DEF PullReserve, Goto
  <2>2. /\ Reading(t)'
        /\ \A u \in Threads : (Writing(u) => Writing(u)') /\ (Reading(u) => Reading(u)')
    BY <1>1, <2>1 DEF Writing, Reading
  <2>3. \A p \in tail - Size .. head :
           seq[Slot(p)] = p + 1 => \E u \in Threads : Reading(u)' /\ pos[u] = p
    <3> SUFFICES ASSUME NEW p \in tail - Size .. head, seq[Slot(p)] = p + 1
                 PROVE  \E u \in Threads : Reading(u)' /\ pos[u] = p
      OBVIOUS
    <3>1. CASE p = head
      BY <2>1, <2>2, <3>1
    <3>2. CASE p # head
      <4>1. p \in tail - Size .. head - 1
        BY <1>1, <3>2
      <4> QED BY <1>2, <2>2, <4>1 DEF TicketsServed
    <3> QED BY <3>1, <3>2
  <2>4. \A p \in head' .. tail - 1 : p \in head .. tail - 1
    BY <1>1, <2>1
  <2>5. tail' - Size .. head' - 1 = tail - Size .. head
    BY <1>1, <2>1
  <2> QED BY <1>2, <2>1, <2>2, <2>3, <2>4, <2>5, ZenonT(60) DEF TicketsServed, Slot
<1>7. ASSUME NEW t \in Threads, PushPublish(t)
      PROVE  TicketsServed'
  <2>1. /\ Writing(t) /\ UNCHANGED <<head, tail, pos>>
        /\ pc' = [pc EXCEPT ![t] = "idle"] /\ pc[t] = "pushPublish"
        /\ seq' = [seq EXCEPT ![Slot(pos[t])] = pos[t] + 1]
    BY <1>7 DEF PushPublish, Goto, Writing
  <2>2. head <= pos[t] /\ pos[t] < tail
    BY <2>1 DEF RingInv, TicketOwners
  <2>3. \A u \in Threads : (Writing(u) /\ u # t => Writing(u)') /\ (Reading(u) => Reading(u)')
    BY <1>1, <2>1 DEF Writing, Reading
  <2>4. ASSUME NEW p \in head .. tail - 1, seq'[Slot(p)] = p
        PROVE  \E u \in Threads : Writing(u)' /\ pos[u] = p
    <3>1. p # pos[t]
      BY <1>1, <2>1, <2>4
    <3>2. Slot(p) # Slot(pos[t])
      BY <1>1, <2>2, <3>1, SlotInjective
    <3>3. seq[Slot(p)] = p
      BY <1>1, <2>1, <2>4, <3>2
    <3> QED BY <1>2, <2>3, <3>1, <3>3 DEF TicketsServed
  <2>5. ASSUME NEW p \in tail - Size .. head - 1, seq'[Slot(p)] = p + 1
        PROVE  \E u \in Threads : Reading(u)' /\ pos[u] = p
    <3>1. Slot(p) # Slot(pos[t])
      BY <1>1, <2>2, SlotInjective
    <3>2. seq[Slot(p)] = p + 1
      BY <1>1, <2>1, <2>5, <3>1
    <3> QED BY <1>2, <2>3, <3>2 DEF TicketsServed
  <2> QED BY <2>1, <2>4, <2>5 DEF TicketsServed, Slot
<1>8. ASSUME NEW t \in Threads, PullRelease(t)
      PROVE  TicketsServed'
  <2>1. /\ Reading(t) /\ UNCHANGED <<head, tail, pos>>
        /\ pc' = [pc EXCEPT ![t] = "idle"] /\ pc[t] = "pullRelease"
        /\ seq' = [seq EXCEPT ![Slot(pos[t])] = pos[t] + Size]
    BY <1>8 DEF PullRelease, Goto, Reading
  <2>2. pos[t] < head /\ tail <= pos[t] + Size
    BY <2>1 DEF RingInv, TicketOwners
  <2>3. \A u \in Threads : (Writing(u) => Writing(u)') /\ (Reading(u) /\ u # t => Reading(u)')
    BY <1>1, <2>1 DEF Writing, Reading
  <2>4. ASSUME NEW p \in head .. tail - 1, seq'[Slot(p)] = p
        PROVE  \E u \in Threads : Writing(u)' /\ pos[u] = p
    <3>1. Slot(p) # Slot(pos[t])
      BY <1>1, <2>2, SlotInjective
    <3>2. seq[Slot(p)] = p
      BY <1>1, <2>1, <2>4, <3>1
    <3> QED BY <1>2, <2>3, <3>2 DEF TicketsServed
  <2>5. ASSUME NEW p \in tail - Size .. head - 1, seq'[Slot(p)] = p + 1
        PROVE  \E u \in Threads : Reading(u)' /\ pos[u] = p
    <3>1. p # pos[t]
      BY <1>1, <2>1, <2>5
    <3>2. Slot(p) # Slot(pos[t])
      BY <1>1, <2>2, <3>1, SlotInjective
    <3>3. seq[Slot(p)] = p + 1
      BY <1>1, <2>1, <2>5, <3>2
    <3> QED BY <1>2, <2>3, <3>1, <3>3 DEF TicketsServed
  <2> QED BY <2>1, <2>4, <2>5 DEF TicketsServed, Slot
<1>9. ASSUME NEW t \in Threads, Begin(t) \/ Push(t) \/ Pull(t),
             ~PushReserve(t), ~PullReserve(t), ~PushPublish(t), ~PullRelease(t)
      PROVE  TicketsServed'
  <2>1. UNCHANGED <<head, tail, seq>>
    BY <1>9 DEF Begin, BeginPush, BeginPull, Push, PushLoadTail, PushSlotFree, PushFull,
       PushStale, PushReserveFails, PushWrite, Pull, PullLoadHead, PullSlotReady, PullEmpty,
       PullStale, PullReserveFails, PullRead
  <2>2. \A u \in Threads \ {t} : pc'[u] = pc[u] /\ pos'[u] = pos[u]
    BY <1>9, OthersSame
  <2>3. (Writing(t) => Writing(t)' /\ pos'[t] = pos[t])
        /\ (Reading(t) => Reading(t)' /\ pos'[t] = pos[t])
    BY <1>1, <1>9 DEF Begin, BeginPush, BeginPull, Push, PushLoadTail, PushSlotFree, PushFull,
       PushStale, PushReserveFails, PushWrite, Pull, PullLoadHead, PullSlotReady, PullEmpty,
       PullStale, PullReserveFails, PullRead, Goto, Writing, Reading
  <2> QED BY <1>3, <2>1, <2>2, <2>3 DEF Writing, Reading
<1> QED BY <1>4, <1>5, <1>6, <1>7, <1>8, <1>9 DEF Next

LEMMA HandsStep == RingInv /\ [Next]_vars => HandsEmpty'
<1> SUFFICES ASSUME RingInv, [Next]_vars PROVE HandsEmpty'
  OBVIOUS
<1>1. /\ HandsEmpty /\ pc \in [Threads -> {"idle"} \cup PushPoints \cup PullPoints]
      /\ job \in [Threads -> Jobs \cup {NoJob}]
  BY DEF RingInv, TypeOK
<1> USE DEF HandsEmpty, PullPoints, PushPoints, Goto
<1>2. CASE UNCHANGED vars
  BY <1>1, <1>2 DEF vars
<1>3. ASSUME NEW t \in Threads, Begin(t)
      PROVE  HandsEmpty'
  BY <1>1, <1>3 DEF Begin, BeginPush, BeginPull
<1>4. ASSUME NEW t \in Threads, Push(t)
      PROVE  HandsEmpty'
  BY <1>1, <1>4 DEF Push, PushLoadTail, PushSlotFree, PushFull, PushStale, PushReserve,
     PushReserveFails, PushWrite, PushPublish
<1>5. ASSUME NEW t \in Threads, Pull(t)
      PROVE  HandsEmpty'
  BY <1>1, <1>5 DEF Pull, PullLoadHead, PullSlotReady, PullEmpty, PullStale, PullReserve,
     PullReserveFails, PullRead, PullRelease
<1> QED BY <1>2, <1>3, <1>4, <1>5 DEF Next

LEMMA StepRingInv == RingInv /\ [Next]_vars => RingInv'
<1> SUFFICES ASSUME RingInv, [Next]_vars PROVE RingParts'
  BY TypeStep, ServedStep, HandsStep DEF RingInv, RingParts
<1>1. TypeOK /\ TypeOK'
  BY TypeStep DEF RingInv
<1>2. CASE UNCHANGED vars
  BY <1>2 DEF vars, RingInv, RingParts, CountersInWindow, TicketsInWindow,
     SlotStates, TicketOwners, AnswersHold, PublishedJobs, Writing, Reading, Slot
<1>3. ASSUME NEW t \in Threads, Begin(t)
      PROVE  RingParts'
  <2>1. Start <= pos[t] /\ pos[t] <= tail
    BY DEF RingInv, CountersInWindow
  <2> QED
    BY <1>1, <1>3, <2>1, LocalStep DEF Begin, BeginPush, BeginPull, Goto,
       TypeOK, Writing, Reading, RingParts
<1>4. ASSUME NEW t \in Threads, Push(t)
      PROVE  RingParts'
  <2>1. /\ Start <= pos[t] /\ pos[t] <= tail /\ Start <= tail
        /\ head \in Nat /\ tail \in Nat
        /\ seq[Slot(pos[t])] \in Nat /\ pos[t] \in Nat
    BY <1>1, SlotType DEF RingInv, CountersInWindow, TicketsInWindow, TypeOK
  <2>2. CASE PushReserve(t)
    BY <1>1, <2>2, PushReserveStep
  <2>3. CASE PushWrite(t)
    BY <1>1, <2>3, PushWriteStep
  <2>4. CASE PushPublish(t)
    BY <1>1, <2>4, PushPublishStep
  <2>5. CASE PushSlotFree(t)
    <3>1. seq[Slot(pos[t])] = pos[t]
      BY <2>1, <2>5, TestsExact DEF PushSlotFree
    <3> QED
      BY <1>1, <2>1, <2>5, <3>1, LocalStep DEF PushSlotFree, Goto, TypeOK,
         Writing, Reading, RingParts
  <2>6. CASE PushLoadTail(t) \/ PushFull(t) \/ PushStale(t) \/ PushReserveFails(t)
    BY <1>1, <2>1, <2>6, LocalStep DEF PushLoadTail, PushFull, PushStale,
       PushReserveFails, Goto, TypeOK, Writing, Reading, RingParts
  <2> QED BY <1>4, <2>2, <2>3, <2>4, <2>5, <2>6 DEF Push
<1>5. ASSUME NEW t \in Threads, Pull(t)
      PROVE  RingParts'
  <2>1. /\ Start <= pos[t] /\ pos[t] <= tail /\ Start <= head /\ head <= tail
        /\ head \in Nat /\ tail \in Nat
        /\ seq[Slot(pos[t])] \in Nat /\ pos[t] \in Nat
        /\ pc[t] \in {"pullSlot", "pullReserve"} => pos[t] <= head
    BY <1>1, SlotType DEF RingInv, CountersInWindow, TicketsInWindow, TypeOK,
       PullPoints
  <2>2. CASE PullReserve(t)
    BY <1>1, <2>2, PullReserveStep
  <2>3. CASE PullRead(t)
    BY <1>1, <2>3, PullReadStep
  <2>4. CASE PullRelease(t)
    BY <1>1, <2>4, PullReleaseStep
  <2>5. CASE PullSlotReady(t)
    <3>1. seq[Slot(pos[t])] = pos[t] + 1
      BY <2>1, <2>5, TestsExact DEF PullSlotReady
    <3> QED
      BY <1>1, <2>1, <2>5, <3>1, LocalStep DEF PullSlotReady, Goto, TypeOK,
         Writing, Reading, RingParts
  <2>6. CASE PullLoadHead(t) \/ PullEmpty(t) \/ PullStale(t) \/ PullReserveFails(t)
    BY <1>1, <2>1, <2>6, LocalStep DEF PullLoadHead, PullEmpty, PullStale,
       PullReserveFails, Goto, TypeOK, Writing, Reading, RingParts
  <2> QED BY <1>5, <2>2, <2>3, <2>4, <2>5, <2>6 DEF Pull
<1> QED BY <1>2, <1>3, <1>4, <1>5 DEF Next

LEMMA SlotsApart == RingInv => SlotExclusive
<1> SUFFICES ASSUME RingInv, NEW t \in Threads, NEW u \in Threads, t # u,
                    Writing(t) \/ Reading(t), Writing(u) \/ Reading(u),
                    Slot(pos[t]) = Slot(pos[u])
             PROVE  FALSE
  BY DEF SlotExclusive
<1>1. /\ pos[t] \in Nat /\ pos[u] \in Nat /\ head \in Nat /\ tail \in Nat
      /\ head <= tail /\ tail <= head + Size
  BY DEF RingInv, TypeOK, CountersInWindow, TicketsInWindow
<1>2. pos[t] - Size < pos[u] /\ pos[u] < pos[t] + Size /\ pos[t] # pos[u]
  BY <1>1 DEF RingInv, TicketOwners, Writing, Reading
<1> QED BY <1>1, <1>2, SlotInjective

\* RingInv is an invariant of the ring.
THEOREM RingInvariant == Spec => []RingInv
<1> QED BY InitRingInv, StepRingInv, PTL DEF Spec

\* Type correctness, with the promise that a pull that got a ticket returns a
\* job and never JOB_BATCH_NONE.
THEOREM TypeCorrect == Spec => []TypeOK
<1>1. RingInv => TypeOK
  BY DEF RingInv
<1> QED BY <1>1, RingInvariant, PTL

\* The accesses to the contents of the slots never race.
THEOREM SlotsExclusive == Spec => []SlotExclusive
<1> QED BY SlotsApart, RingInvariant, PTL

\* Consumers never overtake producers and producers never lap consumers.
THEOREM WindowKept == Spec => []TicketsInWindow
<1>1. RingInv => TicketsInWindow
  BY DEF RingInv, CountersInWindow
<1> QED BY <1>1, RingInvariant, PTL

----------------------------------------------------------------------------
(* What the tickets stand for *)

\* The jobs in the ring, oldest first, as ImplementsQueue reads them.
Items == [i \in 1 .. (tail - head) |-> TicketJob(head + i - 1)]

\* A ticket whose producer has not published it stands for the producer's job.
LEMMA WrittenTicket ==
  RingInv => \A t \in Threads : Writing(t) =>
    /\ TicketJob(pos[t]) = job[t] /\ job[t] \in Jobs
    /\ pos[t] \in head .. tail - 1 /\ seq[Slot(pos[t])] = pos[t]
<1> SUFFICES ASSUME RingInv, NEW t \in Threads, Writing(t)
             PROVE  /\ TicketJob(pos[t]) = job[t] /\ job[t] \in Jobs
                    /\ pos[t] \in head .. tail - 1 /\ seq[Slot(pos[t])] = pos[t]
  OBVIOUS
<1>1. seq[Slot(pos[t])] = pos[t] /\ pos[t] \in head .. tail - 1 /\ pos[t] \in Nat
  BY RingFacts DEF RingInv, TicketOwners
<1>2. \A u \in Threads : Writing(u) /\ pos[u] = pos[t] => u = t
  BY DEF RingInv, TicketOwners
<1>3. (CHOOSE u \in Threads : Writing(u) /\ pos[u] = pos[t]) = t
  BY <1>2
<1>4. TicketJob(pos[t]) = job[t]
  <2>1. seq[Slot(pos[t])] # pos[t] + 1
    BY <1>1
  <2>2. TicketJob(pos[t]) = job[CHOOSE u \in Threads : Writing(u) /\ pos[u] = pos[t]]
    BY <2>1 DEF TicketJob
  <2> QED BY <1>3, <2>2
<1>5. job[t] \in Jobs
  BY DEF RingInv, TypeOK, Writing, PushPoints
<1> QED BY <1>1, <1>4, <1>5

LEMMA WrittenTicketNext ==
  RingInv' => \A t \in Threads : \A p : Writing(t)' /\ pos'[t] = p => TicketJob(p)' = job'[t]
<1>1. (RingInv => \A t \in Threads : Writing(t) =>
         /\ TicketJob(pos[t]) = job[t] /\ job[t] \in Jobs
         /\ pos[t] \in head .. tail - 1 /\ seq[Slot(pos[t])] = pos[t])'
  BY WrittenTicket, PTL
<1> SUFFICES ASSUME RingInv', NEW t \in Threads, NEW p, Writing(t)', pos'[t] = p
             PROVE  TicketJob(p)' = job'[t]
  OBVIOUS
<1>2. TicketJob(pos[t])' = job'[t]
  BY <1>1
<1>3. TicketJob(pos[t])' = TicketJob(p)'
  BY DEF TicketJob, Slot
<1> QED BY <1>2, <1>3

\* A ticket that is out is published, or its producer has it.
LEMMA TicketCases ==
  RingInv => \A p \in head .. tail - 1 :
    \/ seq[Slot(p)] = p + 1 /\ TicketJob(p) = data[Slot(p)] /\ data[Slot(p)] \in Jobs
    \/ seq[Slot(p)] = p /\ \E t \in Threads : Writing(t) /\ pos[t] = p
<1> SUFFICES ASSUME RingInv, NEW p \in head .. tail - 1
             PROVE  \/ /\ seq[Slot(p)] = p + 1 /\ TicketJob(p) = data[Slot(p)]
                       /\ data[Slot(p)] \in Jobs
                    \/ seq[Slot(p)] = p /\ \E t \in Threads : Writing(t) /\ pos[t] = p
  OBVIOUS
<1>1. p \in Int /\ p + Size \in tail .. tail + Size - 1 /\ p >= head
  BY RingFacts
<1>2. Slot(p + Size) = Slot(p)
  BY <1>1, SlotShift
<1>3. seq[Slot(p)] = p + 1 \/ seq[Slot(p)] = p
  <2>1. \/ seq[Slot(p)] = p + Size /\ p + Size < head + Size
        \/ seq[Slot(p)] = p + Size - Size + 1
        \/ seq[Slot(p)] = p + Size - Size
    BY <1>1, <1>2 DEF RingInv, SlotStates
  <2> QED BY <1>1, <2>1, RingFacts
<1>4. seq[Slot(p)] = p + 1 => data[Slot(p)] \in Jobs
  BY DEF RingInv, PublishedJobs
<1>5. seq[Slot(p)] = p => \E t \in Threads : Writing(t) /\ pos[t] = p
  BY DEF RingInv, TicketsServed
<1> QED BY <1>3, <1>4, <1>5 DEF TicketJob

LEMMA ItemsFacts ==
  RingInv => /\ Items \in Seq(Jobs) /\ Len(Items) = tail - head
             /\ \A i \in 1 .. tail - head : \A p : p = head + i - 1 => Items[i] = TicketJob(p)
<1> SUFFICES ASSUME RingInv
             PROVE  /\ Items \in Seq(Jobs) /\ Len(Items) = tail - head
                    /\ \A i \in 1 .. tail - head :
                         \A p : p = head + i - 1 => Items[i] = TicketJob(p)
  OBVIOUS
<1>1. PICK n \in Nat : n = tail - head
  BY RingFacts
<1>2. \A p \in head .. tail - 1 : TicketJob(p) \in Jobs
  BY TicketCases, WrittenTicket
<1>3. \A i \in 1 .. n : TicketJob(head + i - 1) \in Jobs
  <2>1. \A i \in 1 .. n : head + i - 1 \in head .. tail - 1
    BY <1>1, RingFacts
  <2> QED BY <1>2, <2>1
<1>4. Items = [i \in 1 .. n |-> TicketJob(head + i - 1)]
  BY <1>1 DEF Items
<1>5. Items \in [1 .. n -> Jobs] /\ \A i \in 1 .. n : Items[i] = TicketJob(head + i - 1)
  BY <1>3, <1>4
<1>6. Items \in Seq(Jobs) /\ Len(Items) = n
  BY <1>1, <1>5
<1> QED BY <1>1, <1>5, <1>6

LEMMA ItemsFactsNext ==
  (RingInv => /\ Items \in Seq(Jobs) /\ Len(Items) = tail - head
              /\ \A i \in 1 .. tail - head : \A p : p = head + i - 1 => Items[i] = TicketJob(p))'
BY ItemsFacts, PTL

----------------------------------------------------------------------------
(* What a step does to the tickets *)

\* A ticket stands for the same job as long as its slot is left alone, and when
\* its producer publishes that job.
LEMMA TicketKept ==
  ASSUME RingInv, RingInv', NEW p \in head .. tail - 1,
         seq[Slot(p)] = p + 1 => seq'[Slot(p)] = p + 1 /\ data'[Slot(p)] = data[Slot(p)],
         \A u \in Threads : Writing(u) /\ pos[u] = p =>
           \/ Writing(u)' /\ pos'[u] = p /\ job'[u] = job[u]
           \/ seq'[Slot(p)] = p + 1 /\ data'[Slot(p)] = job[u]
  PROVE  TicketJob(p)' = TicketJob(p)
<1>1. CASE seq[Slot(p)] = p + 1
  BY <1>1 DEF TicketJob, Slot
<1>2. ASSUME NEW u \in Threads, Writing(u), pos[u] = p
      PROVE  TicketJob(p)' = TicketJob(p)
  <2>1. TicketJob(p) = job[u]
    BY <1>2, WrittenTicket
  <2>2. CASE Writing(u)' /\ pos'[u] = p /\ job'[u] = job[u]
    BY <2>1, <2>2, WrittenTicketNext
  <2>3. CASE seq'[Slot(p)] = p + 1 /\ data'[Slot(p)] = job[u]
    BY <2>1, <2>3 DEF TicketJob, Slot
  <2> QED BY <1>2, <2>2, <2>3
<1> QED BY <1>1, <1>2, TicketCases

LEMMA TicketsKept ==
  ASSUME RingInv, RingInv', NEW t \in Threads, Begin(t) \/ Push(t) \/ Pull(t)
  PROVE  \A p \in head .. tail - 1 : TicketJob(p)' = TicketJob(p)
<1> SUFFICES ASSUME NEW p \in head .. tail - 1
             PROVE  TicketJob(p)' = TicketJob(p)
  OBVIOUS
<1>1. \A u \in Threads \ {t} : Writing(u) => Writing(u)' /\ pos'[u] = pos[u] /\ job'[u] = job[u]
  BY OthersSame DEF Writing
<1>2. CASE PushWrite(t)
  <2>1. Writing(t) /\ Writing(t)' /\ UNCHANGED <<pos, job, seq>>
        /\ data' = [data EXCEPT ![Slot(pos[t])] = job[t]]
    BY <1>2, RingFacts DEF PushWrite, Goto, Writing
  <2>2. seq[Slot(p)] = p + 1 => Slot(p) # Slot(pos[t])
    <3>1. seq[Slot(pos[t])] = pos[t] /\ pos[t] \in head .. tail - 1
      BY <2>1, WrittenTicket
    <3>2. Slot(p) = Slot(pos[t]) => p = pos[t]
      BY <3>1, RingFacts, SlotInjective
    <3> QED BY <3>1, <3>2, RingFacts
  <2>3. seq[Slot(p)] = p + 1 => data'[Slot(p)] = data[Slot(p)]
    BY <2>1, <2>2, RingFacts
  <2> QED BY <1>1, <2>1, <2>3, TicketKept
<1>3. CASE PushPublish(t)
  <2>1. Writing(t) /\ UNCHANGED <<pos, data>> /\ pc[t] = "pushPublish"
        /\ seq' = [seq EXCEPT ![Slot(pos[t])] = pos[t] + 1]
    BY <1>3 DEF PushPublish, Goto, Writing
  <2>2. seq[Slot(pos[t])] = pos[t] /\ pos[t] \in head .. tail - 1 /\ data[Slot(pos[t])] = job[t]
    BY <2>1, WrittenTicket DEF RingInv, PublishedJobs
  <2>3. Slot(p) = Slot(pos[t]) => p = pos[t]
    BY <2>2, RingFacts, SlotInjective
  <2>4. seq[Slot(p)] = p + 1 => seq'[Slot(p)] = p + 1
    BY <2>1, <2>2, <2>3, RingFacts
  <2>5. pos[t] = p => seq'[Slot(p)] = p + 1 /\ data'[Slot(p)] = job[t]
    BY <2>1, <2>2, RingFacts
  <2> QED BY <1>1, <2>1, <2>4, <2>5, TicketKept
<1>4. CASE PullRelease(t)
  <2>1. ~Writing(t) /\ Reading(t) /\ data' = data
        /\ seq' = [seq EXCEPT ![Slot(pos[t])] = pos[t] + Size]
    BY <1>4 DEF PullRelease, Writing, Reading
  <2>2. pos[t] < head /\ tail <= pos[t] + Size
    BY <2>1 DEF RingInv, TicketOwners
  <2>3. Slot(p) # Slot(pos[t])
    BY <2>2, RingFacts, SlotInjective
  <2>4. seq'[Slot(p)] = seq[Slot(p)]
    BY <2>1, <2>3, RingFacts
  <2> QED BY <1>1, <2>1, <2>4, TicketKept
<1>5. CASE ~PushWrite(t) /\ ~PushPublish(t) /\ ~PullRelease(t)
  <2>1. ~Writing(t)
    BY <1>5 DEF Writing, Begin, BeginPush, BeginPull, Push, PushLoadTail, PushSlotFree,
       PushFull, PushStale, PushReserve, PushReserveFails, Pull, PullLoadHead, PullSlotReady,
       PullEmpty, PullStale, PullReserve, PullReserveFails, PullRead
  <2>2. UNCHANGED <<seq, data>>
    BY <1>5 DEF Begin, BeginPush, BeginPull, Push, PushLoadTail, PushSlotFree,
       PushFull, PushStale, PushReserve, PushReserveFails, Pull, PullLoadHead, PullSlotReady,
       PullEmpty, PullStale, PullReserve, PullReserveFails, PullRead
  <2> QED BY <1>1, <2>1, <2>2, TicketKept
<1> QED BY <1>2, <1>3, <1>4, <1>5

\* What the abstract queue sees of the other threads stays as it is.
LEMMA OthersView ==
  ASSUME RingInv, NEW t \in Threads, Begin(t) \/ Push(t) \/ Pull(t)
  PROVE  \A u \in Threads \ {t} : Phase(u)' = Phase(u) /\ HeldJob(u)' = HeldJob(u)
<1> SUFFICES ASSUME NEW u \in Threads \ {t}
             PROVE  Phase(u)' = Phase(u) /\ HeldJob(u)' = HeldJob(u)
  OBVIOUS
<1>1. pc'[u] = pc[u] /\ pos'[u] = pos[u] /\ job'[u] = job[u]
  BY OthersSame
<1>2. Phase(u)' = Phase(u)
  BY <1>1 DEF Phase, Writing, Reading
<1>3. pc[u] = "pullRead" => data'[Slot(pos[u])] = data[Slot(pos[u])]
  <2>1. CASE PushWrite(t)
    <3>1. Writing(t) /\ data' = [data EXCEPT ![Slot(pos[t])] = job[t]]
      BY <2>1 DEF PushWrite, Writing
    <3>2. pc[u] = "pullRead" => Slot(pos[u]) # Slot(pos[t])
      BY <3>1, SlotsApart DEF SlotExclusive, Reading
    <3> QED BY <3>1, <3>2, RingFacts
  <2>2. CASE ~PushWrite(t)
    <3>1. data' = data
      BY <2>2 DEF Begin, BeginPush, BeginPull, Push, PushLoadTail, PushSlotFree, PushFull,
         PushStale, PushReserve, PushReserveFails, PushPublish, Pull, PullLoadHead,
         PullSlotReady, PullEmpty, PullStale, PullReserve, PullReserveFails, PullRead,
         PullRelease
    <3> QED BY <3>1
  <2> QED BY <2>1, <2>2
<1>4. HeldJob(u)' = HeldJob(u)
  BY <1>1, <1>3 DEF HeldJob, Slot
<1> QED BY <1>2, <1>4

LEMMA Moves ==
  ASSUME RingInv, NEW t \in Threads, Begin(t) \/ Push(t) \/ Pull(t),
         NEW p, Phase(t)' = p, NEW j, HeldJob(t)' = j
  PROVE  Queue!Move(t, p, j)
<1>1. /\ \A u \in Threads \ {t} : Phase(u)' = Phase(u) /\ HeldJob(u)' = HeldJob(u)
      /\ Phase(t)' = p /\ HeldJob(t)' = j
  BY OthersView
<1>2. [u \in Threads |-> Phase(u)'] = [[u \in Threads |-> Phase(u)] EXCEPT ![t] = p]
  BY <1>1
<1>3. [u \in Threads |-> HeldJob(u)'] = [[u \in Threads |-> HeldJob(u)] EXCEPT ![t] = j]
  BY <1>1
<1> QED BY <1>2, <1>3 DEF Queue!Move

\* A step that takes no ticket leaves the jobs in the ring.
LEMMA ItemsKept ==
  ASSUME RingInv, RingInv', NEW t \in Threads, Begin(t) \/ Push(t) \/ Pull(t),
         UNCHANGED <<head, tail>>
  PROVE  Items' = Items
<1>1. \A i \in 1 .. tail - head : head + i - 1 \in head .. tail - 1
  BY RingFacts
<1>2. \A i \in 1 .. tail - head : TicketJob(head + i - 1)' = TicketJob(head + i - 1)
  <2>1. ASSUME NEW i \in 1 .. tail - head
        PROVE  TicketJob(head + i - 1)' = TicketJob(head + i - 1)
    <3>1. PICK p \in head .. tail - 1 : p = head + i - 1
      BY <1>1
    <3>2. TicketJob(p)' = TicketJob(p)
      BY TicketsKept
    <3>3. TicketJob(head + i - 1)' = TicketJob(p)'
      BY <3>1 DEF TicketJob, Slot
    <3> QED BY <3>1, <3>2, <3>3
  <2> QED BY <2>1
<1> QED BY <1>2 DEF Items

----------------------------------------------------------------------------
(* Every step is one of the queue, or none *)

LEMMA InitQueue == Init => Queue!Init
<1> SUFFICES ASSUME Init PROVE Queue!Init
  OBVIOUS
<1>1. tail - head = 0
  BY DEF Init
<1>2. [i \in 1 .. (tail - head) |-> TicketJob(head + i - 1)] = <<>>
  BY <1>1
<1>3. \A t \in Threads : Phase(t) = "idle" /\ HeldJob(t) = NoJob
  BY DEF Init, Phase, HeldJob, Writing, Reading
<1> QED BY <1>2, <1>3 DEF Queue!Init

\* A step in which the abstract queue takes no part.
LEMMA Stutters ==
  ASSUME RingInv, RingInv', NEW t \in Threads, Begin(t) \/ Push(t) \/ Pull(t),
         UNCHANGED <<head, tail>>, Phase(t)' = Phase(t), HeldJob(t)' = HeldJob(t)
  PROVE  UNCHANGED Queue!vars
<1>1. Items' = Items
  BY ItemsKept
<1>2. \A u \in Threads : Phase(u)' = Phase(u) /\ HeldJob(u)' = HeldJob(u)
  BY OthersView
<1>3. /\ [u \in Threads |-> Phase(u)'] = [u \in Threads |-> Phase(u)]
      /\ [u \in Threads |-> HeldJob(u)'] = [u \in Threads |-> HeldJob(u)]
  BY <1>2
<1> QED BY <1>1, <1>3 DEF Queue!vars, Items

\* A reserved ticket is a job at the end of the queue.
LEMMA PushReservePuts ==
  ASSUME RingInv, RingInv', NEW t \in Threads, PushReserve(t)
  PROVE  Queue!Put(t)
<1>0. Push(t)
  BY DEF Push
<1>1. /\ tail = pos[t] /\ seq[Slot(tail)] = tail
      /\ tail' = tail + 1 /\ UNCHANGED <<head, seq, data, pos, job>>
      /\ pc[t] = "pushReserve" /\ pc'[t] = "pushWrite" /\ job[t] \in Jobs
  BY TestsExact, RingFacts DEF PushReserve, Goto, RingInv, AnswersHold, TypeOK, PushPoints
<1>2. tail < head + Size
  BY <1>1, RingFacts DEF RingInv, SlotStates
<1>3. Phase(t) = "pushing" /\ Phase(t)' = "pushed" /\ HeldJob(t) = job[t] /\ HeldJob(t)' = job[t]
  BY <1>1 DEF Phase, HeldJob, Writing, Reading
<1>4. Queue!Move(t, "pushed", HeldJob(t))
  BY <1>0, <1>3, Moves
<1>5. \A p : p = tail => TicketJob(p)' = job[t]
  <2>1. Writing(t)' /\ pos'[t] = tail
    BY <1>1 DEF Writing
  <2> QED BY <1>1, <2>1, WrittenTicketNext
<1>6. PICK n \in Nat : n = tail - head
  BY RingFacts
<1>7. /\ Items \in Seq(Jobs) /\ Len(Items) = n
      /\ \A i \in 1 .. n : \A p : p = head + i - 1 => Items[i] = TicketJob(p)
  BY <1>6, ItemsFacts
<1>8. /\ Items' \in Seq(Jobs) /\ Len(Items') = n + 1
      /\ \A i \in 1 .. n + 1 : \A p : p = head + i - 1 => Items'[i] = TicketJob(p)'
  <2>1. tail' - head' = n + 1
    BY <1>1, <1>6, RingFacts
  <2> QED BY <1>1, <2>1, ItemsFactsNext
<1>9. ASSUME NEW i \in 1 .. n + 1
      PROVE  Items'[i] = Append(Items, job[t])[i]
  <2>0. /\ \A k \in 1 .. n : Append(Items, job[t])[k] = Items[k]
        /\ Append(Items, job[t])[n + 1] = job[t]
    BY <1>1, <1>7, AppendProperties
  <2>1. CASE i = n + 1
    <3>1. PICK p \in Nat : p = tail /\ p = head + i - 1
      BY <1>6, <2>1, RingFacts
    <3>2. Items'[i] = TicketJob(p)'
      BY <1>8, <3>1, Zenon
    <3>3. TicketJob(p)' = job[t]
      BY <1>5, <3>1, Zenon
    <3>4. Append(Items, job[t])[i] = job[t]
      BY <2>0, <2>1, Zenon
    <3> QED BY <3>2, <3>3, <3>4, Zenon
  <2>2. CASE i \in 1 .. n
    <3>1. PICK p \in head .. tail - 1 : p = head + i - 1
      BY <1>6, <2>2, RingFacts
    <3>2. TicketJob(p)' = TicketJob(p)
      BY <1>0, TicketsKept
    <3>3. Items'[i] = TicketJob(p) /\ Items[i] = TicketJob(p)
      BY <1>7, <1>8, <2>2, <3>1, <3>2
    <3> QED BY <2>0, <2>2, <3>3
  <2>3. i = n + 1 \/ i \in 1 .. n
    BY <1>6
  <2> QED BY <2>1, <2>2, <2>3, Zenon
<1>10. Items' = Append(Items, job[t])
  <2>1. Append(Items, job[t]) \in Seq(Jobs) /\ Len(Append(Items, job[t])) = n + 1
    BY <1>1, <1>7, AppendProperties
  <2> QED BY <1>8, <1>9, <2>1, SeqEqual
<1>11. Len(Items) < Size
  BY <1>2, <1>6, <1>7, RingFacts
<1> QED BY <1>3, <1>4, <1>10, <1>11 DEF Queue!Put, Items

\* A taken ticket is the job at the head of the queue.
LEMMA PullReserveTakes ==
  ASSUME RingInv, RingInv', NEW t \in Threads, PullReserve(t)
  PROVE  Queue!Take(t)
<1>0. Pull(t)
  BY DEF Pull
<1>1. /\ head = pos[t] /\ seq[Slot(head)] = head + 1
      /\ head' = head + 1 /\ UNCHANGED <<tail, seq, data, pos, job>>
      /\ pc[t] = "pullReserve" /\ pc'[t] = "pullRead"
  BY TestsExact, RingFacts DEF PullReserve, Goto, RingInv, AnswersHold
<1>2. head < tail
  <2>1. head' <= tail' /\ head \in Nat /\ tail \in Nat
    BY RingFacts DEF RingInv, CountersInWindow, TicketsInWindow
  <2> QED BY <1>1, <2>1
<1>3. TicketJob(head) = data[Slot(head)]
  BY <1>1 DEF TicketJob
<1>4. Phase(t) = "pulling" /\ Phase(t)' = "pulled" /\ HeldJob(t)' = TicketJob(head)
  BY <1>1, <1>3 DEF Phase, HeldJob, Writing, Reading, Slot
<1>5. Queue!Move(t, "pulled", TicketJob(head))
  BY <1>0, <1>4, Moves
<1>6. PICK n \in Nat : n + 1 = tail - head
  <2>1. tail - head - 1 \in Nat /\ (tail - head - 1) + 1 = tail - head
    BY <1>2, RingFacts
  <2> QED BY <2>1, Zenon
<1>7. /\ Items \in Seq(Jobs) /\ Len(Items) = n + 1
      /\ \A i \in 1 .. n + 1 : \A p : p = head + i - 1 => Items[i] = TicketJob(p)
  BY <1>6, ItemsFacts
<1>8. /\ Items' \in Seq(Jobs) /\ Len(Items') = n
      /\ \A i \in 1 .. n : \A p : p = head + i => Items'[i] = TicketJob(p)'
  <2>1. tail' - head' = n
    BY <1>1, <1>6, RingFacts
  <2>2. /\ Items' \in Seq(Jobs) /\ Len(Items') = n
        /\ \A i \in 1 .. n : \A p : p = head' + i - 1 => Items'[i] = TicketJob(p)'
    BY <2>1, ItemsFactsNext
  <2>3. \A i \in 1 .. n : head' + i - 1 = head + i
    BY <1>1, RingFacts
  <2> QED BY <2>2, <2>3
<1>9. Items # <<>> /\ Head(Items) = TicketJob(head)
  <2>1. Items # <<>> /\ Head(Items) = Items[1]
    BY <1>7
  <2>2. Items[1] = TicketJob(head)
    <3>1. 1 \in 1 .. n + 1 /\ head = head + 1 - 1
      BY RingFacts
    <3> QED BY <1>7, <3>1
  <2> QED BY <2>1, <2>2
<1>10. /\ Tail(Items) \in Seq(Jobs) /\ Len(Tail(Items)) = n
       /\ \A i \in 1 .. n : Tail(Items)[i] = Items[i + 1]
  BY <1>7, <1>9, HeadTailProperties
<1>11. ASSUME NEW i \in 1 .. n
       PROVE  Items'[i] = Tail(Items)[i]
  <2>1. PICK p \in head .. tail - 1 : p = head + i
    BY <1>6, RingFacts
  <2>2. TicketJob(p)' = TicketJob(p)
    BY <1>0, TicketsKept
  <2>3. Items'[i] = TicketJob(p)'
    BY <1>8, <2>1
  <2>4. Tail(Items)[i] = TicketJob(p)
    <3>1. i + 1 \in 1 .. n + 1 /\ p = head + (i + 1) - 1
      BY <2>1, RingFacts
    <3> QED BY <1>7, <1>10, <3>1
  <2> QED BY <2>2, <2>3, <2>4
<1>12. Items' = Tail(Items)
  BY <1>8, <1>10, <1>11, SeqEqual
<1> QED BY <1>4, <1>5, <1>9, <1>12 DEF Queue!Take, Items

\* A position that a thread loaded and that was overtaken: its slot has moved on.
LEMMA StaleSlot ==
  ASSUME RingInv, NEW p \in Int, p < tail
  PROVE  /\ seq[Slot(p)] >= p
         /\ p < head => seq[Slot(p)] >= p + 1
<1>1. PICK q \in tail .. tail + Size - 1 : Slot(q) = Slot(p) /\ q >= p + Size
  <2>1. tail \in Int /\ Size \in Nat /\ Size > 0
    BY RingFacts
  <2>2. \E q \in tail .. tail + Size - 1 : q % Size = p % Size /\ q >= p + Size
    BY <2>1, NextLap
  <2> QED BY <2>2 DEF Slot
<1>2. \/ seq[Slot(p)] = q
      \/ seq[Slot(p)] = q - Size + 1
      \/ seq[Slot(p)] = q - Size /\ q >= head + Size
  BY <1>1 DEF RingInv, SlotStates
<1> QED BY <1>1, <1>2, RingFacts

\* A refused push found the ring full, or a pull that has not returned.
LEMMA PushFullRefuses ==
  ASSUME RingInv, RingInv', NEW t \in Threads, PushFull(t)
  PROVE  Queue!RefuseFull(t)
<1>0. Push(t)
  BY DEF Push
<1>1. /\ pc[t] = "pushSlot" /\ seq[Slot(pos[t])] < pos[t]
      /\ UNCHANGED <<head, tail>> /\ pc'[t] = "idle" /\ job'[t] = NoJob
      /\ pos[t] \in Nat /\ pos[t] <= tail /\ Slot(pos[t]) \in Slots
  BY TestsExact, RingFacts DEF PushFull, Goto, RingInv, CountersInWindow
<1>2. pos[t] = tail
  BY <1>1, StaleSlot, RingFacts
<1>3. Items' = Items
  BY <1>0, <1>1, ItemsKept
<1>4. Phase(t) = "pushing" /\ Phase(t)' = "idle" /\ HeldJob(t)' = NoJob
  BY <1>1 DEF Phase, HeldJob, Writing, Reading
<1>5. Queue!Move(t, "idle", NoJob)
  BY <1>0, <1>4, Moves
<1>6. Len(Items) = Size \/ \E u \in Threads : Phase(u) = "pulled"
  <2>1. CASE tail = head + Size
    BY <2>1, ItemsFacts, RingFacts
  <2>2. CASE tail < head + Size
    <3>1. PICK p \in tail - Size .. head - 1 : p = tail - Size
      BY <2>2, RingFacts
    <3>2. Slot(tail) = Slot(p)
      BY <3>1, SlotShift, RingFacts
    <3>3. tail \in tail .. tail + Size - 1
      BY RingFacts
    <3>4. seq[Slot(tail)] = tail - Size + 1
      BY <1>1, <1>2, <2>2, <3>3, RingFacts DEF RingInv, SlotStates
    <3>5. seq[Slot(p)] = p + 1
      BY <3>1, <3>2, <3>4, RingFacts
    <3>6. PICK u \in Threads : Reading(u)
      BY <3>5 DEF RingInv, TicketsServed
    <3>7. Phase(u) = "pulled"
      BY <3>6 DEF Phase, Reading, Writing
    <3> QED BY <3>7
  <2>3. tail = head + Size \/ tail < head + Size
    BY RingFacts
  <2> QED BY <2>1, <2>2, <2>3
<1> QED BY <1>3, <1>4, <1>5, <1>6 DEF Queue!RefuseFull, Items

\* A pull that came back empty found nothing, or a push that has not returned.
LEMMA PullEmptyRefuses ==
  ASSUME RingInv, RingInv', NEW t \in Threads, PullEmpty(t)
  PROVE  Queue!RefuseEmpty(t)
<1>0. Pull(t)
  BY DEF Pull
<1>1. /\ pc[t] = "pullSlot" /\ seq[Slot(pos[t])] < pos[t] + 1
      /\ UNCHANGED <<head, tail>> /\ pc'[t] = "idle" /\ job'[t] = job[t]
      /\ pos[t] \in Nat /\ pos[t] <= head /\ Slot(pos[t]) \in Slots
  <2>1. pos[t] <= head
    BY DEF PullEmpty, RingInv, CountersInWindow, PullPoints
  <2> QED BY <2>1, TestsExact, RingFacts DEF PullEmpty, Goto
<1>2. pos[t] = head
  BY <1>1, StaleSlot, RingFacts
<1>3. Items' = Items
  BY <1>0, <1>1, ItemsKept
<1>4. Phase(t) = "pulling" /\ Phase(t)' = "idle" /\ HeldJob(t)' = NoJob
  <2>1. job[t] = NoJob
    BY <1>1 DEF RingInv, HandsEmpty, PullPoints
  <2> QED BY <1>1, <2>1 DEF Phase, HeldJob, Writing, Reading
<1>5. Queue!Move(t, "idle", NoJob)
  BY <1>0, <1>4, Moves
<1>6. Items = <<>> \/ \E u \in Threads : Phase(u) = "pushed"
  <2>1. CASE head = tail
    BY <2>1, ItemsFacts, RingFacts
  <2>2. CASE head < tail
    <3>1. head \in head .. tail - 1
      BY <2>2, RingFacts
    <3>2. PICK u \in Threads : Writing(u)
      BY <1>1, <1>2, <3>1, TicketCases, RingFacts
    <3>3. Phase(u) = "pushed"
      BY <3>2 DEF Phase, Writing
    <3> QED BY <3>3
  <2> QED BY <2>1, <2>2, RingFacts
<1> QED BY <1>3, <1>4, <1>5, <1>6 DEF Queue!RefuseEmpty, Items

\* What every step of a thread is for the abstract queue.
LEMMA BeginMaps ==
  ASSUME RingInv, RingInv', NEW t \in Threads, Begin(t)
  PROVE  Queue!CallPush(t) \/ Queue!CallPull(t)
<1>1. pc[t] = "idle" /\ UNCHANGED <<head, tail>>
  BY DEF Begin, BeginPush, BeginPull
<1>2. Items' = Items
  BY <1>1, ItemsKept
<1>3. Phase(t) = "idle"
  BY <1>1 DEF Phase, Writing, Reading
<1>4. ASSUME NEW j \in Jobs, BeginPush(t, j)
      PROVE  Queue!CallPush(t)
  <2>1. Phase(t)' = "pushing" /\ HeldJob(t)' = j
    BY <1>4, RingFacts DEF BeginPush, Goto, Phase, HeldJob
  <2>2. Queue!Move(t, "pushing", j)
    BY <2>1, Moves
  <2> QED BY <1>2, <1>3, <2>2 DEF Queue!CallPush, Items
<1>5. CASE BeginPull(t)
  <2>1. job[t] = NoJob
    BY <1>1 DEF RingInv, HandsEmpty
  <2>2. Phase(t)' = "pulling" /\ HeldJob(t)' = NoJob
    BY <1>5, <2>1, RingFacts DEF BeginPull, Goto, Phase, HeldJob, Writing, Reading
  <2>3. Queue!Move(t, "pulling", NoJob)
    BY <2>2, Moves
  <2> QED BY <1>2, <1>3, <2>3 DEF Queue!CallPull, Items
<1> QED BY <1>4, <1>5 DEF Begin

LEMMA ReturnMaps ==
  ASSUME RingInv, RingInv', NEW t \in Threads, PushPublish(t) \/ PullRelease(t)
  PROVE  Queue!Return(t)
<1>1. Push(t) \/ Pull(t)
  BY DEF Push, Pull
<1>2. /\ UNCHANGED <<head, tail>> /\ pc[t] \in {"pushPublish", "pullRelease"}
      /\ pc'[t] = "idle" /\ job'[t] = NoJob
  BY RingFacts DEF PushPublish, PullRelease, Goto
<1>3. Phase(t) \in {"pushed", "pulled"} /\ Phase(t)' = "idle" /\ HeldJob(t)' = NoJob
  BY <1>2 DEF Phase, HeldJob, Writing, Reading
<1>4. Items' = Items
  BY <1>1, <1>2, ItemsKept
<1>5. Queue!Move(t, "idle", NoJob)
  BY <1>1, <1>3, Moves
<1> QED BY <1>3, <1>4, <1>5 DEF Queue!Return, Items

LEMMA PushMaps ==
  ASSUME RingInv, RingInv', NEW t \in Threads, Push(t)
  PROVE  Queue!Put(t) \/ Queue!RefuseFull(t) \/ Queue!Return(t) \/ UNCHANGED Queue!vars
<1>1. CASE PushReserve(t)
  BY <1>1, PushReservePuts
<1>2. CASE PushFull(t)
  BY <1>2, PushFullRefuses
<1>3. CASE PushPublish(t)
  BY <1>3, ReturnMaps
<1>4. CASE PushWrite(t)
  <2>1. UNCHANGED <<head, tail>> /\ Phase(t)' = Phase(t) /\ HeldJob(t)' = HeldJob(t)
    BY <1>4, RingFacts DEF PushWrite, Goto, Phase, HeldJob, Writing
  <2> QED BY <2>1, Stutters
<1>5. CASE PushLoadTail(t) \/ PushSlotFree(t) \/ PushStale(t) \/ PushReserveFails(t)
  <2>1. /\ UNCHANGED <<head, tail, job>>
        /\ pc[t] \in {"pushTail", "pushSlot", "pushReserve"}
        /\ pc'[t] \in {"pushTail", "pushSlot", "pushReserve"}
    BY <1>5, RingFacts DEF PushLoadTail, PushSlotFree, PushStale, PushReserveFails, Goto
  <2>2. Phase(t)' = Phase(t) /\ HeldJob(t)' = HeldJob(t)
    BY <2>1 DEF Phase, HeldJob
  <2> QED BY <2>1, <2>2, Stutters
<1> QED BY <1>1, <1>2, <1>3, <1>4, <1>5 DEF Push

LEMMA PullMaps ==
  ASSUME RingInv, RingInv', NEW t \in Threads, Pull(t)
  PROVE  Queue!Take(t) \/ Queue!RefuseEmpty(t) \/ Queue!Return(t) \/ UNCHANGED Queue!vars
<1>1. CASE PullReserve(t)
  BY <1>1, PullReserveTakes
<1>2. CASE PullEmpty(t)
  BY <1>2, PullEmptyRefuses
<1>3. CASE PullRelease(t)
  BY <1>3, ReturnMaps
<1>4. CASE PullRead(t)
  <2>1. /\ UNCHANGED <<head, tail, data, pos>> /\ pc[t] = "pullRead" /\ pc'[t] = "pullRelease"
        /\ job'[t] = data[Slot(pos[t])]
    BY <1>4, RingFacts DEF PullRead, Goto
  <2>2. Phase(t)' = Phase(t) /\ HeldJob(t)' = HeldJob(t)
    BY <2>1 DEF Phase, HeldJob, Writing, Reading
  <2> QED BY <2>1, <2>2, Stutters
<1>5. CASE PullLoadHead(t) \/ PullSlotReady(t) \/ PullStale(t) \/ PullReserveFails(t)
  <2>1. /\ UNCHANGED <<head, tail, job>>
        /\ pc[t] \in {"pullHead", "pullSlot", "pullReserve"}
        /\ pc'[t] \in {"pullHead", "pullSlot", "pullReserve"}
    BY <1>5, RingFacts DEF PullLoadHead, PullSlotReady, PullStale, PullReserveFails, Goto
  <2>2. Phase(t)' = Phase(t) /\ HeldJob(t)' = HeldJob(t)
    BY <2>1 DEF Phase, HeldJob, Writing
  <2> QED BY <2>1, <2>2, Stutters
<1> QED BY <1>1, <1>2, <1>3, <1>4, <1>5 DEF Pull

LEMMA StepQueue == RingInv /\ RingInv' /\ [Next]_vars => [Queue!Next]_(Queue!vars)
<1> SUFFICES ASSUME RingInv, RingInv', [Next]_vars
             PROVE  Queue!Next \/ UNCHANGED Queue!vars
  OBVIOUS
<1>1. CASE UNCHANGED vars
  BY <1>1 DEF vars, Queue!vars, TicketJob, Slot, Writing, Reading, Phase, HeldJob
<1>2. ASSUME NEW t \in Threads, Begin(t)
      PROVE  Queue!Next
  BY <1>2, BeginMaps DEF Queue!Next
<1>3. ASSUME NEW t \in Threads, Push(t)
      PROVE  Queue!Next \/ UNCHANGED Queue!vars
  BY <1>3, PushMaps DEF Queue!Next
<1>4. ASSUME NEW t \in Threads, Pull(t)
      PROVE  Queue!Next \/ UNCHANGED Queue!vars
  BY <1>4, PullMaps DEF Queue!Next
<1> QED BY <1>1, <1>2, <1>3, <1>4 DEF Next

\* The lock-free ring is a FIFO queue: reserving a ticket is the instant at
\* which a push or a pull takes effect, and the two refusals are truthful.
THEOREM RingIsAQueue == Spec => ImplementsQueue
<1>1. Init => Queue!Init
  BY InitQueue
<1>2. RingInv /\ RingInv' /\ [Next]_vars => [Queue!Next]_(Queue!vars)
  BY StepQueue
<1> QED BY <1>1, <1>2, RingInvariant, PTL DEF Spec, Queue!Spec, ImplementsQueue
=============================================================================
