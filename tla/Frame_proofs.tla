--------------------------- MODULE Frame_proofs ---------------------------
(***************************************************************************)
(* Proofs about what happens in a frame: the event system and the windows   *)
(* under the frame loop, and the systems of a scene.                        *)
(***************************************************************************)
EXTENDS EngineFrame, SystemBatches, FiniteSetTheorems, SequenceTheorems,
        WellFoundedInduction, NaturalsInduction, TLAPS

----------------------------------------------------------------------------
(* The inductive invariant *)

\* An id has one pipeline; only a pipeline has events.
PipelinesKnown ==
  /\ pipelines \in Seq(Ids)
  /\ \A i, k \in DOMAIN pipelines : pipelines[i] = pipelines[k] => i = k
  /\ \A id \in Ids : size[id] > 0 => registered(id)

\* A batch is free, or belongs to one pipeline that has events and holds just these.
\* Until there was once no free batch, batch 0 is the last of the free ones, and no
\* link lies over an event.
listed(b) == \E i \in DOMAIN free : free[i] = b
BatchesPlaced ==
  /\ batch \in [Ids -> Batches \cup {None}] /\ size \in [Ids -> 0 .. BatchSize]
  /\ DOMAIN store = Batches
  /\ \A b \in Batches : store[b] \in Seq(Range(store[b]))
  /\ \A id \in Ids : batch[id] = None <=> size[id] = 0
  /\ \A id, jd \in Ids : batch[id] = batch[jd] /\ batch[id] # None => id = jd
  /\ \A id \in Ids : batch[id] # None => Len(store[batch[id]]) = size[id]
  /\ \A b \in Batches : listed(b) => store[b] = <<>> /\ \A id \in Ids : batch[id] # b
  /\ \A b \in Batches : listed(b) \/ \E id \in Ids : batch[id] = b
  /\ free \in Seq(Batches) /\ \A i, k \in DOMAIN free : free[i] = free[k] => i = k
  /\ exhausted \in BOOLEAN /\ overlaid \in BOOLEAN
  /\ ~exhausted => free # <<>> /\ free[Len(free)] = 0 /\ ~overlaid

\* Who fires has the lock; the buffer is used within a dispatch only.
pointsKnown ==
  /\ pc \in [Threads -> {"idle", "write", "mark"}] /\ readers \subseteq Threads
  /\ eventsPending \in BOOLEAN
  /\ \A t \in Threads : pc[t] # "idle" <=> t \in readers
  /\ dispatching \in {"no", "collect", "stages", "returned"}
  /\ at \in {"initialize", "pump", "dispatch", "frame", "shutdown", "joining", "down", "stuck"}
  /\ dispatching # "stages" => buffer = <<>>
  /\ at # "dispatch" => dispatching \in {"no", "returned"}

\* What is dispatched is of one pipeline each; what no stage has seen is not empty.
BufferKept ==
  /\ buffer \in Seq(Range(buffer))
  /\ \A k \in DOMAIN buffer : buffer[k].id \in Ids
  /\ \A k, l \in DOMAIN buffer : buffer[k].id = buffer[l].id => k = l
  /\ \A k \in DOMAIN buffer : buffer[k].fresh =>
       /\ buffer[k].events \in Seq(Range(buffer[k].events)) /\ buffer[k].events # <<>>
       /\ \A i \in DOMAIN buffer[k].events :
            buffer[k].events[i].number = handed[buffer[k].id] + i

\* The events handed over, those being dispatched and those in the batch follow on.
NumbersKept ==
  /\ written \in [Ids -> Nat] /\ handed \in [Ids -> Nat]
  /\ \A id \in Ids :
       /\ batch[id] # None => \A i \in 1 .. size[id] :
            store[batch[id]][i].number = written[id] - size[id] + i
       /\ Collected(id) = {} => written[id] = handed[id] + size[id]
       /\ \A k \in Collected(id) :
            written[id] = handed[id] + Len(buffer[k].events) + size[id]

DataInv == PipelinesKnown /\ BatchesPlaced /\ BufferKept /\ NumbersKept
EventInv == DataInv /\ pointsKnown /\ NoEventForgotten

----------------------------------------------------------------------------
(* Sequences *)

\* A sequence is one of what it has.
LEMMA SeqOfItsRange ==
  ASSUME NEW S, NEW s \in Seq(S)
  PROVE  s \in Seq(Range(s)) /\ Len(s) \in Nat /\ DOMAIN s = 1 .. Len(s)
<1>1. Len(s) \in Nat /\ DOMAIN s = 1 .. Len(s) /\ s \in [1 .. Len(s) -> S]
  BY LenProperties
<1>2. \A i \in 1 .. Len(s) : s[i] \in Range(s)
  BY <1>1 DEF Range
<1>3. s \in [1 .. Len(s) -> Range(s)]
  BY <1>1, <1>2
<1> QED BY <1>1, <1>3

\* What writeEvent makes of a batch.
Extends(q, s, n, e) ==
  /\ q \in Seq(Range(q)) /\ Len(q) = n + 1
  /\ \A i \in 1 .. n : q[i] = s[i]
  /\ q[n + 1] = e

LEMMA PrefixAppended ==
  ASSUME NEW s, s \in Seq(Range(s)), NEW n \in Nat, n <= Len(s), NEW e
  PROVE  Extends(Append(SubSeq(s, 1, n), e), s, n, e)
<1> DEFINE q == Append(SubSeq(s, 1, n), e)
<1>1. PICK T : T = Range(s) \cup {e}
  OBVIOUS
<1>2. s \in Seq(T) /\ e \in T /\ Len(s) \in Nat
  BY <1>1, SeqMonotonic, LenProperties
<1>3. PICK p : p = SubSeq(s, 1, n)
  OBVIOUS
<1>4. p \in Seq(T) /\ Len(p) = n /\ \A i \in 1 .. n : p[i] = s[i]
  <2>1. \A i \in 1 .. n : s[i] \in T
    BY <1>2, ElementOfSeq
  <2>2. p \in Seq(T)
    BY <1>3, <2>1, SubSeqProperties
  <2>3. Len(p) = n
    <3>1. CASE n = 0
      BY <1>3, <3>1, SubSeqEmpty, EmptySeq
    <3>2. CASE n > 0
      BY <1>3, <2>1, <3>2, SubSeqProperties
    <3> QED BY <3>1, <3>2
  <2>4. \A i \in 1 .. n : p[i] = s[i]
    BY <1>3, <2>1, SubSeqProperties
  <2> QED BY <2>2, <2>3, <2>4
<1> HIDE DEF q
<1>6. q \in Seq(T) /\ Len(q) = n + 1 /\ q[n + 1] = e /\ \A i \in 1 .. n : q[i] = p[i]
  BY <1>2, <1>3, <1>4, AppendProperties DEF q
<1>7. Extends(q, s, n, e)
  BY <1>4, <1>6, SeqOfItsRange DEF Extends
<1> QED BY <1>7 DEF q

\* The first elements of a sequence.
LEMMA PrefixOf ==
  ASSUME NEW S, NEW s \in Seq(S), NEW n \in Nat, n <= Len(s)
  PROVE  /\ SubSeq(s, 1, n) \in Seq(S) /\ Len(SubSeq(s, 1, n)) = n
         /\ \A i \in 1 .. n : SubSeq(s, 1, n)[i] = s[i]
<1>1. \A i \in 1 .. n : s[i] \in S
  BY ElementOfSeq, LenProperties
<1>2. CASE n = 0
  BY <1>2, SubSeqEmpty, EmptySeq
<1>3. CASE n > 0
  BY <1>1, <1>3, SubSeqProperties
<1> QED BY <1>2, <1>3

\* What is left of a sequence without its head.
LEMMA TailOf ==
  ASSUME NEW S, NEW s \in Seq(S), s # <<>>
  PROVE  /\ Tail(s) \in Seq(S) /\ Len(s) \in Nat \ {0} /\ Len(Tail(s)) = Len(s) - 1
         /\ DOMAIN s = 1 .. Len(s) /\ DOMAIN Tail(s) = 1 .. Len(s) - 1
         /\ \A i \in DOMAIN Tail(s) : Tail(s)[i] = s[i + 1] /\ i + 1 \in DOMAIN s
         /\ Head(s) = s[1] /\ 1 \in DOMAIN s
<1>1. Len(s) \in Nat \ {0} /\ DOMAIN s = 1 .. Len(s)
  BY EmptySeq, LenProperties
<1>2. Tail(s) \in Seq(S) /\ Len(Tail(s)) = Len(s) - 1
  BY HeadTailProperties
<1>3. \A i \in 1 .. Len(Tail(s)) : Tail(s)[i] = s[i + 1]
  BY HeadTailProperties
<1>4. DOMAIN Tail(s) = 1 .. Len(s) - 1
  BY <1>2, LenProperties
<1>5. Head(s) = s[1]
  BY <1>1
<1> QED BY <1>1, <1>2, <1>3, <1>4, <1>5

\* One sequence of numbers after another.
LEMMA ConcatOf ==
  ASSUME NEW r \in Seq(Nat), NEW w \in Seq(Nat), NEW n \in Nat, NEW m \in Nat,
         Len(r) = n, Len(w) = m
  PROVE  /\ r \o w \in Seq(Nat) /\ Len(r \o w) = n + m
         /\ \A i \in 1 .. n + m : (r \o w)[i] = IF i <= n THEN r[i] ELSE w[i - n]
BY ConcatProperties

----------------------------------------------------------------------------
(* Firing *)

\* What writeEvent works on: a batch of the pipeline alone, not free any more, in
\* which n events are kept; list is what is free then.
Placeable(id, b, n, list) ==
  /\ id \in Ids /\ b \in Batches /\ b # None
  /\ n \in Nat /\ n < BatchSize /\ n <= Len(store[b]) /\ n <= size[id]
  /\ n > 0 => b = batch[id]
  /\ \A jd \in Ids : jd # id => batch[jd] # b
  /\ list \in Seq(Batches)
  /\ list # <<>> => list[Len(list)] = free[Len(free)]
  /\ \A i, k \in DOMAIN list : list[i] = list[k] => i = k
  /\ \A i \in DOMAIN list : list[i] # b
  /\ \A c \in Batches : (\E i \in DOMAIN list : list[i] = c) <=> listed(c) /\ c # b

LEMMA WrittenBatch ==
  ASSUME PipelinesKnown, BatchesPlaced, NEW event, NEW mode, ~Refused(event.id, mode),
         NEW b, b = IF batch[event.id] = None THEN allocateEventBatch ELSE batch[event.id],
         NEW n, n = IF batch[event.id] = None THEN 0 ELSE kept(event.id, mode),
         NEW list, list = IF batch[event.id] = None THEN Tail(free) ELSE free
  PROVE  Placeable(event.id, b, n, list)
<1>1. PICK id : id = event.id
  OBVIOUS
<1>2. id \in Ids
  <2>1. registered(id)
    BY <1>1 DEF Refused
  <2> QED BY <2>1, ElementOfSeq DEF PipelinesKnown, registered, Contains
<1>3. size[id] \in 0 .. BatchSize /\ BatchSize \in Nat \ {0}
  BY <1>2, BatchSizeAssumption DEF BatchesPlaced
<1>4. free \in Seq(Batches) /\ Len(free) \in Nat /\ DOMAIN free = 1 .. Len(free)
  BY LenProperties DEF BatchesPlaced
<1>5. \A c \in Batches : c # None /\ c \in Nat
  BY NoneAssumption DEF Batches
<1>6. CASE batch[id] = None
  <2>1. free # <<>> /\ Len(free) >= 1
    BY <1>1, <1>4, <1>6, EmptySeq DEF Refused
  <2>2. b = free[1] /\ n = 0 /\ list = Tail(free)
    BY <1>1, <1>4, <1>6 DEF allocateEventBatch
  <2>3. /\ list \in Seq(Batches) /\ Len(list) = Len(free) - 1
        /\ DOMAIN list = 1 .. Len(free) - 1
        /\ \A i \in DOMAIN list : list[i] = free[i + 1] /\ i + 1 \in DOMAIN free
    <3>1. free # <<>>
      BY <2>1
    <3>2. /\ Tail(free) \in Seq(Batches) /\ Len(Tail(free)) = Len(free) - 1
          /\ DOMAIN Tail(free) = 1 .. Len(free) - 1
          /\ \A i \in DOMAIN Tail(free) : Tail(free)[i] = free[i + 1] /\ i + 1 \in DOMAIN free
      BY <1>4, <3>1, TailOf
    <3> QED BY <2>2, <3>2
  <2>a. PICK N \in Nat : N = Len(free) /\ N >= 1
    BY <1>4, <2>1
  <2>b. DOMAIN free = 1 .. N /\ Len(list) = N - 1 /\ DOMAIN list = 1 .. N - 1
    BY <1>4, <2>3, <2>a
  <2>c. \A i \in 1 .. N - 1 : i \in Nat \ {0} /\ i + 1 \in 1 .. N
    BY <2>a
  <2>5. ASSUME list # <<>>
        PROVE  list[Len(list)] = free[Len(free)]
    <3>1. N # 1
      <4>1. Len(list) \in Nat /\ Len(list) # 0
        BY <2>3, <2>5, LenProperties, EmptySeq
      <4> QED BY <2>a, <2>b, <4>1
    <3>2. Len(list) \in DOMAIN list /\ Len(list) + 1 = Len(free)
      BY <2>a, <2>b, <3>1
    <3> QED BY <2>3, <3>2
  <2>6. b \in Batches /\ listed(b)
    BY <1>4, <2>1, <2>2, ElementOfSeq DEF listed
  <2>7. \A i \in DOMAIN list : list[i] # b
    <3> SUFFICES ASSUME NEW i \in DOMAIN list, list[i] = b
                 PROVE  FALSE
      OBVIOUS
    <3>1. 1 \in DOMAIN free /\ i + 1 \in DOMAIN free /\ free[i + 1] = free[1] /\ i \in Nat \ {0}
      BY <2>2, <2>3, <2>a, <2>b, <2>c
    <3>2. i + 1 = 1
      BY <3>1 DEF BatchesPlaced
    <3> QED BY <3>1, <3>2
  <2>8. \A i, k \in DOMAIN list : list[i] = list[k] => i = k
    <3> SUFFICES ASSUME NEW i \in DOMAIN list, NEW k \in DOMAIN list, list[i] = list[k]
                 PROVE  i = k
      OBVIOUS
    <3>1. i + 1 \in DOMAIN free /\ k + 1 \in DOMAIN free /\ free[i + 1] = free[k + 1]
          /\ i \in Nat /\ k \in Nat
      BY <2>3, <2>b, <2>c
    <3>2. i + 1 = k + 1
      BY <3>1 DEF BatchesPlaced
    <3> QED BY <3>1, <3>2
  <2>9. \A c \in Batches : (\E i \in DOMAIN list : list[i] = c) <=> listed(c) /\ c # b
    <3> SUFFICES ASSUME NEW c \in Batches
                 PROVE  (\E i \in DOMAIN list : list[i] = c) <=> listed(c) /\ c # b
      OBVIOUS
    <3>1. ASSUME NEW i \in DOMAIN list, list[i] = c
          PROVE  listed(c) /\ c # b
      BY <2>3, <2>7, <3>1 DEF listed
    <3>2. ASSUME listed(c), c # b
          PROVE  \E i \in DOMAIN list : list[i] = c
      <4>1. PICK k \in DOMAIN free : free[k] = c
        BY <3>2 DEF listed
      <4>2. k # 1
        BY <2>2, <3>2, <4>1
      <4>3. k - 1 \in DOMAIN list /\ (k - 1) + 1 = k
        BY <2>a, <2>b, <4>1, <4>2
      <4> QED BY <2>3, <4>1, <4>3
    <3> QED BY <3>1, <3>2
  <2>10. store[b] = <<>>
    BY <2>6 DEF BatchesPlaced
  <2>11. \A jd \in Ids : jd # id => batch[jd] # b
    BY <1>5, <2>6 DEF BatchesPlaced
  <2>12. n \in Nat /\ n < BatchSize /\ n <= Len(store[b]) /\ n <= size[id]
    BY <1>3, <2>2, <2>10, EmptySeq
  <2>13. id \in Ids /\ b # None /\ ~(n > 0)
    BY <1>2, <1>5, <2>2, <2>6
  <2>14. Placeable(id, b, n, list)
    BY <2>3, <2>5, <2>6, <2>7, <2>8, <2>9, <2>11, <2>12, <2>13 DEF Placeable
  <2> QED BY <1>1, <2>14
<1>7. CASE batch[id] # None
  <2>1. b = batch[id] /\ n = kept(id, mode) /\ list = free /\ b \in Batches /\ b # None
    BY <1>1, <1>2, <1>5, <1>7 DEF BatchesPlaced
  <2>2. size[id] # 0 /\ Len(store[b]) = size[id] /\ ~listed(b)
    BY <1>2, <1>7, <2>1 DEF BatchesPlaced
  <2>3. n < BatchSize
    <3>1. ~(n >= BatchSize)
      BY <1>1, <1>7, <2>1 DEF Refused
    <3>2. n \in Int
      BY <1>3, <2>1 DEF kept
    <3> QED BY <1>3, <3>1, <3>2
  <2>4. n \in Nat /\ n <= size[id]
    BY <1>3, <2>1, <2>2 DEF kept
  <2>5. \A jd \in Ids : jd # id => batch[jd] # b
    BY <1>2, <2>1 DEF BatchesPlaced
  <2>6. \A c \in Batches : (\E i \in DOMAIN list : list[i] = c) <=> listed(c) /\ c # b
    BY <2>1, <2>2 DEF listed
  <2>7. \A i \in DOMAIN list : list[i] # b
    BY <2>1, <2>2 DEF listed
  <2>8. list \in Seq(Batches) /\ list[Len(list)] = free[Len(free)]
        /\ \A i, k \in DOMAIN list : list[i] = list[k] => i = k
    BY <2>1 DEF BatchesPlaced
  <2> QED BY <1>1, <1>2, <2>1, <2>2, <2>3, <2>4, <2>5, <2>6, <2>7, <2>8 DEF Placeable
<1> QED BY <1>6, <1>7

\* An event that is written comes right after those of its pipeline that stay.
LEMMA WriteKeeps ==
  ASSUME PipelinesKnown, BatchesPlaced, BufferKept, NumbersKept, NEW event, NEW mode,
         ~Refused(event.id, mode), writeEvent(event, mode),
         pipelines' = pipelines, buffer' = buffer, handed' = handed
  PROVE  PipelinesKnown' /\ BatchesPlaced' /\ BufferKept' /\ NumbersKept'
<1>1. PICK id : id = event.id
  OBVIOUS
<1>2. PICK b : b = IF batch[event.id] = None THEN allocateEventBatch ELSE batch[event.id]
  OBVIOUS
<1>3. PICK n : n = IF batch[event.id] = None THEN 0 ELSE kept(event.id, mode)
  OBVIOUS
<1>4. PICK list : list = IF batch[event.id] = None THEN Tail(free) ELSE free
  OBVIOUS
<1>5. PICK number : number = written[id] - size[id] + n + 1
  OBVIOUS
<1>6. /\ id \in Ids /\ b \in Batches /\ b # None
      /\ n \in Nat /\ n < BatchSize /\ n <= Len(store[b]) /\ n <= size[id]
      /\ n > 0 => b = batch[id]
      /\ \A jd \in Ids : jd # id => batch[jd] # b
      /\ list \in Seq(Batches)
      /\ list # <<>> => list[Len(list)] = free[Len(free)]
      /\ \A i, k \in DOMAIN list : list[i] = list[k] => i = k
      /\ \A i \in DOMAIN list : list[i] # b
      /\ \A c \in Batches : (\E i \in DOMAIN list : list[i] = c) <=> listed(c) /\ c # b
  <2>1. Placeable(event.id, b, n, list)
    BY <1>2, <1>3, <1>4, WrittenBatch
  <2> QED BY <1>1, <2>1 DEF Placeable
<1>7. PICK e : e = Numbered(event, number)
  OBVIOUS
<1>8. /\ batch' = [batch EXCEPT ![id] = b]
      /\ free' = list
      /\ store' = [store EXCEPT ![b] = Append(SubSeq(store[b], 1, n), e)]
      /\ size' = [size EXCEPT ![id] = n + 1]
      /\ written' = [written EXCEPT ![id] = number]
      /\ exhausted' = (exhausted \/ list = <<>>)
      /\ overlaid' = (b = 0 /\ \E i \in DOMAIN list : eventUnder(list[i]) = n + 1)
  <2>1. LET jd == event.id
            c == IF batch[jd] = None THEN allocateEventBatch ELSE batch[jd]
            m == IF batch[jd] = None THEN 0 ELSE kept(jd, mode)
            nr == written[jd] - size[jd] + m + 1
        IN /\ batch' = [batch EXCEPT ![jd] = c]
           /\ free' = IF batch[jd] = None THEN Tail(free) ELSE free
           /\ store' = [store EXCEPT ![c] = Append(SubSeq(store[c], 1, m), Numbered(event, nr))]
           /\ size' = [size EXCEPT ![jd] = m + 1]
           /\ written' = [written EXCEPT ![jd] = nr]
           /\ exhausted' = (exhausted \/ free' = <<>>)
           /\ overlaid' = (c = 0 /\ \E i \in DOMAIN free' : eventUnder(free'[i]) = m + 1)
    BY DEF writeEvent
  <2> QED BY <1>1, <1>2, <1>3, <1>4, <1>5, <1>7, <2>1
<1>9. /\ batch \in [Ids -> Batches \cup {None}] /\ size \in [Ids -> 0 .. BatchSize]
      /\ DOMAIN store = Batches /\ store[b] \in Seq(Range(store[b]))
  BY <1>6 DEF BatchesPlaced
<1>10. written \in [Ids -> Nat] /\ BatchSize \in Nat /\ size[id] \in Nat /\ written[id] \in Nat
  BY <1>6, <1>9, BatchSizeAssumption DEF NumbersKept
<1>11. PICK q : q = Append(SubSeq(store[b], 1, n), e)
  OBVIOUS
<1>12. /\ q \in Seq(Range(q)) /\ Len(q) = n + 1
       /\ \A i \in 1 .. n : q[i] = store[b][i]
       /\ q[n + 1] = e
  <2>1. n \in Nat /\ n <= Len(store[b])
    BY <1>6
  <2>2. store[b] \in Seq(Range(store[b]))
    BY <1>9
  <2>3. PICK s : s = store[b]
    OBVIOUS
  <2>4. s \in Seq(Range(s)) /\ n <= Len(s) /\ q = Append(SubSeq(s, 1, n), e)
    BY <1>11, <2>1, <2>2, <2>3
  <2>5. Extends(q, s, n, e)
    BY <2>1, <2>4, PrefixAppended
  <2> QED BY <2>3, <2>5 DEF Extends
<1>13. /\ store'[b] = q /\ DOMAIN store' = Batches
       /\ \A c \in Batches : c # b => store'[c] = store[c]
  BY <1>6, <1>8, <1>9, <1>11
<1>14. /\ batch'[id] = b /\ size'[id] = n + 1 /\ written'[id] = number
       /\ \A jd \in Ids : jd # id =>
            batch'[jd] = batch[jd] /\ size'[jd] = size[jd] /\ written'[jd] = written[jd]
  BY <1>6, <1>8, <1>9, <1>10
<1>15. e.number = number
  BY <1>7 DEF Numbered
<1>16. size[id] <= written[id]
  <2>1. CASE Collected(id) = {}
    <3>1. written[id] = handed[id] + size[id] /\ handed[id] \in Nat
      BY <1>6, <2>1 DEF NumbersKept
    <3> QED BY <1>10, <3>1
  <2>2. CASE Collected(id) # {}
    <3>1. PICK k \in Collected(id) : TRUE
      BY <2>2
    <3>2. written[id] = handed[id] + Len(buffer[k].events) + size[id] /\ handed[id] \in Nat
      BY <1>6, <3>1 DEF NumbersKept
    <3>3. Len(buffer[k].events) \in Nat
      BY <3>1, LenProperties DEF BufferKept, Collected
    <3> QED BY <1>10, <3>2, <3>3
  <2> QED BY <2>1, <2>2
<1>17. number \in Nat
  BY <1>5, <1>6, <1>10, <1>16
<1>18. PipelinesKnown'
  <2>1. \A jd \in Ids : size'[jd] > 0 => registered(jd)
    <3>1. registered(id)
      BY <1>1 DEF Refused
    <3> QED BY <1>14, <3>1 DEF PipelinesKnown
  <2> QED BY <2>1 DEF PipelinesKnown, registered
<1>19. \A c \in Batches : listed(c)' <=> listed(c) /\ c # b
  BY <1>6, <1>8 DEF listed
<1>20. BatchesPlaced'
  <2>1. batch' \in [Ids -> Batches \cup {None}] /\ size' \in [Ids -> 0 .. BatchSize]
    BY <1>6, <1>8, <1>9, <1>10
  <2>2. \A c \in Batches : store'[c] \in Seq(Range(store'[c]))
    BY <1>12, <1>13 DEF BatchesPlaced
  <2>3. \A jd \in Ids : batch'[jd] = None <=> size'[jd] = 0
    <3> SUFFICES ASSUME NEW jd \in Ids
                 PROVE  batch'[jd] = None <=> size'[jd] = 0
      OBVIOUS
    <3>1. n + 1 # 0 /\ b # None
      BY <1>6
    <3>2. CASE jd = id
      BY <1>14, <3>1, <3>2
    <3>3. CASE jd # id
      BY <1>14, <3>3 DEF BatchesPlaced
    <3> QED BY <3>2, <3>3
  <2>4. \A jd, kd \in Ids : batch'[jd] = batch'[kd] /\ batch'[jd] # None => jd = kd
    <3> SUFFICES ASSUME NEW jd \in Ids, NEW kd \in Ids, batch'[jd] = batch'[kd], batch'[jd] # None
                 PROVE  jd = kd
      OBVIOUS
    <3>1. CASE jd = id \/ kd = id
      BY <1>6, <1>14, <3>1
    <3>2. CASE jd # id /\ kd # id
      <4>1. batch[jd] = batch[kd] /\ batch[jd] # None
        BY <1>14, <3>2
      <4> QED BY <4>1 DEF BatchesPlaced
    <3> QED BY <3>1, <3>2
  <2>5. \A jd \in Ids : batch'[jd] # None => Len(store'[batch'[jd]]) = size'[jd]
    <3> SUFFICES ASSUME NEW jd \in Ids, batch'[jd] # None
                 PROVE  Len(store'[batch'[jd]]) = size'[jd]
      OBVIOUS
    <3>1. CASE jd = id
      BY <1>12, <1>13, <1>14, <3>1
    <3>2. CASE jd # id
      <4>1. batch'[jd] = batch[jd] /\ size'[jd] = size[jd] /\ batch[jd] # b /\ batch[jd] \in Batches
        <5>1. batch'[jd] = batch[jd] /\ size'[jd] = size[jd]
          BY <1>14, <3>2
        <5>2. batch[jd] # b
          BY <1>6, <3>2
        <5> QED BY <1>9, <5>1, <5>2
      <4>2. Len(store[batch[jd]]) = size[jd]
        BY <4>1 DEF BatchesPlaced
      <4> QED BY <1>13, <4>1, <4>2
    <3> QED BY <3>1, <3>2
  <2>6. \A c \in Batches : listed(c)' => store'[c] = <<>> /\ \A jd \in Ids : batch'[jd] # c
    <3> SUFFICES ASSUME NEW c \in Batches, listed(c)'
                 PROVE  store'[c] = <<>> /\ \A jd \in Ids : batch'[jd] # c
      OBVIOUS
    <3>1. listed(c) /\ c # b
      BY <1>19
    <3>2. store[c] = <<>> /\ \A jd \in Ids : batch[jd] # c
      BY <3>1 DEF BatchesPlaced
    <3>3. store'[c] = <<>>
      BY <1>13, <3>1, <3>2
    <3>4. \A jd \in Ids : batch'[jd] # c
      BY <1>14, <3>1, <3>2
    <3> QED BY <3>3, <3>4
  <2>7. \A c \in Batches : listed(c)' \/ \E jd \in Ids : batch'[jd] = c
    <3> SUFFICES ASSUME NEW c \in Batches, ~listed(c)'
                 PROVE  \E jd \in Ids : batch'[jd] = c
      OBVIOUS
    <3>1. CASE c = b
      BY <1>6, <1>14, <3>1
    <3>2. CASE c # b
      <4>1. PICK jd \in Ids : batch[jd] = c
        BY <1>19, <3>2 DEF BatchesPlaced
      <4>2. CASE jd # id
        BY <1>14, <4>1, <4>2
      <4>3. CASE jd = id
        <5>1. batch[id] # None
          BY <4>1, <4>3, NoneAssumption DEF Batches
        <5> QED BY <1>1, <1>2, <3>2, <4>1, <4>3, <5>1
      <4> QED BY <4>2, <4>3
    <3> QED BY <3>1, <3>2
  <2>8. free' \in Seq(Batches) /\ (\A i, k \in DOMAIN free' : free'[i] = free'[k] => i = k)
    BY <1>6, <1>8
  <2>9. exhausted' \in BOOLEAN /\ overlaid' \in BOOLEAN
    BY <1>8 DEF BatchesPlaced
  <2>10. ASSUME ~exhausted'
         PROVE  free' # <<>> /\ free'[Len(free')] = 0 /\ ~overlaid'
    <3>1. list # <<>> /\ list[Len(list)] = 0
      BY <1>6, <1>8, <2>10 DEF BatchesPlaced
    <3>2. Len(list) \in DOMAIN list
      BY <1>6, <3>1, TailOf
    <3>3. b # 0
      BY <1>6, <3>1, <3>2
    <3> QED BY <1>8, <3>1, <3>3
  <2> HIDE DEF listed
  <2> QED BY <1>13, <2>1, <2>2, <2>3, <2>4, <2>5, <2>6, <2>7, <2>8, <2>9, <2>10 DEF BatchesPlaced
<1>21. BufferKept'
  BY DEF BufferKept
<1>22. NumbersKept'
  <2>1. written' \in [Ids -> Nat] /\ handed' \in [Ids -> Nat]
    BY <1>8, <1>10, <1>17 DEF NumbersKept
  <2>2. \A jd \in Ids : batch'[jd] # None => \A i \in 1 .. size'[jd] :
            store'[batch'[jd]][i].number = written'[jd] - size'[jd] + i
    <3> SUFFICES ASSUME NEW jd \in Ids, batch'[jd] # None, NEW i \in 1 .. size'[jd]
                 PROVE  store'[batch'[jd]][i].number = written'[jd] - size'[jd] + i
      OBVIOUS
    <3>1. CASE jd # id
      <4>1. batch'[jd] = batch[jd] /\ size'[jd] = size[jd] /\ written'[jd] = written[jd]
            /\ batch[jd] \in Batches /\ batch[jd] # b
        BY <1>6, <1>9, <1>14, <3>1
      <4>2. store[batch[jd]][i].number = written[jd] - size[jd] + i
        BY <4>1 DEF NumbersKept
      <4> QED BY <1>13, <4>1, <4>2
    <3>2. CASE jd = id /\ i = n + 1
      <4>1. store'[batch'[jd]][i].number = number
        BY <1>12, <1>13, <1>14, <1>15, <3>2
      <4>2. written'[jd] - size'[jd] + i = number
        BY <1>6, <1>14, <1>17, <3>2
      <4> QED BY <4>1, <4>2
    <3>3. CASE jd = id /\ i # n + 1
      <4>1. i \in 1 .. n /\ n > 0 /\ i \in 1 .. size[id]
        BY <1>6, <1>10, <1>14, <3>3
      <4>2. batch[id] = b /\ batch[id] # None
        BY <1>6, <4>1
      <4>3. store'[batch'[jd]][i] = store[batch[id]][i]
        BY <1>12, <1>13, <1>14, <3>3, <4>1, <4>2
      <4>4. store[batch[id]][i].number = written[id] - size[id] + i
        BY <1>6, <4>1, <4>2 DEF NumbersKept
      <4>5. written'[jd] - size'[jd] + i = written[id] - size[id] + i
        BY <1>5, <1>6, <1>10, <1>14, <3>3, <4>1
      <4> QED BY <4>3, <4>4, <4>5
    <3> QED BY <3>1, <3>2, <3>3
  <2>3. ASSUME NEW jd \in Ids
        PROVE  written'[jd] - size'[jd] = written[jd] - size[jd]
    <3>1. CASE jd = id
      BY <1>5, <1>6, <1>10, <1>14, <3>1
    <3>2. CASE jd # id
      BY <1>14, <3>2
    <3> QED BY <3>1, <3>2
  <2>4. \A jd \in Ids : Collected(jd)' = Collected(jd)
    BY DEF Collected
  <2>5. \A jd \in Ids : size'[jd] \in Nat /\ size[jd] \in Nat /\ written[jd] \in Nat /\ written'[jd] \in Nat
                        /\ handed[jd] \in Nat
    BY <1>9, <1>20, <2>1, BatchSizeAssumption DEF NumbersKept, BatchesPlaced
  <2>6. \A jd \in Ids : Collected(jd)' = {} => written'[jd] = handed'[jd] + size'[jd]
    <3> SUFFICES ASSUME NEW jd \in Ids, Collected(jd)' = {}
                 PROVE  written'[jd] = handed'[jd] + size'[jd]
      OBVIOUS
    <3>1. written[jd] = handed[jd] + size[jd]
      BY <2>4 DEF NumbersKept
    <3> QED BY <2>3, <2>5, <3>1
  <2>7. \A jd \in Ids : \A k \in Collected(jd)' :
            written'[jd] = handed'[jd] + Len(buffer'[k].events) + size'[jd]
    <3> SUFFICES ASSUME NEW jd \in Ids, NEW k \in Collected(jd)
                 PROVE  written'[jd] = handed'[jd] + Len(buffer'[k].events) + size'[jd]
      BY <2>4
    <3>1. written[jd] = handed[jd] + Len(buffer[k].events) + size[jd]
      BY DEF NumbersKept
    <3>2. PICK l : l = Len(buffer[k].events)
      OBVIOUS
    <3>3. l \in Nat
      BY <3>2, LenProperties DEF BufferKept, Collected
    <3>4. written[jd] = handed[jd] + l + size[jd]
      BY <3>1, <3>2
    <3>5. written'[jd] = handed[jd] + l + size'[jd]
      BY <2>3, <2>5, <3>3, <3>4
    <3> QED BY <3>2, <3>5
  <2> QED BY <2>1, <2>2, <2>6, <2>7 DEF NumbersKept
<1> QED BY <1>18, <1>20, <1>21, <1>22

----------------------------------------------------------------------------
(* Registering, and calling the stages *)

dataVars == <<pipelines, batch, size, store, free, exhausted, overlaid, buffer, written, handed>>

LEMMA DataSame ==
  ASSUME DataInv, UNCHANGED dataVars
  PROVE  DataInv'
<1>1. PipelinesKnown'
  BY DEF DataInv, dataVars, PipelinesKnown, registered
<1>2. BatchesPlaced'
  BY DEF DataInv, dataVars, BatchesPlaced, listed
<1>3. BufferKept'
  BY DEF DataInv, dataVars, BufferKept
<1>4. NumbersKept'
  BY DEF DataInv, dataVars, NumbersKept, Collected
<1> QED BY <1>1, <1>2, <1>3, <1>4 DEF DataInv

\* A registration adds the id if there is no pipeline of it.
LEMMA RegisteringKeeps ==
  ASSUME DataInv, NEW id \in Ids, pipelines' = Registered(id),
         UNCHANGED <<batch, size, store, free, exhausted, overlaid, buffer, written, handed>>
  PROVE  DataInv'
<1>1. pipelines \in Seq(Ids) /\ Len(pipelines) \in Nat /\ DOMAIN pipelines = 1 .. Len(pipelines)
  BY LenProperties DEF DataInv, PipelinesKnown
<1>2. CASE registered(id)
  BY <1>2, DataSame DEF Registered, dataVars
<1>3. CASE ~registered(id)
  <2>1. pipelines' = Append(pipelines, id)
    BY <1>3 DEF Registered
  <2>2. /\ pipelines' \in Seq(Ids) /\ Len(pipelines') = Len(pipelines) + 1
        /\ \A i \in 1 .. Len(pipelines) : pipelines'[i] = pipelines[i]
        /\ pipelines'[Len(pipelines) + 1] = id
    BY <1>1, <2>1, AppendProperties
  <2>3. PICK N \in Nat : N = Len(pipelines)
    BY <1>1
  <2>4. DOMAIN pipelines' = 1 .. N + 1 /\ Len(pipelines') = N + 1
    BY <2>2, <2>3, LenProperties
  <2>5. \A i \in 1 .. N : pipelines'[i] = pipelines[i] /\ pipelines[i] # id
    BY <1>1, <1>3, <2>2, <2>3 DEF registered, Contains
  <2>6. pipelines'[N + 1] = id
    BY <2>2, <2>3
  <2>7. \A i, k \in DOMAIN pipelines' : pipelines'[i] = pipelines'[k] => i = k
    <3> SUFFICES ASSUME NEW i \in 1 .. N + 1, NEW k \in 1 .. N + 1, pipelines'[i] = pipelines'[k]
                 PROVE  i = k
      BY <2>4
    <3>1. (i = N + 1 \/ i \in 1 .. N) /\ (k = N + 1 \/ k \in 1 .. N)
      BY <2>3
    <3>2. CASE i \in 1 .. N /\ k \in 1 .. N
      <4>1. pipelines[i] = pipelines[k] /\ i \in DOMAIN pipelines /\ k \in DOMAIN pipelines
        BY <1>1, <2>3, <2>5, <3>2
      <4> QED BY <4>1 DEF DataInv, PipelinesKnown
    <3> QED BY <2>5, <2>6, <3>1, <3>2
  <2>8. \A jd \in Ids : size'[jd] > 0 => registered(jd)'
    <3> SUFFICES ASSUME NEW jd \in Ids, size[jd] > 0
                 PROVE  registered(jd)'
      OBVIOUS
    <3>1. PICK i \in 1 .. N : pipelines[i] = jd
      BY <2>3 DEF DataInv, PipelinesKnown, registered, Contains
    <3>2. i \in 1 .. N + 1 /\ pipelines'[i] = jd
      BY <2>3, <2>5, <3>1
    <3> QED BY <2>4, <3>2 DEF registered, Contains
  <2>9. PipelinesKnown'
    BY <2>2, <2>7, <2>8 DEF PipelinesKnown
  <2>10. BatchesPlaced'
    BY DEF DataInv, BatchesPlaced, listed
  <2>11. BufferKept'
    BY DEF DataInv, BufferKept
  <2>12. NumbersKept'
    BY DEF DataInv, NumbersKept, Collected
  <2> QED BY <2>9, <2>10, <2>11, <2>12 DEF DataInv
<1> QED BY <1>2, <1>3

\* The first of the buffer is handed over and is not fresh any more, or is gone.
PassedOn ==
  /\ buffer # <<>> /\ HandOver
  /\ \/ buffer' = Tail(buffer)
     \/ /\ DOMAIN buffer' = DOMAIN buffer /\ buffer' \in Seq(Range(buffer'))
        /\ \A k \in DOMAIN buffer : k # 1 => buffer'[k] = buffer[k]
        /\ buffer'[1].id = buffer[1].id /\ buffer'[1].fresh = FALSE

\* What is left of the buffer after that is what was there, but for the first.
Behind(k, l) == k \in DOMAIN buffer /\ k # 1 /\ buffer'[l] = buffer[k]

LEMMA LeftBehind ==
  ASSUME BufferKept, PassedOn
  PROVE  /\ current = buffer[1] /\ 1 \in DOMAIN buffer
         /\ buffer' \in Seq(Range(buffer'))
         /\ \A l \in DOMAIN buffer' : buffer'[l].fresh => \E k \in DOMAIN buffer : Behind(k, l)
         /\ \A l \in DOMAIN buffer' : buffer'[l].id \in Ids
         /\ \A l, m \in DOMAIN buffer' : buffer'[l].id = buffer'[m].id => l = m
         /\ \A k \in DOMAIN buffer : k # 1 => \E l \in DOMAIN buffer' : Behind(k, l)
<1>1. /\ buffer \in Seq(Range(buffer)) /\ Len(buffer) \in Nat \ {0} /\ DOMAIN buffer = 1 .. Len(buffer)
  BY TailOf DEF BufferKept, PassedOn
<1>2. current = buffer[1] /\ 1 \in DOMAIN buffer
  BY <1>1 DEF current
<1>3. CASE buffer' = Tail(buffer)
  <2>1. /\ buffer' \in Seq(Range(buffer)) /\ DOMAIN buffer' = 1 .. Len(buffer) - 1
        /\ \A i \in DOMAIN buffer' : buffer'[i] = buffer[i + 1] /\ i + 1 \in DOMAIN buffer
    BY <1>1, <1>3, TailOf DEF PassedOn
  <2>2. buffer' \in Seq(Range(buffer'))
    BY <2>1, SeqOfItsRange
  <2>3. PICK N \in Nat \ {0} : N = Len(buffer)
    BY <1>1
  <2>4. \A l \in DOMAIN buffer' : l \in Nat \ {0} /\ l + 1 # 1
    BY <2>1, <2>3
  <2>5. \A l \in DOMAIN buffer' : Behind(l + 1, l)
    BY <2>1, <2>4 DEF Behind
  <2>6. \A k \in DOMAIN buffer : k # 1 => k - 1 \in DOMAIN buffer' /\ (k - 1) + 1 = k
    BY <1>1, <2>1, <2>3
  <2>7. \A k \in DOMAIN buffer : k # 1 => Behind(k, k - 1)
    BY <2>5, <2>6
  <2>8. \A l \in DOMAIN buffer' : buffer'[l].id \in Ids
    BY <2>1 DEF BufferKept
  <2>9. \A l, m \in DOMAIN buffer' : buffer'[l].id = buffer'[m].id => l = m
    <3> SUFFICES ASSUME NEW l \in DOMAIN buffer', NEW m \in DOMAIN buffer', buffer'[l].id = buffer'[m].id
                 PROVE  l = m
      OBVIOUS
    <3>1. l + 1 = m + 1
      BY <2>1 DEF BufferKept
    <3> QED BY <2>4, <3>1
  <2> QED BY <1>2, <2>1, <2>2, <2>5, <2>6, <2>7, <2>8, <2>9
<1>4. CASE buffer' # Tail(buffer)
  <2>1. /\ DOMAIN buffer' = DOMAIN buffer /\ buffer' \in Seq(Range(buffer'))
        /\ \A k \in DOMAIN buffer : k # 1 => buffer'[k] = buffer[k]
        /\ buffer'[1].id = buffer[1].id /\ buffer'[1].fresh = FALSE
    BY <1>4 DEF PassedOn
  <2>2. \A k \in DOMAIN buffer : k # 1 => Behind(k, k)
    BY <2>1 DEF Behind
  <2>3. \A k \in DOMAIN buffer : buffer'[k].id = buffer[k].id
    BY <2>1
  <2>4. \A l \in DOMAIN buffer' : buffer'[l].fresh => \E k \in DOMAIN buffer : Behind(k, l)
    BY <2>1, <2>2
  <2>5. \A k \in DOMAIN buffer : k # 1 => \E l \in DOMAIN buffer' : Behind(k, l)
    BY <2>1, <2>2
  <2> QED BY <1>2, <2>1, <2>3, <2>4, <2>5 DEF BufferKept
<1> QED BY <1>3, <1>4

\* A stage is called, or the stages are through: the events of the first batch
\* of the buffer are handed over.
LEMMA PassedOnKeeps ==
  ASSUME DataInv, PassedOn, UNCHANGED <<pipelines, batch, size, store, free, exhausted, overlaid, written>>
  PROVE  DataInv'
<1>1. /\ current = buffer[1] /\ 1 \in DOMAIN buffer
      /\ buffer' \in Seq(Range(buffer'))
      /\ \A l \in DOMAIN buffer' : buffer'[l].fresh => \E k \in DOMAIN buffer : Behind(k, l)
      /\ \A l \in DOMAIN buffer' : buffer'[l].id \in Ids
      /\ \A l, m \in DOMAIN buffer' : buffer'[l].id = buffer'[m].id => l = m
      /\ \A k \in DOMAIN buffer : k # 1 => \E l \in DOMAIN buffer' : Behind(k, l)
  BY LeftBehind DEF DataInv
<1>2. PICK id : id = buffer[1].id
  OBVIOUS
<1>3. id \in Ids /\ \A k \in DOMAIN buffer : k # 1 => buffer[k].id # id
  BY <1>1, <1>2 DEF DataInv, BufferKept
<1>4. \A jd \in Ids : jd # id => handed'[jd] = handed[jd]
  BY <1>1, <1>2 DEF PassedOn, HandOver, DataInv, NumbersKept
<1>5. BufferKept'
  <2>1. ASSUME NEW l \in DOMAIN buffer', buffer'[l].fresh
        PROVE  /\ buffer'[l].events \in Seq(Range(buffer'[l].events)) /\ buffer'[l].events # <<>>
               /\ \A i \in DOMAIN buffer'[l].events :
                    buffer'[l].events[i].number = handed'[buffer'[l].id] + i
    <3>1. PICK k \in DOMAIN buffer : Behind(k, l)
      BY <1>1, <2>1
    <3>2. k # 1 /\ buffer'[l] = buffer[k]
      BY <3>1 DEF Behind
    <3>3. buffer[k].fresh /\ buffer[k].id \in Ids /\ handed'[buffer[k].id] = handed[buffer[k].id]
      BY <1>1, <1>3, <1>4, <2>1, <3>2 DEF DataInv, BufferKept
    <3> QED BY <3>2, <3>3 DEF DataInv, BufferKept
  <2> QED BY <1>1, <2>1 DEF BufferKept
<1>6. /\ written \in [Ids -> Nat] /\ handed \in [Ids -> Nat] /\ size \in [Ids -> 0 .. BatchSize]
      /\ BatchSize \in Nat
  BY BatchSizeAssumption DEF DataInv, NumbersKept, BatchesPlaced
<1>7. CASE ~buffer[1].fresh
  <2>1. handed' = handed
    BY <1>1, <1>7 DEF PassedOn, HandOver
  <2>2. ASSUME NEW jd \in Ids, Collected(jd)' = {}
        PROVE  Collected(jd) = {}
    <3> SUFFICES ASSUME NEW k \in DOMAIN buffer, buffer[k].id = jd, buffer[k].fresh
                 PROVE  FALSE
      BY DEF Collected
    <3>1. k # 1
      BY <1>7
    <3>2. PICK l \in DOMAIN buffer' : Behind(k, l)
      BY <1>1, <3>1
    <3> QED BY <2>2, <3>2 DEF Behind, Collected
  <2>3. ASSUME NEW jd \in Ids, NEW l \in Collected(jd)'
        PROVE  written[jd] = handed[jd] + Len(buffer'[l].events) + size[jd]
    <3>1. l \in DOMAIN buffer' /\ buffer'[l].fresh /\ buffer'[l].id = jd
      BY <2>3 DEF Collected
    <3>2. PICK k \in DOMAIN buffer : Behind(k, l)
      BY <1>1, <3>1
    <3>3. buffer'[l] = buffer[k] /\ k \in Collected(jd)
      BY <3>1, <3>2 DEF Behind, Collected
    <3>4. written[jd] = handed[jd] + Len(buffer[k].events) + size[jd]
      BY <3>3 DEF DataInv, NumbersKept
    <3> QED BY <3>3, <3>4
  <2>4. NumbersKept'
    BY <2>1, <2>2, <2>3 DEF DataInv, NumbersKept
  <2>5. PipelinesKnown' /\ BatchesPlaced'
    BY DEF DataInv, PipelinesKnown, BatchesPlaced, registered, listed
  <2> QED BY <1>5, <2>4, <2>5 DEF DataInv
<1>8. CASE buffer[1].fresh
  <2>1. PICK e : e = buffer[1].events
    OBVIOUS
  <2>2. e \in Seq(Range(e)) /\ e # <<>> /\ \A i \in DOMAIN e : e[i].number = handed[id] + i
    BY <1>1, <1>2, <1>8, <2>1 DEF DataInv, BufferKept
  <2>3. PICK N \in Nat \ {0} : N = Len(e) /\ DOMAIN e = 1 .. N
    BY <2>2, TailOf
  <2>4. e[N].number = handed[id] + N
    BY <2>2, <2>3
  <2>5. handed' = [handed EXCEPT ![id] = e[N].number]
    BY <1>1, <1>2, <1>8, <2>1, <2>3 DEF PassedOn, HandOver
  <2>6. handed'[id] = handed[id] + N /\ handed' \in [Ids -> Nat]
    BY <1>3, <1>6, <2>4, <2>5
  <2>7. written[id] = handed[id] + N + size[id]
    <3>1. 1 \in Collected(id)
      BY <1>1, <1>2, <1>8 DEF Collected
    <3> QED BY <1>3, <2>1, <2>3, <3>1 DEF DataInv, NumbersKept
  <2>8. Collected(id)' = {}
    <3> SUFFICES ASSUME NEW l \in DOMAIN buffer', buffer'[l].id = id, buffer'[l].fresh
                 PROVE  FALSE
      BY DEF Collected
    <3>1. PICK k \in DOMAIN buffer : Behind(k, l)
      BY <1>1
    <3> QED BY <1>3, <3>1 DEF Behind
  <2>9. ASSUME NEW jd \in Ids, Collected(jd)' = {}
        PROVE  written[jd] = handed'[jd] + size[jd]
    <3>1. CASE jd = id
      BY <2>6, <2>7, <3>1
    <3>2. CASE jd # id
      <4>1. Collected(jd) = {}
        <5> SUFFICES ASSUME NEW k \in DOMAIN buffer, buffer[k].id = jd, buffer[k].fresh
                     PROVE  FALSE
          BY DEF Collected
        <5>1. k # 1
          BY <1>2, <3>2
        <5>2. PICK l \in DOMAIN buffer' : Behind(k, l)
          BY <1>1, <5>1
        <5> QED BY <2>9, <5>2 DEF Behind, Collected
      <4> QED BY <1>4, <3>2, <4>1 DEF DataInv, NumbersKept
    <3> QED BY <3>1, <3>2
  <2>10. ASSUME NEW jd \in Ids, NEW l \in Collected(jd)'
        PROVE  written[jd] = handed'[jd] + Len(buffer'[l].events) + size[jd]
    <3>1. l \in DOMAIN buffer' /\ buffer'[l].fresh /\ buffer'[l].id = jd
      BY <2>10 DEF Collected
    <3>2. PICK k \in DOMAIN buffer : Behind(k, l)
      BY <1>1, <3>1
    <3>3. buffer'[l] = buffer[k] /\ k \in Collected(jd) /\ jd # id
      BY <2>8, <2>10, <3>1, <3>2 DEF Behind, Collected
    <3>4. written[jd] = handed[jd] + Len(buffer[k].events) + size[jd]
      BY <3>3 DEF DataInv, NumbersKept
    <3> QED BY <1>4, <3>3, <3>4
  <2>11. NumbersKept'
    BY <2>6, <2>9, <2>10 DEF DataInv, NumbersKept
  <2>12. PipelinesKnown' /\ BatchesPlaced'
    BY DEF DataInv, PipelinesKnown, BatchesPlaced, registered, listed
  <2> QED BY <1>5, <2>11, <2>12 DEF DataInv
<1> QED BY <1>7, <1>8

LEMMA CallStagePasses ==
  ASSUME DataInv, NEW events, NEW fired, CallStage(events, fired)
  PROVE  DataInv'
<1>1. /\ buffer # <<>> /\ HandOver /\ buffer' = [buffer EXCEPT ![1] = Sift(buffer[1], events)]
      /\ UNCHANGED <<pipelines, batch, size, store, free, exhausted, overlaid, written>>
  BY DEF CallStage, Dispatching, registry, pool
<1>2. PICK d : d = Sift(buffer[1], events)
  OBVIOUS
<1>3. d.id = buffer[1].id /\ d.fresh = FALSE
  BY <1>2 DEF Sift
<1>4. PICK S : S = Range(buffer) \cup {d}
  OBVIOUS
<1>5. buffer \in Seq(S) /\ d \in S
  BY <1>4, SeqMonotonic DEF DataInv, BufferKept
<1>6. Len(buffer) \in Nat \ {0} /\ DOMAIN buffer = 1 .. Len(buffer)
  BY <1>1, <1>5, TailOf
<1>7. 1 \in 1 .. Len(buffer)
  BY <1>6
<1>8. [buffer EXCEPT ![1] = d] \in Seq(S)
  BY <1>5, <1>7, ExceptSeq
<1>9. buffer' = [buffer EXCEPT ![1] = d]
  BY <1>1, <1>2
<1>10. buffer' \in Seq(Range(buffer'))
  BY <1>8, <1>9, SeqOfItsRange
<1>11. DOMAIN buffer' = DOMAIN buffer /\ buffer'[1] = d /\ \A k \in DOMAIN buffer : k # 1 => buffer'[k] = buffer[k]
  BY <1>6, <1>7, <1>9
<1>12. PassedOn
  BY <1>1, <1>3, <1>10, <1>11 DEF PassedOn
<1> QED BY <1>1, <1>12, PassedOnKeeps

LEMMA ReroutePasses ==
  ASSUME DataInv, Reroute
  PROVE  DataInv'
<1>1. PassedOn
  BY DEF Reroute, Dispatching, PassedOn
<1>2. UNCHANGED <<pipelines, batch, size, store, free, exhausted, overlaid, written>>
  BY DEF Reroute, registry, pool
<1> QED BY <1>1, <1>2, PassedOnKeeps

----------------------------------------------------------------------------
(* Collecting *)

\* The ids are those that have events, each of them once.
AllPending(ids) ==
  /\ ids \in Seq(Ids)
  /\ \A i, k \in DOMAIN ids : ids[i] = ids[k] => i = k
  /\ \A id \in Ids : size[id] > 0 <=> \E i \in DOMAIN ids : ids[i] = id

LEMMA PendingAll ==
  ASSUME PipelinesKnown, NEW ids \in pendingIds
  PROVE  AllPending(ids)
<1>1. /\ pipelines \in Seq(Ids) /\ Len(pipelines) \in Nat /\ DOMAIN pipelines = 1 .. Len(pipelines)
      /\ \A i \in DOMAIN pipelines : pipelines[i] \in Ids
  BY LenProperties, ElementOfSeq DEF PipelinesKnown
<1>2. PICK S : S = pendingPipelines
  OBVIOUS
<1>3. S \subseteq DOMAIN pipelines /\ \A i \in DOMAIN pipelines : i \in S <=> size[pipelines[i]] > 0
  BY <1>2 DEF pendingPipelines
<1>4. IsFiniteSet(S) /\ Cardinality(S) \in Nat
  <2>1. IsFiniteSet(1 .. Len(pipelines))
    BY <1>1, FS_Interval
  <2> QED BY <1>1, <1>3, <2>1, FS_Subset, FS_CardinalityType
<1>5. PICK n \in Nat : n = Cardinality(S)
  BY <1>4
<1>6. PICK q \in InOrder(S) : ids = [i \in DOMAIN q |-> pipelines[q[i]]]
  BY <1>2 DEF pendingIds
<1>7. /\ q \in [1 .. n -> S] /\ DOMAIN q = 1 .. n
      /\ \A i, k \in 1 .. n : i < k => q[i] < q[k]
  BY <1>5, <1>6 DEF InOrder
<1>8. \A i, k \in 1 .. n : q[i] = q[k] => i = k
  <2> SUFFICES ASSUME NEW i \in 1 .. n, NEW k \in 1 .. n, q[i] = q[k], i < k
               PROVE  FALSE
    OBVIOUS
  <2>1. q[i] < q[k] /\ q[i] \in Nat
    BY <1>1, <1>3, <1>7
  <2> QED BY <2>1
<1>9. q \in Injection(1 .. n, S)
  BY <1>7, <1>8 DEF Injection, IsInjective
<1>10. \A j \in S : \E i \in 1 .. n : q[i] = j
  <2>1. Cardinality(1 .. n) = n
    BY FS_Interval
  <2>2. q \in Surjection(1 .. n, S)
    BY <1>4, <1>5, <1>9, <2>1, FS_Injection
  <2> QED BY <2>2 DEF Surjection
<1>11. DOMAIN ids = 1 .. n /\ \A i \in 1 .. n : ids[i] = pipelines[q[i]] /\ ids[i] \in Ids /\ size[ids[i]] > 0
  BY <1>1, <1>3, <1>6, <1>7
<1>12. ids \in Seq(Ids)
  <2>1. ids \in [1 .. n -> Ids]
    BY <1>6, <1>7, <1>11
  <2> QED BY <2>1
<1>13. \A i, k \in DOMAIN ids : ids[i] = ids[k] => i = k
  BY <1>3, <1>7, <1>8, <1>11 DEF PipelinesKnown
<1>14. \A id \in Ids : size[id] > 0 => \E i \in DOMAIN ids : ids[i] = id
  <2> SUFFICES ASSUME NEW id \in Ids, size[id] > 0
               PROVE  \E i \in DOMAIN ids : ids[i] = id
    OBVIOUS
  <2>1. PICK j \in DOMAIN pipelines : pipelines[j] = id
    BY <1>1 DEF PipelinesKnown, registered, Contains
  <2>2. j \in S
    BY <1>3, <2>1
  <2>3. PICK i \in 1 .. n : q[i] = j
    BY <1>10, <2>2
  <2> QED BY <1>11, <2>1, <2>3
<1> QED BY <1>11, <1>12, <1>13, <1>14 DEF AllPending

\* Freeing the batches of all pipelines makes every batch free.
LEMMA AllFreed ==
  ASSUME BatchesPlaced, NEW ids, AllPending(ids),
         NEW list, list = freeEventBatches(ids)
  PROVE  /\ list \in Seq(Batches)
         /\ free # <<>> => list # <<>> /\ list[Len(list)] = free[Len(free)]
         /\ \A i, k \in DOMAIN list : list[i] = list[k] => i = k
         /\ \A b \in Batches : \E i \in DOMAIN list : list[i] = b
<1>1. PICK n \in Nat : n = Len(ids) /\ DOMAIN ids = 1 .. n
  BY LenProperties DEF AllPending
<1>2. /\ \A i \in 1 .. n : ids[i] \in Ids /\ size[ids[i]] > 0
      /\ \A i, k \in 1 .. n : ids[i] = ids[k] => i = k
      /\ \A id \in Ids : size[id] > 0 => \E i \in 1 .. n : ids[i] = id
  BY <1>1, ElementOfSeq DEF AllPending
<1>3. PICK r : r = [i \in 1 .. n |-> batch[ids[n - i + 1]]]
  OBVIOUS
<1>4. \A i \in 1 .. n : n - i + 1 \in 1 .. n /\ n - (n - i + 1) + 1 = i
  BY <1>1
<1>5. \A id \in Ids : size[id] > 0 => batch[id] \in Batches /\ batch[id] # None /\ ~listed(batch[id])
  BY BatchSizeAssumption DEF BatchesPlaced
<1>6. \A i \in 1 .. n : r[i] \in Batches /\ ~listed(r[i])
  BY <1>2, <1>3, <1>4, <1>5
<1>7. \A i, k \in 1 .. n : r[i] = r[k] => i = k
  <2> SUFFICES ASSUME NEW i \in 1 .. n, NEW k \in 1 .. n, r[i] = r[k]
               PROVE  i = k
    OBVIOUS
  <2>1. PICK x \in 1 .. n : x = n - i + 1
    BY <1>4
  <2>2. PICK y \in 1 .. n : y = n - k + 1
    BY <1>4
  <2>3. batch[ids[x]] = batch[ids[y]]
    BY <1>3, <2>1, <2>2
  <2>4. ids[x] = ids[y]
    BY <1>2, <1>5, <2>3 DEF BatchesPlaced
  <2>5. x = y
    BY <1>2, <2>4
  <2> QED BY <1>1, <2>1, <2>2, <2>5
<1>8. r \in Seq(Batches) /\ Len(r) = n
  BY <1>1, <1>3, <1>6
<1>9. Reverse([i \in 1 .. Len(ids) |-> batch[ids[i]]]) = r
  <2>1. PICK f : f = [i \in 1 .. n |-> batch[ids[i]]]
    OBVIOUS
  <2>2. Len(f) = n
    BY <1>1, <2>1
  <2>3. Reverse(f) = [i \in 1 .. n |-> f[(n - i) + 1]]
    BY <2>2 DEF Reverse
  <2>4. \A i \in 1 .. n : f[(n - i) + 1] = batch[ids[n - i + 1]]
    BY <1>4, <2>1
  <2>5. Reverse(f) = r
    BY ONLY <1>3, <2>3, <2>4
  <2>6. f = [i \in 1 .. Len(ids) |-> batch[ids[i]]]
    BY ONLY <1>1, <2>1
  <2> QED BY ONLY <2>5, <2>6
<1>10. list = r \o free
  BY <1>9 DEF freeEventBatches
<1>11. PICK m \in Nat : m = Len(free) /\ DOMAIN free = 1 .. m
  BY LenProperties DEF BatchesPlaced
<1>12. free \in Seq(Batches) /\ \A i, k \in 1 .. m : free[i] = free[k] => i = k
  BY <1>11 DEF BatchesPlaced
<1>13. /\ list \in Seq(Batches) /\ Len(list) = n + m
       /\ \A i \in 1 .. n + m : list[i] = IF i <= n THEN r[i] ELSE free[i - n]
  <2>1. r \in Seq(Batches) /\ free \in Seq(Batches) /\ Len(r) = n /\ Len(free) = m
    BY <1>8, <1>11, <1>12
  <2>2. r \o free \in Seq(Batches) /\ Len(r \o free) = Len(r) + Len(free)
        /\ \A i \in 1 .. Len(r) + Len(free) :
             (r \o free)[i] = IF i <= Len(r) THEN r[i] ELSE free[i - Len(r)]
    BY <2>1, ConcatProperties
  <2> QED BY <1>10, <2>1, <2>2
<1>14. DOMAIN list = 1 .. n + m
  BY <1>13, LenProperties
<1>15. ASSUME free # <<>>
       PROVE  list # <<>> /\ list[Len(list)] = free[Len(free)]
  <2>1. m # 0
    BY <1>11, <1>12, <1>15, EmptySeq
  <2>2. n + m \in 1 .. n + m /\ ~(n + m <= n) /\ n + m - n = m
    BY <1>1, <1>11, <2>1
  <2>3. list # <<>>
    BY <1>1, <1>11, <1>13, <2>1, EmptySeq
  <2>4. list[n + m] = free[n + m - n]
    BY <1>13, <2>2
  <2> QED BY <1>11, <1>13, <2>2, <2>3, <2>4
<1>17. \A i \in 1 .. m : listed(free[i])
  BY <1>11 DEF listed
<1>18. \A i \in 1 .. n + m : (i \in 1 .. n /\ list[i] = r[i]) \/ (i - n \in 1 .. m /\ list[i] = free[i - n])
  BY <1>1, <1>11, <1>13
<1>19. \A i, k \in 1 .. n + m : list[i] = list[k] => i = k
  <2> SUFFICES ASSUME NEW i \in 1 .. n + m, NEW k \in 1 .. n + m, list[i] = list[k]
               PROVE  i = k
    OBVIOUS
  <2>1. (i \in 1 .. n /\ list[i] = r[i]) \/ (i - n \in 1 .. m /\ list[i] = free[i - n])
    BY <1>18
  <2>2. (k \in 1 .. n /\ list[k] = r[k]) \/ (k - n \in 1 .. m /\ list[k] = free[k - n])
    BY <1>18
  <2>3. CASE i \in 1 .. n /\ list[i] = r[i] /\ k \in 1 .. n /\ list[k] = r[k]
    BY <1>7, <2>3
  <2>4. CASE i \in 1 .. n /\ list[i] = r[i] /\ k - n \in 1 .. m /\ list[k] = free[k - n]
    BY <1>6, <1>17, <2>4
  <2>5. CASE k \in 1 .. n /\ list[k] = r[k] /\ i - n \in 1 .. m /\ list[i] = free[i - n]
    BY <1>6, <1>17, <2>5
  <2>6. CASE i - n \in 1 .. m /\ list[i] = free[i - n] /\ k - n \in 1 .. m /\ list[k] = free[k - n]
    <3>1. i - n = k - n
      BY <1>12, <2>6
    <3> QED BY <1>1, <3>1
  <2> QED BY <2>1, <2>2, <2>3, <2>4, <2>5, <2>6
<1>20. \A b \in Batches : \E i \in 1 .. n + m : list[i] = b
  <2> SUFFICES ASSUME NEW b \in Batches
               PROVE  \E i \in 1 .. n + m : list[i] = b
    OBVIOUS
  <2>1. CASE listed(b)
    <3>1. PICK k \in 1 .. m : free[k] = b
      BY <1>11, <2>1 DEF listed
    <3>2. n + k \in 1 .. n + m /\ ~(n + k <= n) /\ n + k - n = k
      BY <1>1, <1>11
    <3>3. list[n + k] = free[k]
      BY <1>13, <3>2
    <3> QED BY <3>1, <3>2, <3>3
  <2>2. CASE ~listed(b)
    <3>1. PICK id \in Ids : batch[id] = b
      BY <2>2 DEF BatchesPlaced
    <3>2. size[id] > 0
      <4>1. b # None
        BY NoneAssumption DEF Batches
      <4>2. size[id] # 0 /\ size[id] \in 0 .. BatchSize /\ BatchSize \in Nat
        BY <3>1, <4>1, BatchSizeAssumption DEF BatchesPlaced
      <4> QED BY <4>2
    <3>3. PICK x \in 1 .. n : ids[x] = id
      BY <1>2, <3>2
    <3>4. PICK k \in 1 .. n : k = n - x + 1
      BY <1>4
    <3>5. r[k] = b
      BY <1>3, <1>4, <3>1, <3>3, <3>4
    <3>6. k \in 1 .. n + m /\ k <= n
      BY <1>1, <1>11
    <3> QED BY <1>13, <3>5, <3>6
  <2> QED BY <2>1, <2>2
<1>21. \A i, k \in DOMAIN list : list[i] = list[k] => i = k
  BY <1>14, <1>19
<1>22. \A b \in Batches : \E i \in DOMAIN list : list[i] = b
  BY <1>14, <1>20
<1> QED BY <1>13, <1>15, <1>21, <1>22

\* What was in the batches is in the buffer, and no pipeline has a batch any more.
LEMMA CollectKeeps ==
  ASSUME DataInv, buffer = <<>>, Collect
  PROVE  DataInv'
<1>1. PICK ids \in pendingIds :
        /\ buffer' = [i \in DOMAIN ids |-> taken(ids[i])]
        /\ free' = freeEventBatches(ids)
        /\ batch' = [id \in Ids |-> IF Contains(ids, id) THEN None ELSE batch[id]]
        /\ overlaid' = linksOverEvents(ids)
  BY DEF Collect
<1>2. /\ size' = [id \in Ids |-> 0]
      /\ store' = [b \in Batches |-> IF b \in Range(batch') THEN store[b] ELSE <<>>]
      /\ pipelines' = pipelines /\ written' = written /\ handed' = handed
      /\ exhausted' = exhausted
  BY DEF Collect, registry
<1>3. AllPending(ids)
  BY <1>1, PendingAll DEF DataInv
<1>4. PICK n \in Nat : n = Len(ids) /\ DOMAIN ids = 1 .. n
  BY <1>3, LenProperties DEF AllPending
<1>5. /\ \A i \in 1 .. n : ids[i] \in Ids /\ size[ids[i]] > 0
      /\ \A i, k \in 1 .. n : ids[i] = ids[k] => i = k
      /\ \A id \in Ids : size[id] > 0 => \E i \in 1 .. n : ids[i] = id
  BY <1>3, <1>4, ElementOfSeq DEF AllPending
<1>6. \A id \in Ids : size[id] \in Nat /\ size[id] \in 0 .. BatchSize
  BY BatchSizeAssumption DEF DataInv, BatchesPlaced
<1>7. \A id \in Ids : batch'[id] = None
  <2> SUFFICES ASSUME NEW id \in Ids
               PROVE  batch'[id] = None
    OBVIOUS
  <2>1. CASE size[id] > 0
    <3>1. Contains(ids, id)
      BY <1>4, <1>5, <2>1 DEF Contains
    <3> QED BY <1>1, <3>1
  <2>2. CASE ~(size[id] > 0)
    <3>1. batch[id] = None
      BY <1>6, <2>2 DEF DataInv, BatchesPlaced
    <3> QED BY <1>1, <3>1
  <2> QED BY <2>1, <2>2
<1>8. DOMAIN batch' = Ids
  BY <1>1
<1>9. \A b \in Batches : b # None /\ store'[b] = <<>>
  <2> SUFFICES ASSUME NEW b \in Batches
               PROVE  b # None /\ store'[b] = <<>>
    OBVIOUS
  <2>1. b # None
    BY NoneAssumption DEF Batches
  <2>2. b \notin Range(batch')
    BY <1>7, <1>8, <2>1 DEF Range
  <2> QED BY <1>2, <2>1, <2>2
<1>10. PipelinesKnown'
  BY <1>2 DEF DataInv, PipelinesKnown, registered
<1>11. BatchesPlaced'
  <2>1. batch' \in [Ids -> Batches \cup {None}] /\ size' \in [Ids -> 0 .. BatchSize]
        /\ DOMAIN store' = Batches
    <3>1. 0 \in 0 .. BatchSize
      BY BatchSizeAssumption
    <3> QED BY <1>1, <1>2, <1>7, <1>8, <3>1
  <2>2. \A b \in Batches : store'[b] \in Seq(Range(store'[b]))
    <3>1. <<>> \in Seq(Range(<<>>))
      BY EmptySeq
    <3> QED BY <1>9, <3>1
  <2>3. \A id \in Ids : batch'[id] = None /\ size'[id] = 0
    BY <1>2, <1>7
  <2>4. /\ free' \in Seq(Batches)
        /\ free # <<>> => free' # <<>> /\ free'[Len(free')] = free[Len(free)]
        /\ \A i, k \in DOMAIN free' : free'[i] = free'[k] => i = k
        /\ \A b \in Batches : \E i \in DOMAIN free' : free'[i] = b
    BY <1>1, <1>3, AllFreed DEF DataInv
  <2>5. \A b \in Batches : listed(b)'
    BY <2>4 DEF listed
  <2>6. \A b \in Batches : listed(b)' => store'[b] = <<>> /\ \A id \in Ids : batch'[id] # b
    BY <1>9, <2>3
  <2>7. exhausted' \in BOOLEAN /\ overlaid' \in BOOLEAN
    BY <1>1, <1>2 DEF DataInv, BatchesPlaced, linksOverEvents
  <2>8. ASSUME ~exhausted'
        PROVE  free' # <<>> /\ free'[Len(free')] = 0 /\ ~overlaid'
    <3>1. free # <<>> /\ free[Len(free)] = 0 /\ free \in Seq(Batches)
      BY <1>2, <2>8 DEF DataInv, BatchesPlaced
    <3>2. Len(free) \in DOMAIN free /\ free[Len(free)] \in Batches
      BY <3>1, TailOf, ElementOfSeq
    <3>3. listed(0) /\ 0 \in Batches
      BY <3>1, <3>2 DEF listed
    <3>4. \A id \in Ids : batch[id] # 0
      BY <3>3 DEF DataInv, BatchesPlaced
    <3>5. ~linksOverEvents(ids)
      BY <1>4, <1>5, <3>4 DEF linksOverEvents
    <3> QED BY <1>1, <2>4, <3>1, <3>5
  <2> QED BY <2>1, <2>2, <2>3, <2>4, <2>5, <2>6, <2>7, <2>8 DEF BatchesPlaced
<1>12. \A i \in 1 .. n : buffer'[i] = taken(ids[i])
  BY <1>1, <1>4
<1>13. \A i \in 1 .. n : buffer'[i].id = ids[i] /\ buffer'[i].fresh = TRUE
         /\ buffer'[i].events = SubSeq(store[batch[ids[i]]], 1, size[ids[i]])
  <2> TAKE i \in 1 .. n
  <2>1. PICK jd : jd = ids[i]
    OBVIOUS
  <2>2. PICK e : e = SubSeq(store[batch[jd]], 1, size[jd])
    OBVIOUS
  <2>3. PICK c : c = callOrder(sinks[jd])
    OBVIOUS
  <2>4. taken(jd) = [id |-> jd, events |-> e, stages |-> c, fresh |-> TRUE, reroute |-> <<>>]
    BY <2>2, <2>3 DEF taken
  <2>5. taken(jd).id = jd /\ taken(jd).fresh = TRUE /\ taken(jd).events = e
    BY <2>4
  <2>6. buffer'[i] = taken(jd)
    BY <1>12, <2>1
  <2> QED BY <2>1, <2>2, <2>5, <2>6
<1>14. DOMAIN buffer' = 1 .. n
  BY <1>1, <1>4
<1>15. \A id \in Ids : written[id] = handed[id] + size[id] /\ written[id] \in Nat /\ handed[id] \in Nat
  <2>1. \A id \in Ids : Collected(id) = {}
    BY DEF Collected
  <2> QED BY <2>1 DEF DataInv, NumbersKept
<1>16. \A i \in 1 .. n :
         /\ buffer'[i].events \in Seq(Range(buffer'[i].events))
         /\ Len(buffer'[i].events) = size[ids[i]] /\ buffer'[i].events # <<>>
         /\ \A j \in DOMAIN buffer'[i].events : buffer'[i].events[j].number = handed[ids[i]] + j
  <2> TAKE i \in 1 .. n
  <2>1. PICK id \in Ids : id = ids[i] /\ size[id] > 0
    BY <1>5
  <2>2. PICK b \in Batches : b = batch[id] /\ b # None
    <3>1. size[id] # 0
      BY <1>6, <2>1
    <3> QED BY <3>1 DEF DataInv, BatchesPlaced
  <2>3. PICK s : s = store[b]
    OBVIOUS
  <2>4. s \in Seq(Range(s)) /\ Len(s) = size[id]
    BY <2>2, <2>3 DEF DataInv, BatchesPlaced
  <2>5. PICK e : e = SubSeq(s, 1, size[id])
    OBVIOUS
  <2>6. e \in Seq(Range(s)) /\ Len(e) = size[id] /\ \A j \in 1 .. size[id] : e[j] = s[j]
    <3>1. size[id] \in Nat /\ size[id] <= Len(s)
      BY <1>6, <2>4
    <3> QED BY <2>4, <2>5, <3>1, PrefixOf
  <2>7. e \in Seq(Range(e)) /\ DOMAIN e = 1 .. size[id]
    BY <2>6, SeqOfItsRange
  <2>8. e # <<>>
    BY <2>1, <2>6, <1>6, EmptySeq
  <2>9. \A j \in 1 .. size[id] : e[j].number = handed[id] + j
    <3> TAKE j \in 1 .. size[id]
    <3>1. s[j].number = written[id] - size[id] + j
      BY <2>2, <2>3 DEF DataInv, NumbersKept
    <3>2. written[id] - size[id] + j = handed[id] + j
      BY <1>6, <1>15
    <3> QED BY <2>6, <3>1, <3>2
  <2>10. buffer'[i].events = e
    BY <1>13, <2>1, <2>2, <2>3, <2>5
  <2> QED BY <2>1, <2>6, <2>7, <2>8, <2>9, <2>10
<1>17. BufferKept'
  <2>1. buffer' \in Seq(Range(buffer'))
    <3>1. \A i \in 1 .. n : buffer'[i] \in Range(buffer')
      BY <1>14 DEF Range
    <3>2. buffer' = [i \in 1 .. n |-> taken(ids[i])]
      BY <1>1, <1>4
    <3>3. buffer' \in [1 .. n -> Range(buffer')]
      BY <3>1, <3>2
    <3> QED BY <3>3
  <2>2. \A k \in DOMAIN buffer' : buffer'[k].id \in Ids
    BY <1>5, <1>13, <1>14
  <2>3. \A k, l \in DOMAIN buffer' : buffer'[k].id = buffer'[l].id => k = l
    BY <1>5, <1>13, <1>14
  <2>4. \A k \in DOMAIN buffer' : buffer'[k].fresh =>
          /\ buffer'[k].events \in Seq(Range(buffer'[k].events)) /\ buffer'[k].events # <<>>
          /\ \A i \in DOMAIN buffer'[k].events :
               buffer'[k].events[i].number = handed'[buffer'[k].id] + i
    BY <1>2, <1>13, <1>14, <1>16
  <2> QED BY <2>1, <2>2, <2>3, <2>4 DEF BufferKept
<1>18. NumbersKept'
  <2>1. \A id \in Ids : size'[id] = 0
    BY <1>2
  <2>2. \A id \in Ids : Collected(id)' = {} => written'[id] = handed'[id] + size'[id]
    <3> SUFFICES ASSUME NEW id \in Ids, Collected(id)' = {}
                 PROVE  written'[id] = handed'[id] + size'[id]
      OBVIOUS
    <3>1. ~(size[id] > 0)
      BY <1>5, <1>13, <1>14 DEF Collected
    <3>2. size[id] = 0
      BY <1>6, <3>1
    <3> QED BY <1>2, <1>15, <2>1, <3>2
  <2>3. \A id \in Ids : \A k \in Collected(id)' :
          written'[id] = handed'[id] + Len(buffer'[k].events) + size'[id]
    <3> SUFFICES ASSUME NEW id \in Ids, NEW k \in Collected(id)'
                 PROVE  written'[id] = handed'[id] + Len(buffer'[k].events) + size'[id]
      OBVIOUS
    <3>1. k \in 1 .. n /\ ids[k] = id
      BY <1>13, <1>14 DEF Collected
    <3>2. Len(buffer'[k].events) = size[id]
      BY <1>16, <3>1
    <3> QED BY <1>2, <1>6, <1>15, <2>1, <3>2
  <2> QED BY <1>2, <1>7, <2>2, <2>3 DEF DataInv, NumbersKept
<1> QED BY <1>10, <1>11, <1>17, <1>18 DEF DataInv

----------------------------------------------------------------------------
(* Steps *)

LEMMA EventInvInit == Init => EventInv
<1> SUFFICES ASSUME Init
             PROVE  EventInv
  OBVIOUS
<1> USE DEF Init, EventInit
<1>1. PipelinesKnown
  <2>1. \A i \in 1 .. 4 : EngineIds[i] \in Ids
    BY IdsAssumption DEF EngineIds
  <2>2. EngineIds \in Seq(Ids) /\ DOMAIN EngineIds = 1 .. 4
    BY IdsAssumption DEF EngineIds
  <2>3. \A i, k \in 1 .. 4 : EngineIds[i] = EngineIds[k] => i = k
    BY DEF EngineIds, REQUEST_CLOSE, ALL_CLOSED, QUIT, RESIZED
  <2>4. \A id \in Ids : ~(size[id] > 0)
    OBVIOUS
  <2> QED BY <2>2, <2>3, <2>4 DEF PipelinesKnown
<1>2. BatchesPlaced
  <2>1. PoolSize \in Nat \ {0}
    BY PoolSizeAssumption
  <2>2. /\ free \in Seq(Batches) /\ Len(free) = PoolSize /\ DOMAIN free = 1 .. PoolSize
        /\ \A i \in 1 .. PoolSize : free[i] = PoolSize - i /\ free[i] \in Batches
    BY <2>1 DEF Batches
  <2>3. free # <<>> /\ free[Len(free)] = 0 /\ \A i, k \in DOMAIN free : free[i] = free[k] => i = k
    <3>1. PoolSize \in 1 .. PoolSize /\ PoolSize - PoolSize = 0
      BY <2>1
    <3>2. free[Len(free)] = 0
      BY <2>2, <3>1
    <3>3. free # <<>>
      BY <2>1, <2>2, EmptySeq
    <3>4. \A i, k \in 1 .. PoolSize : free[i] = free[k] => i = k
      <4> SUFFICES ASSUME NEW i \in 1 .. PoolSize, NEW k \in 1 .. PoolSize, free[i] = free[k]
                   PROVE  i = k
        OBVIOUS
      <4>1. PoolSize - i = PoolSize - k
        BY <2>2
      <4> QED BY <2>1, <4>1
    <3> QED BY <2>2, <3>2, <3>3, <3>4
  <2>4. \A b \in Batches : listed(b)
    <3> SUFFICES ASSUME NEW b \in Batches
                 PROVE  \E i \in DOMAIN free : free[i] = b
      BY DEF listed
    <3>1. PoolSize - b \in 1 .. PoolSize /\ PoolSize - (PoolSize - b) = b
      BY <2>1 DEF Batches
    <3> QED BY <2>2, <3>1
  <2>5. \A b \in Batches : store[b] = <<>> /\ store[b] \in Seq(Range(store[b]))
    BY EmptySeq
  <2>6. batch \in [Ids -> Batches \cup {None}] /\ size \in [Ids -> 0 .. BatchSize]
        /\ DOMAIN store = Batches
    BY BatchSizeAssumption
  <2>7. \A id \in Ids : batch[id] = None /\ size[id] = 0
    OBVIOUS
  <2>8. \A b \in Batches, id \in Ids : batch[id] # b
    BY NoneAssumption DEF Batches
  <2> QED BY <2>2, <2>3, <2>4, <2>5, <2>6, <2>7, <2>8 DEF BatchesPlaced
<1>3. BufferKept
  <2>1. buffer = <<>> /\ <<>> \in Seq(Range(<<>>)) /\ DOMAIN buffer = {}
    BY EmptySeq
  <2> QED BY <2>1 DEF BufferKept
<1>4. NumbersKept
  <2>1. \A id \in Ids : Collected(id) = {}
    BY DEF Collected
  <2> QED BY <2>1 DEF NumbersKept
<1>5. pointsKnown
  BY DEF pointsKnown
<1>6. NoEventForgotten
  BY DEF NoEventForgotten
<1> QED BY <1>1, <1>2, <1>3, <1>4, <1>5, <1>6 DEF EventInv, DataInv

\* An event is written, or is not taken.
LEMMA FiringKeeps ==
  ASSUME DataInv, NEW event, NEW mode,
         \/ Refused(event.id, mode) /\ UNCHANGED <<pool, written>>
         \/ ~Refused(event.id, mode) /\ writeEvent(event, mode),
         UNCHANGED <<pipelines, buffer, handed>>
  PROVE  DataInv'
<1>1. CASE Refused(event.id, mode)
  BY <1>1, DataSame DEF dataVars, pool
<1>2. CASE ~Refused(event.id, mode)
  BY <1>2, WriteKeeps DEF DataInv
<1> QED BY <1>1, <1>2

\* The threads and the flag stay as they are, and no pipeline gets events.
LEMMA ForgottenSame ==
  ASSUME NoEventForgotten, UNCHANGED <<size, pc, eventsPending>>
  PROVE  NoEventForgotten'
BY DEF NoEventForgotten

LEMMA JobStep ==
  ASSUME EventInv, NEW t \in Threads, JobFires(t) \/ FireGoesOn(t)
  PROVE  EventInv'
<1> USE DEF EventInv
<1>a. pc \in [Threads -> {"idle", "write", "mark"}] /\ readers \subseteq Threads
      /\ \A u \in Threads : pc[u] # "idle" <=> u \in readers
  BY DEF pointsKnown
<1>1. CASE JobFires(t)
  <2>1. PICK event, mode : FireBegin(t, event, mode)
    BY <1>1 DEF JobFires
  <2>2. UNCHANGED <<pipelines, batch, size, store, free, exhausted, overlaid, buffer, written,
                    handed, dispatching, eventsPending, at>>
        /\ pc[t] = "idle" /\ pc' = [pc EXCEPT ![t] = "write"] /\ readers' = readers \cup {t}
    BY <1>1, <2>1 DEF JobFires, FireBegin, registry, pool, dispatch, engine
  <2>3. DataInv'
    BY <2>2, DataSame DEF dataVars
  <2>4. pointsKnown'
    BY <1>a, <2>2 DEF pointsKnown
  <2>5. NoEventForgotten'
    BY <1>a, <2>2 DEF NoEventForgotten
  <2> QED BY <2>3, <2>4, <2>5
<1>2. CASE FireGoesOn(t)
  <2>1. UNCHANGED <<pipelines, buffer, handed, dispatching, at>>
    BY <1>2 DEF FireGoesOn, FireStep, Write, Mark, registry, dispatch, engine
  <2>2. CASE Mark(t)
    <3>1. UNCHANGED <<pipelines, batch, size, store, free, exhausted, overlaid, buffer, written,
                      handed>>
          /\ pc[t] = "mark" /\ pc' = [pc EXCEPT ![t] = "idle"] /\ readers' = readers \ {t}
          /\ eventsPending' = TRUE
      BY <2>2 DEF Mark, ReadUnlock, registry, pool, dispatch
    <3>2. DataInv'
      BY <3>1, DataSame DEF dataVars
    <3>3. pointsKnown'
      BY <1>a, <2>1, <3>1 DEF pointsKnown
    <3>4. NoEventForgotten'
      BY <3>1 DEF NoEventForgotten
    <3> QED BY <3>2, <3>3, <3>4
  <2>3. CASE Write(t)
    <3>1. PICK event, mode :
            /\ \/ Refused(event.id, mode) /\ ReadUnlock(t) /\ UNCHANGED <<pool, written>>
               \/ ~Refused(event.id, mode) /\ writeEvent(event, mode)
                  /\ pc' = [pc EXCEPT ![t] = "mark"] /\ UNCHANGED <<readers, firing>>
            /\ pc[t] = "write" /\ eventsPending' = eventsPending
      BY <2>3 DEF Write
    <3>2. DataInv'
      BY <2>1, <3>1, FiringKeeps
    <3>3. CASE Refused(event.id, mode)
      <4>1. pc' = [pc EXCEPT ![t] = "idle"] /\ readers' = readers \ {t} /\ size' = size
        BY <3>1, <3>3 DEF ReadUnlock, pool
      <4>2. pointsKnown'
        BY <1>a, <2>1, <3>1, <4>1 DEF pointsKnown
      <4>3. NoEventForgotten'
        BY <1>a, <3>1, <4>1 DEF NoEventForgotten
      <4> QED BY <3>2, <4>2, <4>3
    <3>4. CASE ~Refused(event.id, mode)
      <4>1. pc' = [pc EXCEPT ![t] = "mark"] /\ readers' = readers
        BY <3>1, <3>4
      <4>2. pointsKnown'
        BY <1>a, <2>1, <3>1, <4>1 DEF pointsKnown
      <4>3. NoEventForgotten'
        BY <1>a, <4>1 DEF NoEventForgotten
      <4> QED BY <3>2, <4>2, <4>3
    <3> QED BY <3>3, <3>4
  <2> QED BY <1>2, <2>2, <2>3 DEF FireGoesOn, FireStep
<1> QED BY <1>1, <1>2

LEMMA RegisterStep ==
  ASSUME EventInv, NEW id \in AppIds,
         (\E f \in Range(AppSinks) : AppRegisters(f, id)) \/ AppRemoves(id)
  PROVE  EventInv'
<1>1. \E pipeline, keepsLock : Relocate(id, pipeline, keepsLock)
  <2>1. CASE AppRemoves(id)
    BY <2>1 DEF AppRemoves, UnregisterSink
  <2>2. ASSUME NEW f \in Range(AppSinks), AppRegisters(f, id)
        PROVE  \E pipeline, keepsLock : Relocate(id, pipeline, keepsLock)
    <3>1. \/ \E place : RegisterSink(id, f, place)
          \/ \E before, after : RegisterSinkBetween(id, f, before, after)
      BY <2>2 DEF AppRegisters
    <3> QED BY <3>1 DEF RegisterSink, RegisterSinkBetween
  <2> QED BY <2>1, <2>2
<1>2. at' = at
  BY DEF AppRemoves, AppRegisters
<1>3. id \in Ids
  BY IdsAssumption
<1>4. /\ pipelines' = Registered(id)
      /\ UNCHANGED <<batch, size, store, free, exhausted, overlaid, buffer, written, handed,
                     dispatching, pc, readers, eventsPending>>
  BY <1>1 DEF Relocate, pool, dispatch
<1>5. DataInv'
  BY <1>3, <1>4, RegisteringKeeps DEF EventInv
<1>6. pointsKnown'
  BY <1>2, <1>4 DEF EventInv, pointsKnown
<1>7. NoEventForgotten'
  BY <1>4, ForgottenSame DEF EventInv
<1> QED BY <1>5, <1>6, <1>7 DEF EventInv

\* Steps of the main thread that only go on in the frame.
LEMMA FrameStep ==
  ASSUME EventInv, AppActs \/ PumpEvent \/ PumpDone \/ FrameDone \/ MainStuck \/ Shutdown \/ Joined
  PROVE  EventInv'
<1>1. UNCHANGED <<dataVars, pc, readers, eventsPending>>
  BY DEF AppActs, PumpEvent, PumpDone, FrameDone, MainStuck, Shutdown, Joined, dataVars, eventVars,
         registry, pool, dispatch
<1>2. DataInv'
  BY <1>1, DataSame DEF EventInv
<1>3. NoEventForgotten'
  BY <1>1, ForgottenSame DEF EventInv, dataVars
<1>4. pointsKnown'
  <2>1. CASE PumpDone
    <3>1. at = "pump" /\ at' = "dispatch" /\ dispatching' = "no" /\ buffer' = buffer
      BY <2>1 DEF PumpDone
    <3> QED BY <1>1, <3>1 DEF EventInv, pointsKnown
  <2>2. CASE AppActs \/ PumpEvent
    <3>1. at' = at /\ dispatching' = dispatching /\ buffer' = buffer
      BY <2>2 DEF AppActs, PumpEvent, engine, dispatch
    <3> QED BY <1>1, <3>1 DEF EventInv, pointsKnown
  <2>3. CASE FrameDone \/ MainStuck \/ Shutdown \/ Joined
    <3>1. dispatching' = dispatching /\ buffer' = buffer
      BY <2>3 DEF FrameDone, MainStuck, Shutdown, Joined, eventVars, dispatch
    <3>2. at' \in {"pump", "frame", "shutdown", "joining", "down", "stuck"}
          /\ (at = "dispatch" => dispatching = "returned")
      BY <2>3 DEF FrameDone, MainStuck, Shutdown, Joined
    <3> QED BY <1>1, <3>1, <3>2 DEF EventInv, pointsKnown
  <2> QED BY <2>1, <2>2, <2>3
<1> QED BY <1>2, <1>3, <1>4 DEF EventInv

LEMMA FiresStep ==
  ASSUME EventInv, MainFiresNext
  PROVE  EventInv'
<1>1. PICK event, mode :
        \/ Refused(event.id, mode) /\ UNCHANGED <<pool, written, eventsPending>>
        \/ ~Refused(event.id, mode) /\ writeEvent(event, mode) /\ eventsPending' = TRUE
  BY DEF MainFiresNext, MainFires
<1>2. UNCHANGED <<pipelines, buffer, handed, dispatching, at, pc, readers>>
  BY DEF MainFiresNext, MainFires, registry, dispatch, engine
<1>3. DataInv'
  BY <1>1, <1>2, FiringKeeps DEF EventInv
<1>4. NoEventForgotten'
  BY <1>1, <1>2 DEF EventInv, NoEventForgotten, pool
<1>5. pointsKnown'
  BY <1>1, <1>2 DEF EventInv, pointsKnown
<1> QED BY <1>3, <1>4, <1>5 DEF EventInv

LEMMA DispatchingStep ==
  ASSUME EventInv, MainDispatches
  PROVE  EventInv'
<1>1. at = "dispatch" /\ at' = at
  <2>1. CASE StageStep
    BY <2>1 DEF MainDispatches, StageStep, windowRequestCloseEvent, allWindowsClosedEvent,
                engineOnEvent, engineOnResized, AppStage, engine
  <2> QED BY <2>1 DEF MainDispatches, engine
<1>2. CASE Collect
  <2>1. buffer = <<>>
    BY <1>2 DEF Collect, EventInv, pointsKnown
  <2>2. DataInv'
    BY <1>2, <2>1, CollectKeeps DEF EventInv
  <2>3. NoEventForgotten'
    BY <1>2 DEF Collect, NoEventForgotten
  <2>4. pointsKnown'
    BY <1>1, <1>2 DEF Collect, EventInv, pointsKnown
  <2> QED BY <2>2, <2>3, <2>4 DEF EventInv
<1>3. CASE DispatchTest \/ DispatchReturn
  <2>1. UNCHANGED <<dataVars, pc, readers, eventsPending>>
    BY <1>3 DEF DispatchTest, DispatchReturn, dataVars, registry, pool
  <2>2. DataInv'
    BY <2>1, DataSame DEF EventInv
  <2>3. NoEventForgotten'
    BY <2>1, ForgottenSame DEF EventInv, dataVars
  <2>4. pointsKnown'
    BY <1>1, <1>3, <2>1 DEF DispatchTest, DispatchReturn, EventInv, pointsKnown, dataVars
  <2> QED BY <2>2, <2>3, <2>4 DEF EventInv
<1>4. CASE Reroute \/ \E events, fired : CallStage(events, fired)
  <2>1. UNCHANGED <<size, pc, readers, eventsPending, dispatching>> /\ dispatching = "stages"
    BY <1>4 DEF Reroute, CallStage, Dispatching, registry, pool
  <2>2. DataInv'
    BY <1>4, ReroutePasses, CallStagePasses DEF EventInv
  <2>3. NoEventForgotten'
    BY <2>1, ForgottenSame DEF EventInv
  <2>4. pointsKnown'
    BY <1>1, <2>1 DEF EventInv, pointsKnown
  <2> QED BY <2>2, <2>3, <2>4 DEF EventInv
<1>5. StageStep => \E events, fired : CallStage(events, fired)
  BY DEF StageStep, windowRequestCloseEvent, allWindowsClosedEvent, engineOnEvent,
         engineOnResized, AppStage
<1> QED BY <1>2, <1>3, <1>4, <1>5 DEF MainDispatches, DispatchStep

LEMMA EventInvNext ==
  ASSUME EventInv, [Next]_vars
  PROVE  EventInv'
<1>1. CASE UNCHANGED vars
  <2>1. UNCHANGED <<dataVars, pc, readers, eventsPending, dispatching, at>>
    BY <1>1 DEF vars, eventVars, dataVars, registry, pool, dispatch, engine
  <2>2. DataInv'
    BY <2>1, DataSame DEF EventInv
  <2>3. NoEventForgotten'
    BY <2>1, ForgottenSame DEF EventInv, dataVars
  <2>4. pointsKnown'
    BY <2>1 DEF EventInv, pointsKnown, dataVars
  <2> QED BY <2>2, <2>3, <2>4 DEF EventInv
<1>2. CASE MainStep
  BY <1>2, FiresStep, DispatchingStep, FrameStep DEF MainStep
<1>3. CASE \E t \in Threads : JobFires(t) \/ FireGoesOn(t)
  BY <1>3, JobStep
<1>4. CASE AppSinkStep
  BY <1>4, RegisterStep DEF AppSinkStep
<1> QED BY <1>1, <1>2, <1>3, <1>4 DEF Next

\* Pipelines, batches, numbers and the buffer of a dispatch fit together in every
\* reachable state, and the flag announces what lies in a batch.
THEOREM EventInvariant == Spec => []EventInv
BY EventInvInit, EventInvNext, PTL DEF Spec

----------------------------------------------------------------------------
(* Theorems *)

\* No event lies in a pipeline unnoticed: the flag is up, or the thread that wrote
\* it is about to raise it (event.c:374, :448).
THEOREM EventsAreNoticed == Spec => []NoEventForgotten
<1>1. EventInv => NoEventForgotten
  BY DEF EventInv
<1> QED BY <1>1, EventInvariant, PTL

\* Two sequences of the numbers from a to b.
LEMMA IntervalEqual ==
  ASSUME NEW s, NEW a \in Nat, NEW n \in Nat, s \in Seq(Range(s)), Len(s) = n,
         \A i \in 1 .. n : s[i] = a + i
  PROVE  s = Interval(a, a + n)
<1>1. PICK q : q = Interval(a, a + n)
  OBVIOUS
<1>2. a + n - a = n
  OBVIOUS
<1>3. q = [i \in 1 .. n |-> a + i]
  BY <1>1, <1>2 DEF Interval
<1>4. q \in Seq(Nat) /\ Len(q) = n
  BY <1>3
<1>5. s \in [1 .. n -> Nat]
  BY LenProperties
<1>6. s \in Seq(Nat)
  BY <1>5
<1>7. \A i \in 1 .. Len(s) : s[i] = q[i]
  BY <1>3
<1> QED BY <1>1, <1>4, <1>6, <1>7, SeqEqual

LEMMA NumbersOf ==
  ASSUME NEW s, s \in Seq(Range(s)), NEW a \in Nat, \A i \in 1 .. Len(s) : s[i].number = a + i
  PROVE  /\ Numbers(s) \in Seq(Nat) /\ Len(Numbers(s)) = Len(s)
         /\ \A i \in 1 .. Len(s) : Numbers(s)[i] = a + i
<1>1. PICK n \in Nat : n = Len(s) /\ DOMAIN s = 1 .. n
  BY LenProperties
<1>2. Numbers(s) = [i \in 1 .. n |-> s[i].number]
  BY <1>1 DEF Numbers
<1>3. \A i \in 1 .. n : s[i].number = a + i
  BY <1>1
<1>4. Numbers(s) \in [1 .. n -> Nat]
  BY <1>2, <1>3
<1>5. Numbers(s) \in Seq(Nat) /\ Len(Numbers(s)) = n
  BY <1>4
<1> QED BY <1>1, <1>2, <1>3, <1>5

LEMMA OrderKept == EventInv => EventsInOrder
<1> SUFFICES ASSUME EventInv, NEW id \in Ids,
                    NEW waiting, waiting = IF batch[id] = None THEN <<>>
                                           ELSE Numbers(SubSeq(store[batch[id]], 1, size[id]))
             PROVE  /\ Collected(id) = {} => waiting = Interval(handed[id], written[id])
                    /\ \A k \in Collected(id) :
                         Numbers(buffer[k].events) \o waiting = Interval(handed[id], written[id])
  BY DEF EventsInOrder
<1>1. /\ handed[id] \in Nat /\ written[id] \in Nat /\ size[id] \in Nat
      /\ (batch[id] = None <=> size[id] = 0)
  BY BatchSizeAssumption DEF EventInv, DataInv, NumbersKept, BatchesPlaced
<1>2. PICK a \in Nat : a = written[id] - size[id]
  <2>1. CASE Collected(id) = {}
    <3>1. written[id] = handed[id] + size[id]
      BY <2>1 DEF EventInv, DataInv, NumbersKept
    <3> QED BY <1>1, <3>1
  <2>2. CASE Collected(id) # {}
    <3>1. PICK k \in Collected(id) : TRUE
      BY <2>2
    <3>2. PICK l : l = Len(buffer[k].events)
      OBVIOUS
    <3>3. l \in Nat
      BY <3>1, <3>2, LenProperties DEF EventInv, DataInv, BufferKept, Collected
    <3>4. written[id] = handed[id] + l + size[id]
      BY <3>1, <3>2 DEF EventInv, DataInv, NumbersKept
    <3> QED BY <1>1, <3>3, <3>4
  <2> QED BY <2>1, <2>2
<1>3. /\ waiting \in Seq(Nat) /\ Len(waiting) = size[id]
      /\ \A i \in 1 .. size[id] : waiting[i] = a + i
  <2>1. CASE batch[id] = None
    BY <1>1, <2>1, EmptySeq
  <2>2. CASE batch[id] # None
    <3>1. PICK b \in Batches : b = batch[id]
      BY <2>2 DEF EventInv, DataInv, BatchesPlaced
    <3>2. PICK s : s = store[b]
      OBVIOUS
    <3>3. s \in Seq(Range(s)) /\ Len(s) = size[id]
      BY <2>2, <3>1, <3>2 DEF EventInv, DataInv, BatchesPlaced
    <3>4. \A i \in 1 .. size[id] : s[i].number = a + i
      BY <1>2, <2>2, <3>1, <3>2 DEF EventInv, DataInv, NumbersKept
    <3>5. PICK e : e = SubSeq(s, 1, size[id])
      OBVIOUS
    <3>6. e \in Seq(Range(s)) /\ Len(e) = size[id] /\ \A i \in 1 .. size[id] : e[i] = s[i]
      BY <1>1, <3>3, <3>5, PrefixOf
    <3>7. e \in Seq(Range(e))
      BY <3>6, SeqOfItsRange
    <3>8. \A i \in 1 .. Len(e) : e[i].number = a + i
      BY <3>4, <3>6
    <3>9. waiting = Numbers(e)
      BY <2>2, <3>1, <3>2, <3>5
    <3>10. Numbers(e) \in Seq(Nat) /\ Len(Numbers(e)) = Len(e)
           /\ \A i \in 1 .. Len(e) : Numbers(e)[i] = a + i
      BY <3>7, <3>8, NumbersOf
    <3> QED BY <3>6, <3>9, <3>10
  <2> QED BY <2>1, <2>2
<1>4. ASSUME Collected(id) = {}
      PROVE  waiting = Interval(handed[id], written[id])
  <2>1. written[id] = handed[id] + size[id]
    BY <1>4 DEF EventInv, DataInv, NumbersKept
  <2>2. a = handed[id] /\ written[id] = a + size[id]
    BY <1>1, <1>2, <2>1
  <2>3. waiting \in Seq(Range(waiting))
    BY <1>3, SeqOfItsRange
  <2>4. waiting = Interval(a, a + size[id])
    BY <1>1, <1>3, <2>3, IntervalEqual
  <2> QED BY <2>2, <2>4
<1>5. ASSUME NEW k \in Collected(id)
      PROVE  Numbers(buffer[k].events) \o waiting = Interval(handed[id], written[id])
  <2>1. PICK e : e = buffer[k].events
    OBVIOUS
  <2>2. e \in Seq(Range(e)) /\ \A i \in DOMAIN e : e[i].number = handed[id] + i
    BY <1>5, <2>1 DEF EventInv, DataInv, BufferKept, Collected
  <2>3. PICK n \in Nat : n = Len(e) /\ DOMAIN e = 1 .. n
    BY <2>2, LenProperties
  <2>4. written[id] = handed[id] + n + size[id]
    BY <1>5, <2>1, <2>3 DEF EventInv, DataInv, NumbersKept
  <2>5. a = handed[id] + n
    BY <1>1, <1>2, <2>3, <2>4
  <2>6. PICK r : r = Numbers(e)
    OBVIOUS
  <2>7. r \in Seq(Nat) /\ Len(r) = n /\ \A i \in 1 .. n : r[i] = handed[id] + i
    <3>1. handed[id] \in Nat /\ \A i \in 1 .. Len(e) : e[i].number = handed[id] + i
      BY <1>1, <2>2, <2>3
    <3>2. /\ Numbers(e) \in Seq(Nat) /\ Len(Numbers(e)) = Len(e)
          /\ \A i \in 1 .. Len(e) : Numbers(e)[i] = handed[id] + i
      BY <2>2, <3>1, NumbersOf
    <3> QED BY <2>3, <2>6, <3>2
  <2>8. PICK q : q = r \o waiting
    OBVIOUS
  <2>9. /\ q \in Seq(Nat) /\ Len(q) = n + size[id]
        /\ \A i \in 1 .. n + size[id] : q[i] = IF i <= n THEN r[i] ELSE waiting[i - n]
    <3>1. PICK m \in Nat : m = size[id]
      BY <1>1
    <3>2. waiting \in Seq(Nat) /\ Len(waiting) = m
      BY <1>3, <3>1
    <3>3. /\ q \in Seq(Nat) /\ Len(q) = n + m
          /\ \A i \in 1 .. n + m : q[i] = IF i <= n THEN r[i] ELSE waiting[i - n]
      BY <2>7, <2>8, <3>2, ConcatOf
    <3> QED BY <3>1, <3>3
  <2>10. \A i \in 1 .. n + size[id] : q[i] = handed[id] + i
    <3> TAKE i \in 1 .. n + size[id]
    <3>1. CASE i <= n
      BY <2>3, <2>7, <2>9, <3>1
    <3>2. CASE ~(i <= n)
      <4>a. PICK m \in Nat, c \in Nat : m = size[id] /\ c = handed[id]
        BY <1>1
      <4>b. n \in Nat /\ m \in Nat /\ c \in Nat
        BY <2>3
      <4>d. i \in Nat /\ i <= n + m /\ i > n
        BY <3>2, <4>a, <4>b
      <4>c. i - n \in 1 .. m /\ (c + n) + (i - n) = c + i
        BY <4>b, <4>d
      <4>1. i - n \in 1 .. size[id] /\ a + (i - n) = handed[id] + i
        BY <2>5, <4>a, <4>c
      <4> QED BY <1>3, <2>9, <3>2, <4>1
    <3> QED BY <3>1, <3>2
  <2>11. q \in Seq(Range(q)) /\ n + size[id] \in Nat
    BY <1>1, <2>3, <2>9, SeqOfItsRange
  <2>12. q = Interval(handed[id], handed[id] + (n + size[id]))
    BY <1>1, <2>9, <2>10, <2>11, IntervalEqual
  <2>13. handed[id] + (n + size[id]) = written[id]
    BY <1>1, <2>3, <2>4
  <2> QED BY <2>1, <2>6, <2>8, <2>12, <2>13
<1> QED BY <1>4, <1>5

\* Events reach the first stage of their pipeline in the order they were written in,
\* and none is missed or handed over twice (event.c:337, :431-443).
THEOREM EventsStayInOrder == Spec => []EventsInOrder
BY OrderKept, EventInvariant, PTL

----------------------------------------------------------------------------
(* The windows *)

\* The ids of windows are given out without repetition.
MapOK(m) ==
  /\ m = [reference |-> m.reference, count |-> m.count]
  /\ m.reference \in [1 .. WindowCount -> WindowIds]
  /\ \A i, k \in 1 .. WindowCount : m.reference[i] = m.reference[k] => i = k
  /\ m.count \in 0 .. WindowCount

EventsListed == \A k \in DOMAIN buffer : buffer[k].events \in Seq(Range(buffer[k].events))

WindowInv == MapOK(mapping) /\ broken \subseteq windows /\ EventsListed

LEMMA RemovedOne ==
  ASSUME NEW m, MapOK(m), NEW w \in mapped(m)
  PROVE  MapOK(idMappingRemove(m, w)) /\ mapped(idMappingRemove(m, w)) = mapped(m) \ {w}
<1>1. PICK c : c = m.count
  OBVIOUS
<1>2. PICK r : r = m.reference
  OBVIOUS
<1>3. /\ WindowCount \in Nat /\ c \in 0 .. WindowCount /\ r \in [1 .. WindowCount -> WindowIds]
      /\ \A i, k \in 1 .. WindowCount : r[i] = r[k] => i = k
      /\ mapped(m) = {r[i] : i \in 1 .. c}
  BY <1>1, <1>2, WindowCountAssumption DEF MapOK, mapped
<1>4. PICK j : j = CHOOSE i \in 1 .. c : r[i] = w
  OBVIOUS
<1>5. j \in 1 .. c /\ r[j] = w
  BY <1>3, <1>4
<1>6. PICK q : q = [r EXCEPT ![j] = r[c], ![c] = w]
  OBVIOUS
<1>7. idMappingRemove(m, w) = [reference |-> q, count |-> c - 1]
  BY <1>1, <1>2, <1>4, <1>6 DEF idMappingRemove
<1>8. c \in 1 .. WindowCount /\ j \in 1 .. WindowCount /\ 1 .. c \subseteq 1 .. WindowCount
      /\ c - 1 \in 0 .. WindowCount
  BY <1>3, <1>5
<1>9. /\ q \in [1 .. WindowCount -> WindowIds] /\ q[c] = w
      /\ j # c => q[j] = r[c]
      /\ \A i \in 1 .. WindowCount : i # j /\ i # c => q[i] = r[i]
  BY <1>3, <1>5, <1>6, <1>8
<1>10. \A i, k \in 1 .. WindowCount : q[i] = q[k] => i = k
  BY <1>3, <1>5, <1>8, <1>9
<1>11. {q[i] : i \in 1 .. c - 1} = {r[i] : i \in 1 .. c} \ {w}
  <2>1. ASSUME NEW i \in 1 .. c - 1
        PROVE  q[i] \in {r[k] : k \in 1 .. c} \ {w}
    <3>1. i \in 1 .. c /\ i # c /\ i \in 1 .. WindowCount
      BY <1>8
    <3>2. CASE i = j
      <4>1. q[i] = r[c] /\ c \in 1 .. c
        BY <1>8, <1>9, <3>1, <3>2
      <4>2. r[c] # w
        BY <1>3, <1>5, <1>8, <3>1, <3>2
      <4> QED BY <4>1, <4>2
    <3>3. CASE i # j
      <4>1. q[i] = r[i]
        BY <1>9, <3>1, <3>3
      <4>2. r[i] # w
        BY <1>3, <1>5, <1>8, <3>1, <3>3
      <4> QED BY <3>1, <4>1, <4>2
    <3> QED BY <3>2, <3>3
  <2>2. ASSUME NEW i \in 1 .. c, r[i] # w
        PROVE  r[i] \in {q[k] : k \in 1 .. c - 1}
    <3>1. i # j
      BY <1>5, <2>2
    <3>2. CASE i = c
      <4>1. j \in 1 .. c - 1 /\ q[j] = r[i]
        BY <1>5, <1>8, <1>9, <3>1, <3>2
      <4> QED BY <4>1
    <3>3. CASE i # c
      <4>1. i \in 1 .. c - 1 /\ q[i] = r[i]
        BY <1>8, <1>9, <3>1, <3>3
      <4> QED BY <4>1
    <3> QED BY <3>2, <3>3
  <2> QED BY <2>1, <2>2
<1>12. PICK s : s = idMappingRemove(m, w)
  OBVIOUS
<1>13. s.reference = q /\ s.count = c - 1 /\ s = [reference |-> s.reference, count |-> s.count]
  BY <1>7, <1>12
<1>14. MapOK(s)
  BY <1>8, <1>9, <1>10, <1>13 DEF MapOK
<1>15. mapped(s) = {q[i] : i \in 1 .. c - 1}
  BY <1>13 DEF mapped
<1> QED BY <1>3, <1>11, <1>12, <1>14, <1>15

\* The natural numbers of a set that is not empty have a least one.
LEMMA LeastNumber ==
  ASSUME NEW S, S \subseteq Nat, S # {}
  PROVE  \E p \in S : \A u \in S : p <= u
<1>1. PICK p \in S : \A u \in S : <<u, p>> \notin OpToRel(<, Nat)
  BY WFMin, NatLessThanWellFounded
<1>2. \A u \in S : ~(u < p)
  BY <1>1 DEF OpToRel
<1> QED BY <1>2

\* What is true of 0, and of a number that follows one of which it is true.
LEMMA ByInduction ==
  ASSUME NEW T, 0 \in T, \A n \in Nat : n \in T => n + 1 \in T
  PROVE  Nat \subseteq T
<1> SUFFICES ASSUME Nat \ T # {}
             PROVE  FALSE
  OBVIOUS
<1>1. PICK p \in Nat \ T : \A u \in Nat \ T : p <= u
  BY LeastNumber
<1>2. p # 0 /\ p - 1 \in Nat /\ (p - 1) + 1 = p
  BY <1>1
<1>3. p - 1 \in T
  BY <1>1, <1>2
<1> QED BY <1>1, <1>2, <1>3

----------------------------------------------------------------------------
(* Destroying windows *)

\* f is what Destroy has done after each of the first n ids.
DestroyedUpTo(f, ids, n) ==
  f = [k \in 0 .. n |-> IF k = 0 THEN [mapping |-> mapping, fired |-> <<>>]
                        ELSE destroyed(f[k - 1], ids[k])]

LEMMA DestroyedExists ==
  ASSUME NEW ids, NEW N \in Nat
  PROVE  \E f : DestroyedUpTo(f, ids, N)
<1>1. PICK T : T = {n \in Nat : \E f : DestroyedUpTo(f, ids, n)}
  OBVIOUS
<1>2. 0 \in T
  <2>1. PICK base : base = [mapping |-> mapping, fired |-> <<>>]
    OBVIOUS
  <2>2. PICK f : f = [k \in 0 .. 0 |-> base]
    OBVIOUS
  <2>3. f = [k \in 0 .. 0 |-> IF k = 0 THEN base ELSE destroyed(f[k - 1], ids[k])]
    BY <2>2
  <2> QED BY <1>1, <2>1, <2>3 DEF DestroyedUpTo
<1>3. ASSUME NEW n \in Nat, n \in T
      PROVE  n + 1 \in T
  <2>1. PICK f : DestroyedUpTo(f, ids, n)
    BY <1>1, <1>3
  <2>2. PICK base : base = [mapping |-> mapping, fired |-> <<>>]
    OBVIOUS
  <2>3. PICK last : last = destroyed(f[n], ids[n + 1])
    OBVIOUS
  <2>4. PICK g : g = [k \in 0 .. n + 1 |-> IF k = n + 1 THEN last ELSE f[k]]
    OBVIOUS
  <2>5. f = [k \in 0 .. n |-> IF k = 0 THEN base ELSE destroyed(f[k - 1], ids[k])]
    BY <2>1, <2>2 DEF DestroyedUpTo
  <2>6. ASSUME NEW k \in 0 .. n + 1
        PROVE  g[k] = IF k = 0 THEN base ELSE destroyed(g[k - 1], ids[k])
    <3>1. CASE k = n + 1
      <4>1. k # 0 /\ k - 1 = n /\ n \in 0 .. n + 1 /\ n # n + 1
        BY <3>1
      <4>2. g[k - 1] = f[n] /\ g[k] = last
        BY <2>4, <3>1, <4>1
      <4> QED BY <2>3, <3>1, <4>1, <4>2
    <3>2. CASE k # n + 1 /\ k # 0
      <4>1. k \in 0 .. n /\ k - 1 \in 0 .. n /\ k - 1 # n + 1 /\ k - 1 \in 0 .. n + 1
        BY <3>2
      <4>2. g[k] = f[k] /\ g[k - 1] = f[k - 1]
        BY <2>4, <3>2, <4>1
      <4>3. f[k] = destroyed(f[k - 1], ids[k])
        BY <2>5, <3>2, <4>1
      <4> QED BY <3>2, <4>2, <4>3
    <3>3. CASE k # n + 1 /\ k = 0
      <4>1. 0 \in 0 .. n
        OBVIOUS
      <4>2. f[0] = base
        BY <2>5, <4>1
      <4> QED BY <2>4, <3>3, <4>2
    <3> QED BY <3>1, <3>2, <3>3
  <2>7. g = [k \in 0 .. n + 1 |-> IF k = 0 THEN base ELSE destroyed(g[k - 1], ids[k])]
    BY <2>4, <2>6
  <2>8. DestroyedUpTo(g, ids, n + 1)
    BY <2>2, <2>7 DEF DestroyedUpTo
  <2> QED BY <1>1, <2>8
<1>4. Nat \subseteq T
  BY <1>2, <1>3, ByInduction
<1> QED BY <1>1, <1>4

LEMMA DestroyIs ==
  ASSUME NEW ids, NEW N \in Nat, N = Len(ids)
  PROVE  \E f : /\ f[0] = [mapping |-> mapping, fired |-> <<>>]
                /\ \A k \in 1 .. N : f[k] = destroyed(f[k - 1], ids[k])
                /\ Destroy(ids) = f[N]
<1>1. PICK f : f = CHOOSE h : h = [n \in 0 .. Len(ids) |->
                   IF n = 0 THEN [mapping |-> mapping, fired |-> <<>>]
                   ELSE destroyed(h[n - 1], ids[n])]
  OBVIOUS
<1>2. Destroy(ids) = f[Len(ids)]
  BY <1>1 DEF Destroy
<1>3. PICK e : DestroyedUpTo(e, ids, N)
  BY DestroyedExists
<1>4. f = [n \in 0 .. Len(ids) |-> IF n = 0 THEN [mapping |-> mapping, fired |-> <<>>]
                                   ELSE destroyed(f[n - 1], ids[n])]
  BY <1>1, <1>3 DEF DestroyedUpTo
<1>5. f[0] = [mapping |-> mapping, fired |-> <<>>]
  <2>1. 0 \in 0 .. Len(ids)
    OBVIOUS
  <2> QED BY <1>4, <2>1
<1>6. \A k \in 1 .. N : f[k] = destroyed(f[k - 1], ids[k])
  <2> TAKE k \in 1 .. N
  <2>1. k \in 0 .. Len(ids) /\ k # 0
    OBVIOUS
  <2> QED BY <1>4, <2>1
<1> QED BY <1>2, <1>5, <1>6

\* Destroying windows keeps the mapping what it is.
LEMMA DestroyKeeps ==
  ASSUME MapOK(mapping), NEW ids, NEW N \in Nat, N = Len(ids)
  PROVE  MapOK(Destroy(ids).mapping)
<1>1. PICK f : /\ f[0] = [mapping |-> mapping, fired |-> <<>>]
               /\ \A k \in 1 .. N : f[k] = destroyed(f[k - 1], ids[k])
               /\ Destroy(ids) = f[N]
  BY DestroyIs
<1>2. PICK T : T = {n \in Nat : n <= N => MapOK(f[n].mapping)}
  OBVIOUS
<1>3. 0 \in T
  <2>1. f[0].mapping = mapping
    BY <1>1
  <2> QED BY <1>2, <2>1
<1>4. ASSUME NEW n \in Nat, n \in T
      PROVE  n + 1 \in T
  <2> SUFFICES ASSUME n + 1 <= N
               PROVE  MapOK(f[n + 1].mapping)
    BY <1>2
  <2>1. MapOK(f[n].mapping) /\ n + 1 \in 1 .. N /\ (n + 1) - 1 = n
    BY <1>2, <1>4
  <2>2. PICK w : w = ids[n + 1]
    OBVIOUS
  <2>3. f[n + 1] = destroyed(f[n], w)
    BY <1>1, <2>1, <2>2
  <2>4. CASE w \notin mapped(f[n].mapping)
    BY <2>1, <2>3, <2>4 DEF destroyed
  <2>5. CASE w \in mapped(f[n].mapping)
    <3>1. f[n + 1].mapping = idMappingRemove(f[n].mapping, w)
      BY <2>3, <2>5 DEF destroyed
    <3> QED BY <2>1, <2>5, <3>1, RemovedOne
  <2> QED BY <2>4, <2>5
<1>5. Nat \subseteq T
  BY <1>3, <1>4, ByInduction
<1> QED BY <1>1, <1>2, <1>5

\* Destroying one window that there is takes it out.
LEMMA DestroyOne ==
  ASSUME MapOK(mapping), NEW w \in windows
  PROVE  MapOK(Destroy(<<w>>).mapping) /\ mapped(Destroy(<<w>>).mapping) = windows \ {w}
<1>1. Len(<<w>>) = 1 /\ <<w>>[1] = w /\ 1 \in Nat
  OBVIOUS
<1>2. PICK f : /\ f[0] = [mapping |-> mapping, fired |-> <<>>]
               /\ \A k \in 1 .. 1 : f[k] = destroyed(f[k - 1], <<w>>[k])
               /\ Destroy(<<w>>) = f[1]
  BY <1>1, DestroyIs
<1>3. f[1] = destroyed(f[0], w)
  <2>1. 1 \in 1 .. 1 /\ 1 - 1 = 0
    OBVIOUS
  <2> QED BY <1>1, <1>2, <2>1
<1>4. f[0].mapping = mapping
  BY <1>2
<1>5. f[1].mapping = idMappingRemove(mapping, w)
  BY <1>3, <1>4 DEF destroyed, windows
<1> QED BY <1>2, <1>5, RemovedOne DEF windows

----------------------------------------------------------------------------
(* What a stage leaves *)

\* f is what sifted has done after each of the first n events.
SiftedUpTo(f, d, events, n) ==
  f = [k \in 0 .. n |-> IF k = 0 THEN [events |-> events, count |-> 0, reroute |-> d.reroute]
                        ELSE siftOne(d.id, f[k - 1], k)]

LEMMA SiftedExists ==
  ASSUME NEW d, NEW events, NEW N \in Nat
  PROVE  \E f : SiftedUpTo(f, d, events, N)
<1>1. PICK T : T = {n \in Nat : \E f : SiftedUpTo(f, d, events, n)}
  OBVIOUS
<1>b. PICK base : base = [events |-> events, count |-> 0, reroute |-> d.reroute]
  OBVIOUS
<1>2. 0 \in T
  <2>2. PICK f : f = [k \in 0 .. 0 |-> base]
    OBVIOUS
  <2>3. f = [k \in 0 .. 0 |-> IF k = 0 THEN base ELSE siftOne(d.id, f[k - 1], k)]
    BY <2>2
  <2> QED BY <1>1, <1>b, <2>3 DEF SiftedUpTo
<1>3. ASSUME NEW n \in Nat, n \in T
      PROVE  n + 1 \in T
  <2>1. PICK f : SiftedUpTo(f, d, events, n)
    BY <1>1, <1>3
  <2>3. PICK last : last = siftOne(d.id, f[n], n + 1)
    OBVIOUS
  <2>4. PICK g : g = [k \in 0 .. n + 1 |-> IF k = n + 1 THEN last ELSE f[k]]
    OBVIOUS
  <2>5. f = [k \in 0 .. n |-> IF k = 0 THEN base ELSE siftOne(d.id, f[k - 1], k)]
    BY <2>1, <1>b DEF SiftedUpTo
  <2>6. ASSUME NEW k \in 0 .. n + 1
        PROVE  g[k] = IF k = 0 THEN base ELSE siftOne(d.id, g[k - 1], k)
    <3>1. CASE k = n + 1
      <4>1. k # 0 /\ k - 1 = n /\ n \in 0 .. n + 1 /\ n # n + 1
        BY <3>1
      <4>2. g[k - 1] = f[n] /\ g[k] = last
        BY <2>4, <3>1, <4>1
      <4> QED BY <2>3, <3>1, <4>1, <4>2
    <3>2. CASE k # n + 1 /\ k # 0
      <4>1. k \in 0 .. n /\ k - 1 \in 0 .. n /\ k - 1 # n + 1 /\ k - 1 \in 0 .. n + 1
        BY <3>2
      <4>2. g[k] = f[k] /\ g[k - 1] = f[k - 1]
        BY <2>4, <3>2, <4>1
      <4>3. f[k] = siftOne(d.id, f[k - 1], k)
        BY <2>5, <3>2, <4>1
      <4> QED BY <3>2, <4>2, <4>3
    <3>3. CASE k # n + 1 /\ k = 0
      <4>1. 0 \in 0 .. n
        OBVIOUS
      <4>2. f[0] = base
        BY <2>5, <4>1
      <4> QED BY <2>4, <3>3, <4>2
    <3> QED BY <3>1, <3>2, <3>3
  <2>7. g = [k \in 0 .. n + 1 |-> IF k = 0 THEN base ELSE siftOne(d.id, g[k - 1], k)]
    BY <2>4, <2>6
  <2>8. SiftedUpTo(g, d, events, n + 1)
    BY <1>b, <2>7 DEF SiftedUpTo
  <2> QED BY <1>1, <2>8
<1>4. Nat \subseteq T
  BY <1>2, <1>3, ByInduction
<1> QED BY <1>1, <1>4

LEMMA SiftedIs ==
  ASSUME NEW d, NEW events, NEW N \in Nat, N = Len(events)
  PROVE  \E f : /\ f[0] = [events |-> events, count |-> 0, reroute |-> d.reroute]
                /\ \A k \in 1 .. N : f[k] = siftOne(d.id, f[k - 1], k)
                /\ sifted(d, events) = f[N]
<1>1. PICK f : f = CHOOSE h : h = [n \in 0 .. Len(events) |->
                   IF n = 0 THEN [events |-> events, count |-> 0, reroute |-> d.reroute]
                   ELSE siftOne(d.id, h[n - 1], n)]
  OBVIOUS
<1>2. sifted(d, events) = f[Len(events)]
  BY <1>1 DEF sifted
<1>3. PICK e : SiftedUpTo(e, d, events, N)
  BY SiftedExists
<1>4. f = [n \in 0 .. Len(events) |-> IF n = 0 THEN [events |-> events, count |-> 0, reroute |-> d.reroute]
                                      ELSE siftOne(d.id, f[n - 1], n)]
  BY <1>1, <1>3 DEF SiftedUpTo
<1>5. f[0] = [events |-> events, count |-> 0, reroute |-> d.reroute]
  <2>1. 0 \in 0 .. Len(events)
    OBVIOUS
  <2> QED BY <1>4, <2>1
<1>6. \A k \in 1 .. N : f[k] = siftOne(d.id, f[k - 1], k)
  <2> TAKE k \in 1 .. N
  <2>1. k \in 0 .. Len(events) /\ k # 0
    OBVIOUS
  <2> QED BY <1>4, <2>1
<1> QED BY <1>2, <1>5, <1>6

\* The first n of anything are a sequence.
LEMMA FirstListed ==
  ASSUME NEW s, NEW n \in Nat
  PROVE  SubSeq(s, 1, n) \in Seq(Range(SubSeq(s, 1, n)))
<1>1. PICK S : S = {s[i] : i \in 1 .. n}
  OBVIOUS
<1>2. \A i \in 1 .. n : s[i] \in S
  BY <1>1
<1>3. SubSeq(s, 1, n) \in Seq(S)
  BY <1>2, SubSeqProperties
<1> QED BY <1>3, SeqOfItsRange

\* A stage leaves a sequence of events.
LEMMA SiftListed ==
  ASSUME NEW d, NEW events, NEW N \in Nat, N = Len(events)
  PROVE  Sift(d, events).events \in Seq(Range(Sift(d, events).events))
<1>1. PICK f : /\ f[0] = [events |-> events, count |-> 0, reroute |-> d.reroute]
               /\ \A k \in 1 .. N : f[k] = siftOne(d.id, f[k - 1], k)
               /\ sifted(d, events) = f[N]
  BY SiftedIs
<1>2. PICK Fields : Fields = {"events", "count", "reroute"}
  OBVIOUS
<1>3. PICK T : T = {n \in Nat : n <= N => DOMAIN f[n] = Fields /\ f[n].count \in Nat}
  OBVIOUS
<1>4. 0 \in T
  <2>1. DOMAIN f[0] = Fields /\ f[0].count = 0
    BY <1>1, <1>2
  <2> QED BY <1>3, <2>1
<1>5. ASSUME NEW n \in Nat, n \in T
      PROVE  n + 1 \in T
  <2> SUFFICES ASSUME n + 1 <= N
               PROVE  DOMAIN f[n + 1] = Fields /\ f[n + 1].count \in Nat
    BY <1>3
  <2>1. DOMAIN f[n] = Fields /\ f[n].count \in Nat /\ n + 1 \in 1 .. N /\ (n + 1) - 1 = n
    BY <1>3, <1>5
  <2>2. PICK acc : acc = f[n]
    OBVIOUS
  <2>3. f[n + 1] = siftOne(d.id, acc, n + 1)
    BY <1>1, <2>1, <2>2
  <2>4. DOMAIN acc = Fields /\ acc.count \in Nat /\ "count" \in Fields
    BY <1>2, <2>1, <2>2
  <2>5. \/ f[n + 1] = acc
        \/ f[n + 1] = [acc EXCEPT !.reroute = Append(acc.reroute, acc.events[n + 1])]
        \/ f[n + 1] = [acc EXCEPT !.events[acc.count + 1] = acc.events[n + 1], !.count = acc.count + 1]
    BY <2>3 DEF siftOne
  <2>6. CASE f[n + 1] = acc
    BY <2>4, <2>6
  <2>7. CASE f[n + 1] = [acc EXCEPT !.reroute = Append(acc.reroute, acc.events[n + 1])]
    BY <1>2, <2>4, <2>7
  <2>8. CASE f[n + 1] = [acc EXCEPT !.events[acc.count + 1] = acc.events[n + 1],
                                    !.count = acc.count + 1]
    <3>1. PICK c \in Nat : c = acc.count + 1
      BY <2>4
    <3>2. PICK e : e = [acc.events EXCEPT ![acc.count + 1] = acc.events[n + 1]]
      OBVIOUS
    <3>4. f[n + 1] = [[acc EXCEPT !.events = e] EXCEPT !.count = c]
      BY <2>8, <3>1, <3>2
    <3> QED BY <1>2, <2>4, <3>1, <3>4
  <2> QED BY <2>5, <2>6, <2>7, <2>8
<1>6. Nat \subseteq T
  BY <1>4, <1>5, ByInduction
<1>7. sifted(d, events).count \in Nat
  BY <1>1, <1>3, <1>6
<1>8. PICK e : e = SubSeq(sifted(d, events).events, 1, sifted(d, events).count)
  OBVIOUS
<1>9. e \in Seq(Range(e))
  BY <1>7, <1>8, FirstListed
<1>10. Sift(d, events).events = e
  BY <1>8 DEF Sift
<1> QED BY <1>9, <1>10

----------------------------------------------------------------------------
(* The windows, step by step *)

LEMMA WindowSame ==
  ASSUME WindowInv, UNCHANGED <<mapping, broken, buffer>>
  PROVE  WindowInv'
BY DEF WindowInv, MapOK, windows, mapped, EventsListed

LEMMA MappingSame ==
  ASSUME WindowInv, EventsListed', UNCHANGED <<mapping, broken>>
  PROVE  WindowInv'
BY DEF WindowInv, MapOK, windows, mapped

LEMMA WindowInvInit == Init => WindowInv
<1> SUFFICES ASSUME Init
             PROVE  WindowInv
  OBVIOUS
<1>1. PICK r : r = [i \in 1 .. WindowCount |-> i - 1]
  OBVIOUS
<1>2. r \in [1 .. WindowCount -> WindowIds] /\ \A i, k \in 1 .. WindowCount : r[i] = r[k] => i = k
  BY <1>1, WindowCountAssumption DEF WindowIds
<1>3. mapping = [reference |-> r, count |-> 0]
  BY <1>1 DEF Init
<1>4. 0 \in 0 .. WindowCount
  BY WindowCountAssumption
<1>5. mapping.reference = r /\ mapping.count = 0
      /\ mapping = [reference |-> mapping.reference, count |-> mapping.count]
  BY <1>3
<1>6. MapOK(mapping)
  BY <1>2, <1>4, <1>5 DEF MapOK
<1> QED BY <1>6 DEF Init, EventInit, WindowInv, EventsListed

\* A stage is called.
LEMMA CallListed ==
  ASSUME DataInv, EventsListed, NEW events, NEW fired, CallStage(events, fired),
         NEW N \in Nat, N = Len(events)
  PROVE  EventsListed'
<1>1. buffer # <<>> /\ buffer' = [buffer EXCEPT ![1] = Sift(buffer[1], events)]
  BY DEF CallStage, Dispatching
<1>2. DOMAIN buffer' = DOMAIN buffer /\ 1 \in DOMAIN buffer
  BY <1>1, TailOf DEF DataInv, BufferKept
<1>3. PICK d : d = Sift(buffer[1], events)
  OBVIOUS
<1>4. d.events \in Seq(Range(d.events))
  BY <1>3, SiftListed
<1>5. \A k \in DOMAIN buffer : buffer'[k] = IF k = 1 THEN d ELSE buffer[k]
  BY <1>1, <1>2, <1>3
<1> QED BY <1>2, <1>4, <1>5 DEF EventsListed

\* The events that are being dispatched can be counted.
LEMMA CurrentListed ==
  ASSUME DataInv, EventsListed, Dispatching
  PROVE  \E n \in Nat : Len(current.events) = n /\ DOMAIN current.events = 1 .. n
<1>1. 1 \in DOMAIN buffer /\ current = buffer[1]
  BY TailOf DEF Dispatching, current, DataInv, BufferKept
<1>2. current.events \in Seq(Range(current.events))
  BY <1>1 DEF EventsListed
<1> QED BY <1>2, LenProperties

LEMMA CountedLen ==
  ASSUME NEW n \in Nat, NEW s, DOMAIN s = 1 .. n, s = [i \in DOMAIN s |-> s[i]]
  PROVE  Len(s) = n
<1>1. s \in [1 .. n -> Range(s)]
  BY DEF Range
<1>2. s \in Seq(Range(s))
  BY <1>1
<1> QED BY <1>2, LenProperties

\* Every stage is called with as many events as there are.
LEMMA StageCalls ==
  ASSUME StageStep
  PROVE  \E events, fired : /\ CallStage(events, fired)
                            /\ \/ events = current.events
                               \/ /\ DOMAIN events = DOMAIN current.events
                                  /\ events = [i \in DOMAIN events |-> events[i]]
<1>1. CASE windowRequestCloseEvent \/ allWindowsClosedEvent \/ engineOnResized
  BY <1>1 DEF windowRequestCloseEvent, allWindowsClosedEvent, engineOnResized
<1>2. CASE engineOnEvent
  <2>1. PICK events : events = [i \in DOMAIN current.events |->
                 [current.events[i] EXCEPT !.consumed = @ \/ current.events[i].id = QUIT]]
    OBVIOUS
  <2>2. CallStage(events, <<>>)
    BY <1>2, <2>1 DEF engineOnEvent
  <2>3. DOMAIN events = DOMAIN current.events /\ events = [i \in DOMAIN events |-> events[i]]
    BY <2>1
  <2> QED BY <2>2, <2>3
<1>3. CASE AppStage
  <2>1. PICK consumed \in SUBSET DOMAIN current.events :
          LET events == [i \in DOMAIN current.events |->
                          [current.events[i] EXCEPT !.consumed = @ \/ i \in consumed]]
          IN \/ CallStage(events, <<>>)
             \/ \E i \in consumed, id \in PassedTo \ {current.id} :
                  CallStage([events EXCEPT ![i].id = id], <<>>)
    BY <1>3 DEF AppStage
  <2>2. PICK events : events = [i \in DOMAIN current.events |->
                          [current.events[i] EXCEPT !.consumed = @ \/ i \in consumed]]
    OBVIOUS
  <2>3. DOMAIN events = DOMAIN current.events /\ events = [i \in DOMAIN events |-> events[i]]
    BY <2>2
  <2>4. CASE CallStage(events, <<>>)
    BY <2>3, <2>4
  <2>5. ASSUME NEW i \in consumed, NEW id \in PassedTo \ {current.id},
               CallStage([events EXCEPT ![i].id = id], <<>>)
        PROVE  \E es, fired : /\ CallStage(es, fired)
                              /\ DOMAIN es = DOMAIN current.events
                              /\ es = [k \in DOMAIN es |-> es[k]]
    <3>1. PICK es : es = [events EXCEPT ![i].id = id]
      OBVIOUS
    <3>2. DOMAIN es = DOMAIN current.events /\ es = [k \in DOMAIN es |-> es[k]]
      BY <2>3, <3>1
    <3> QED BY <2>5, <3>1, <3>2
  <2>6. \/ CallStage(events, <<>>)
        \/ \E i \in consumed, id \in PassedTo \ {current.id} :
             CallStage([events EXCEPT ![i].id = id], <<>>)
    BY <2>1, <2>2
  <2> QED BY <2>4, <2>5, <2>6
<1> QED BY <1>1, <1>2, <1>3 DEF StageStep

LEMMA StageListed ==
  ASSUME DataInv, EventsListed, StageStep
  PROVE  EventsListed'
<1>1. PICK events, fired :
        /\ CallStage(events, fired)
        /\ \/ events = current.events
           \/ /\ DOMAIN events = DOMAIN current.events
              /\ events = [i \in DOMAIN events |-> events[i]]
  BY StageCalls
<1>2. PICK n \in Nat : Len(current.events) = n /\ DOMAIN current.events = 1 .. n
  BY <1>1, CurrentListed DEF CallStage
<1>3. Len(events) = n
  BY <1>1, <1>2, CountedLen
<1> QED BY <1>1, <1>3, CallListed

LEMMA CollectListed ==
  ASSUME DataInv, Collect
  PROVE  EventsListed'
<1>1. PICK ids \in pendingIds : buffer' = [i \in DOMAIN ids |-> taken(ids[i])]
  BY DEF Collect
<1>2. AllPending(ids)
  BY <1>1, PendingAll DEF DataInv
<1>3. \A i \in DOMAIN ids : ids[i] \in Ids
  BY <1>2, LenProperties DEF AllPending
<1>4. \A id \in Ids : size[id] \in Nat
  BY BatchSizeAssumption DEF DataInv, BatchesPlaced
<1>5. ASSUME NEW i \in DOMAIN ids
      PROVE  buffer'[i].events \in Seq(Range(buffer'[i].events))
  <2>1. PICK id \in Ids : id = ids[i]
    BY <1>3
  <2>2. PICK e : e = SubSeq(store[batch[id]], 1, size[id])
    OBVIOUS
  <2>3. e \in Seq(Range(e))
    BY <1>4, <2>2, FirstListed
  <2>4. PICK c : c = callOrder(sinks[id])
    OBVIOUS
  <2>5. buffer'[i] = [id |-> id, events |-> e, stages |-> c, fresh |-> TRUE, reroute |-> <<>>]
    BY <1>1, <2>1, <2>2, <2>4 DEF taken
  <2>6. buffer'[i].events = e
    BY <2>5
  <2> QED BY <2>3, <2>6
<1> QED BY <1>1, <1>5 DEF EventsListed

LEMMA RerouteListed ==
  ASSUME DataInv, EventsListed, Reroute
  PROVE  EventsListed'
<1>1. buffer # <<>> /\ buffer' = Tail(buffer) /\ buffer \in Seq(Range(buffer))
  BY DEF Reroute, Dispatching, DataInv, BufferKept
<1>2. \A i \in DOMAIN buffer' : buffer'[i] = buffer[i + 1] /\ i + 1 \in DOMAIN buffer
  BY <1>1, TailOf
<1> QED BY <1>2 DEF EventsListed

LEMMA WindowInvNext ==
  ASSUME EventInv, WindowInv, [Next]_vars
  PROVE  WindowInv'
<1>1. CASE UNCHANGED vars
  BY <1>1, WindowSame DEF vars, eventVars, dispatch, engine
<1>2. CASE MainFiresNext \/ PumpEvent \/ PumpDone \/ FrameDone \/ MainStuck \/ Joined
  BY <1>2, WindowSame DEF MainFiresNext, MainFires, PumpEvent, PumpDone, FrameDone, MainStuck,
                          Joined, eventVars, dispatch, engine
<1>3. CASE \E t \in Threads : JobFires(t) \/ FireGoesOn(t)
  BY <1>3, WindowSame DEF JobFires, FireBegin, FireGoesOn, FireStep, Write, Mark, dispatch, engine
<1>4. CASE \E id \in AppIds : AppRemoves(id)
  BY <1>4, WindowSame DEF AppRemoves, UnregisterSink, Relocate, dispatch
<1>5. CASE \E f \in Range(AppSinks), id \in AppIds : AppRegisters(f, id)
  <2>1. UNCHANGED <<mapping, broken>>
    BY <1>5 DEF AppRegisters
  <2>2. buffer' = buffer
    <3>1. PICK f \in Range(AppSinks), id \in AppIds : AppRegisters(f, id)
      BY <1>5
    <3>2. \/ \E place : RegisterSink(id, f, place)
          \/ \E before, after : RegisterSinkBetween(id, f, before, after)
      BY <3>1 DEF AppRegisters
    <3> QED BY <3>2 DEF RegisterSink, RegisterSinkBetween, Relocate, dispatch
  <2> QED BY <2>1, <2>2, WindowSame
<1>6. CASE Shutdown
  <2>1. mapping' = [mapping EXCEPT !.count = 0] /\ broken' = {} /\ buffer' = buffer
    BY <1>6 DEF Shutdown, eventVars, dispatch
  <2>2. PICK r : r = mapping.reference
    OBVIOUS
  <2>3. mapping' = [reference |-> r, count |-> 0]
    BY <2>1, <2>2 DEF WindowInv, MapOK
  <2>4. mapping'.reference = r /\ mapping'.count = 0
        /\ mapping' = [reference |-> mapping'.reference, count |-> mapping'.count]
    BY <2>3
  <2>5. 0 \in 0 .. WindowCount
    BY WindowCountAssumption
  <2>6. MapOK(mapping)'
    BY <2>2, <2>4, <2>5 DEF WindowInv, MapOK
  <2> QED BY <2>1, <2>6 DEF WindowInv, EventsListed
<1>7. CASE AppActs
  <2>1. buffer' = buffer
    BY <1>7 DEF AppActs, dispatch
  <2>2. EventsListed'
    BY <2>1 DEF WindowInv, EventsListed
  <2>3. ASSUME NEW opened \in BOOLEAN, WindowCreate(opened)
        PROVE  MapOK(mapping)' /\ (broken \subseteq windows)'
    <3>1. PICK r : r = mapping.reference
      OBVIOUS
    <3>2. PICK c : c = mapping.count
      OBVIOUS
    <3>3. c \in 0 .. WindowCount /\ c < WindowCount /\ WindowCount \in Nat
      BY <2>3, <3>2, WindowCountAssumption DEF WindowCreate, WindowInv, MapOK
    <3>4. mapping' = [reference |-> r, count |-> c + 1]
      BY <2>3, <3>1, <3>2 DEF WindowCreate, WindowInv, MapOK
    <3>5. mapping'.reference = r /\ mapping'.count = c + 1
          /\ mapping' = [reference |-> mapping'.reference, count |-> mapping'.count]
      BY <3>4
    <3>6. c + 1 \in 0 .. WindowCount /\ 1 .. c \subseteq 1 .. c + 1 /\ c + 1 \in 1 .. c + 1
      BY <3>3
    <3>7. MapOK(mapping)'
      BY <3>1, <3>5, <3>6 DEF WindowInv, MapOK
    <3>8. windows' = {r[i] : i \in 1 .. c + 1} /\ windows = {r[i] : i \in 1 .. c}
      BY <3>1, <3>2, <3>5 DEF windows, mapped
    <3>9. broken' \subseteq broken \cup {r[c + 1]}
      BY <2>3, <3>1, <3>2 DEF WindowCreate, newWindow
    <3> QED BY <3>6, <3>7, <3>8, <3>9 DEF WindowInv
  <2>4. ASSUME NEW w \in windows, mapping' = Destroy(<<w>>).mapping, broken' = broken \ {w}
        PROVE  MapOK(mapping)' /\ (broken \subseteq windows)'
    <3>1. MapOK(mapping') /\ mapped(mapping') = windows \ {w}
      BY <2>4, DestroyOne DEF WindowInv
    <3>2. MapOK(mapping)'
      BY <3>1 DEF MapOK
    <3>3. windows' = windows \ {w}
      BY <3>1 DEF windows, mapped
    <3> QED BY <2>4, <3>2, <3>3 DEF WindowInv
  <2>5. MapOK(mapping)' /\ (broken \subseteq windows)'
    BY <1>7, <2>3, <2>4 DEF AppActs
  <2> QED BY <2>2, <2>5 DEF WindowInv
<1>8. CASE MainDispatches
  <2>1. CASE Collect /\ UNCHANGED <<engine, fires>>
    BY <2>1, CollectListed, MappingSame DEF EventInv, engine
  <2>2. CASE Reroute /\ UNCHANGED <<engine, fires>>
    BY <2>2, RerouteListed, MappingSame DEF EventInv, WindowInv, engine
  <2>3. CASE (DispatchTest \/ DispatchReturn) /\ UNCHANGED <<engine, fires>>
    BY <2>3, WindowSame DEF DispatchTest, DispatchReturn, engine
  <2>4. CASE StageStep
    <3>1. EventsListed'
      BY <2>4, StageListed DEF EventInv, WindowInv
    <3>2. CASE allWindowsClosedEvent \/ engineOnEvent \/ engineOnResized \/ AppStage
      <4>1. UNCHANGED <<mapping, broken>>
        BY <3>2 DEF allWindowsClosedEvent, engineOnEvent, engineOnResized, AppStage, engine
      <4> QED BY <3>1, <4>1, MappingSame
    <3>3. CASE windowRequestCloseEvent
      <4>1. PICK ids : ids = [i \in DOMAIN current.events |-> current.events[i].arg]
        OBVIOUS
      <4>2. PICK n \in Nat : Len(current.events) = n /\ DOMAIN current.events = 1 .. n
        BY <2>4, CurrentListed DEF StageStep, EventInv, WindowInv
      <4>3. DOMAIN ids = 1 .. n /\ ids = [i \in DOMAIN ids |-> ids[i]]
        BY <4>1, <4>2
      <4>4. Len(ids) = n
        BY <4>3, CountedLen
      <4>5. mapping' = Destroy(ids).mapping /\ broken' = broken \cap mapped(Destroy(ids).mapping)
        BY <3>3, <4>1 DEF windowRequestCloseEvent
      <4>6. MapOK(mapping')
        BY <4>4, <4>5, DestroyKeeps DEF WindowInv
      <4>7. MapOK(mapping)'
        BY <4>6 DEF MapOK
      <4>8. (broken \subseteq windows)'
        BY <4>5 DEF windows, mapped
      <4> QED BY <3>1, <4>7, <4>8 DEF WindowInv
    <3> QED BY <2>4, <3>2, <3>3 DEF StageStep
  <2> QED BY <1>8, <2>1, <2>2, <2>3, <2>4 DEF MainDispatches, DispatchStep
<1> QED BY <1>1, <1>2, <1>3, <1>4, <1>5, <1>6, <1>7, <1>8 DEF Next, MainStep, AppSinkStep

\* The windows that are open are those mapped, each under an id of its own.
THEOREM WindowInvariant == Spec => []WindowInv
BY WindowInvInit, WindowInvNext, EventInvariant, PTL DEF Spec

----------------------------------------------------------------------------
(* Batches *)

LEMMA WindowsCounted ==
  ASSUME WindowInv
  PROVE  windows \subseteq WindowIds /\ Cardinality(windows) = mapping.count /\ broken \subseteq windows
<1>1. PICK r : r = mapping.reference
  OBVIOUS
<1>2. PICK c \in Nat : c = mapping.count /\ c <= WindowCount
  BY WindowCountAssumption DEF WindowInv, MapOK
<1>3. windows = {r[i] : i \in 1 .. c}
  BY <1>1, <1>2 DEF windows, mapped
<1>4. 1 .. c \subseteq 1 .. WindowCount
  BY <1>2, WindowCountAssumption
<1>5. PICK f : f = [i \in 1 .. c |-> r[i]]
  OBVIOUS
<1>6. f \in [1 .. c -> windows] /\ \A i \in 1 .. c : f[i] = r[i]
  BY <1>3, <1>5
<1>7. \A i, k \in 1 .. c : f[i] = f[k] => i = k
  BY <1>1, <1>4, <1>6 DEF WindowInv, MapOK
<1>8. \A w \in windows : \E i \in 1 .. c : f[i] = w
  BY <1>3, <1>6
<1>9. f \in Injection(1 .. c, windows)
  BY <1>6, <1>7 DEF Injection, IsInjective
<1>10. f \in Surjection(1 .. c, windows)
  BY <1>6, <1>8 DEF Surjection
<1>11. IsFiniteSet(1 .. c) /\ Cardinality(1 .. c) = c
  BY FS_Interval
<1>12. Cardinality(windows) = c
  BY <1>9, <1>10, <1>11, FS_Surjection
<1>13. windows \subseteq WindowIds
  <2>1. \A i \in 1 .. WindowCount : r[i] \in WindowIds
    BY <1>1 DEF WindowInv, MapOK
  <2> QED BY <1>3, <1>4, <2>1
<1> QED BY <1>2, <1>12, <1>13 DEF WindowInv

LEMMA TypesKept == EventInv /\ WindowInv => TypeOK
<1> SUFFICES ASSUME EventInv, WindowInv
             PROVE  TypeOK
  OBVIOUS
<1>1. batch \in [Ids -> Batches \cup {None}] /\ size \in [Ids -> 0 .. BatchSize]
  BY DEF EventInv, DataInv, BatchesPlaced
<1>2. \A b \in Batches : Len(store[b]) <= BatchSize
  <2> TAKE b \in Batches
  <2>1. CASE listed(b)
    <3>1. store[b] = <<>>
      BY <2>1 DEF EventInv, DataInv, BatchesPlaced
    <3> QED BY <3>1, BatchSizeAssumption
  <2>2. CASE ~listed(b)
    <3>1. PICK id \in Ids : batch[id] = b
      BY <2>2 DEF EventInv, DataInv, BatchesPlaced
    <3>2. b # None
      BY NoneAssumption DEF Batches
    <3>3. Len(store[b]) = size[id]
      BY <3>1, <3>2 DEF EventInv, DataInv, BatchesPlaced
    <3> QED BY <1>1, <3>3, BatchSizeAssumption
  <2> QED BY <2>1, <2>2
<1>3. windows \subseteq WindowIds /\ Cardinality(windows) = mapping.count /\ broken \subseteq windows
  BY WindowsCounted
<1>4. /\ eventsPending \in BOOLEAN /\ readers \subseteq Threads
      /\ pc \in [Threads -> {"idle", "write", "mark"}]
      /\ dispatching \in {"no", "collect", "stages", "returned"}
      /\ at \in {"initialize", "pump", "dispatch", "frame", "shutdown", "joining", "down", "stuck"}
      /\ \A t \in Threads : pc[t] # "idle" <=> t \in readers
  BY DEF EventInv, pointsKnown
<1> QED BY <1>1, <1>2, <1>3, <1>4 DEF TypeOK

LEMMA BatchesCounted == EventInv /\ WindowInv => BatchesConserved
<1> SUFFICES ASSUME EventInv, WindowInv
             PROVE  BatchesConserved
  OBVIOUS
<1>1. ASSUME NEW b \in Batches
      PROVE  Cardinality({i \in DOMAIN free : free[i] = b})
               + Cardinality({id \in Ids : batch[id] = b}) = 1
  <2>1. b # None
    BY NoneAssumption DEF Batches
  <2>2. CASE listed(b)
    <3>1. PICK k \in DOMAIN free : free[k] = b
      BY <2>2 DEF listed
    <3>2. {i \in DOMAIN free : free[i] = b} = {k}
      BY <3>1 DEF EventInv, DataInv, BatchesPlaced
    <3>3. {id \in Ids : batch[id] = b} = {}
      BY <2>2 DEF EventInv, DataInv, BatchesPlaced
    <3>4. Cardinality({k}) = 1 /\ Cardinality({}) = 0
      BY FS_Singleton, FS_EmptySet
    <3>5. Cardinality({i \in DOMAIN free : free[i] = b}) = 1
      BY <3>2, <3>4
    <3>6. Cardinality({id \in Ids : batch[id] = b}) = 0
      BY <3>3, <3>4
    <3> QED BY <3>5, <3>6
  <2>3. CASE ~listed(b)
    <3>1. PICK id \in Ids : batch[id] = b
      BY <2>3 DEF EventInv, DataInv, BatchesPlaced
    <3>2. {jd \in Ids : batch[jd] = b} = {id}
      BY <2>1, <3>1 DEF EventInv, DataInv, BatchesPlaced
    <3>3. {i \in DOMAIN free : free[i] = b} = {}
      BY <2>3 DEF listed
    <3>4. Cardinality({id}) = 1 /\ Cardinality({}) = 0
      BY FS_Singleton, FS_EmptySet
    <3> QED BY <3>2, <3>3, <3>4
  <2> QED BY <2>2, <2>3
<1>2. ASSUME ~exhausted
      PROVE  ~overlaid /\ \A id \in Ids : batch[id] # 0
  <2>1. ~overlaid /\ free # <<>> /\ free \in Seq(Batches) /\ free[Len(free)] = 0
    BY <1>2 DEF EventInv, DataInv, BatchesPlaced
  <2>2. Len(free) \in DOMAIN free
    BY <2>1, TailOf
  <2>3. listed(0) /\ 0 \in Batches
    BY <2>1, <2>2, ElementOfSeq, LenProperties DEF listed
  <2> QED BY <2>1, <2>3 DEF EventInv, DataInv, BatchesPlaced
<1>3. \A id \in Ids : batch[id] = None <=> size[id] = 0
  BY DEF EventInv, DataInv, BatchesPlaced
<1> QED BY <1>1, <1>2, <1>3, TypesKept DEF BatchesConserved

\* However many ids there are for a pool, every batch is free or belongs to one
\* pipeline, which has events; and until there is once no free batch, batch 0, under
\* whose events the links of the free list lie, is not handed out, and no link and no
\* event is written over the other (event.c:23-32, :310).
THEOREM PoolIsConserved == Spec => []BatchesConserved
BY BatchesCounted, EventInvariant, WindowInvariant, PTL
----------------------------------------------------------------------------
(* The stages of a pipeline *)

Names == Range(AppSinks) \cup EngineSinks

\* Every place in the order is one of stages; more may lie in stages.
Pipelines ==
  {p \in [stages : Seq(Names), order : Seq(Nat)] :
     /\ Len(p.order) <= Len(p.stages)
     /\ \A i \in DOMAIN p.order : p.order[i] < Len(p.stages)}

\* n elements of a sequence, from the one after its m-th.
Part(q, S, s, m, n) ==
  q \in Seq(S) /\ Len(q) = n /\ \A i \in 1 .. n : q[i] = s[m + i]

LEMMA PartOf ==
  ASSUME NEW S, NEW s \in Seq(S), NEW m \in Nat, NEW n \in Nat, m + n <= Len(s),
         NEW a, a = m + 1, NEW b, b = m + n
  PROVE  Part(SubSeq(s, a, b), S, s, m, n)
<1>1. PICK k \in Nat : k = Len(s)
  BY LenProperties
<1>2. a \in Int /\ b \in Int /\ b <= k
  BY <1>1
<1>3. \A i \in a .. b : s[i] \in S
  <2> SUFFICES ASSUME NEW i \in a .. b
               PROVE  s[i] \in S
    OBVIOUS
  <2>1. i \in 1 .. k
    BY <1>1, <1>2
  <2> QED BY <1>1, <2>1, ElementOfSeq
<1>4. PICK q : q = SubSeq(s, a, b)
  OBVIOUS
<1>5. q \in Seq(S) /\ Len(q) = IF a <= b THEN b - a + 1 ELSE 0
  BY <1>2, <1>3, <1>4, SubSeqProperties
<1>6. \A i \in 1 .. b - a + 1 : q[i] = s[a + i - 1]
  BY <1>2, <1>3, <1>4, SubSeqProperties
<1>7. (IF a <= b THEN b - a + 1 ELSE 0) = n /\ b - a + 1 = n
  OBVIOUS
<1>8. \A i \in 1 .. n : a + i - 1 = m + i
  OBVIOUS
<1>9. Part(q, S, s, m, n)
  BY <1>5, <1>6, <1>7, <1>8 DEF Part
<1> QED BY <1>4, <1>9

\* One sequence after another.
Joins(q, S, l, n, r, m) ==
  /\ q \in Seq(S) /\ Len(q) = n + m
  /\ \A i \in 1 .. n : q[i] = l[i]
  /\ \A i \in 1 .. m : q[n + i] = r[i]

LEMMA JoinsOf ==
  ASSUME NEW S, NEW l \in Seq(S), NEW r \in Seq(S), NEW n \in Nat, NEW m \in Nat,
         Len(l) = n, Len(r) = m
  PROVE  Joins(l \o r, S, l, n, r, m)
<1>1. PICK q : q = l \o r
  OBVIOUS
<1>2. q \in Seq(S) /\ Len(q) = n + m
        /\ \A i \in 1 .. n + m : q[i] = IF i <= n THEN l[i] ELSE r[i - n]
  BY <1>1, ConcatProperties
<1>3. \A i \in 1 .. n : q[i] = l[i]
  BY <1>2
<1>4. \A i \in 1 .. m : q[n + i] = r[i]
  <2> SUFFICES ASSUME NEW i \in 1 .. m
               PROVE  q[n + i] = r[i]
    OBVIOUS
  <2>1. n + i \in 1 .. n + m /\ ~(n + i <= n) /\ (n + i) - n = i
    OBVIOUS
  <2> QED BY <1>2, <2>1
<1>5. Joins(q, S, l, n, r, m)
  BY <1>2, <1>3, <1>4 DEF Joins
<1> QED BY <1>1, <1>5

\* One element between two sequences.
Spliced(q, S, l, n, e, r, m) ==
  /\ q \in Seq(S) /\ Len(q) = n + 1 + m
  /\ \A i \in 1 .. n : q[i] = l[i]
  /\ q[n + 1] = e
  /\ \A i \in 1 .. m : q[n + 1 + i] = r[i]

LEMMA SplicedOf ==
  ASSUME NEW S, NEW l \in Seq(S), NEW e \in S, NEW r \in Seq(S), NEW n \in Nat, NEW m \in Nat,
         Len(l) = n, Len(r) = m
  PROVE  Spliced(l \o <<e>> \o r, S, l, n, e, r, m)
<1>1. PICK d : d = <<e>>
  OBVIOUS
<1>2. d \in Seq(S) /\ Len(d) = 1 /\ d[1] = e
  BY <1>1
<1>3. PICK k : k = l \o d
  OBVIOUS
<1>4. Joins(k, S, l, n, d, 1)
  BY <1>2, <1>3, JoinsOf
<1>5. k \in Seq(S) /\ Len(k) = n + 1 /\ k[n + 1] = e /\ \A i \in 1 .. n : k[i] = l[i]
  BY <1>2, <1>4 DEF Joins
<1>6. PICK x \in Nat : x = n + 1
  OBVIOUS
<1>7. PICK q : q = k \o r
  OBVIOUS
<1>8. Joins(q, S, k, x, r, m)
  BY <1>5, <1>6, <1>7, JoinsOf
<1>9. q \in Seq(S) /\ Len(q) = n + 1 + m /\ \A i \in 1 .. m : q[n + 1 + i] = r[i]
  BY <1>6, <1>8 DEF Joins
<1>10. \A i \in 1 .. n + 1 : q[i] = k[i]
  BY <1>6, <1>8 DEF Joins
<1>11. Spliced(q, S, l, n, e, r, m)
  BY <1>5, <1>9, <1>10 DEF Spliced
<1> QED BY <1>1, <1>3, <1>7, <1>11

\* The x-th place after the first one is filled, and no other of the first n.
Filled(q, S, s, n, x, f, k) ==
  /\ q \in Seq(S) /\ Len(q) = k /\ k >= n /\ k > x
  /\ q[x + 1] = f
  /\ \A i \in 1 .. n : i # x + 1 => q[i] = s[i]

LEMMA StageSet ==
  ASSUME NEW S, NEW p, NEW s \in Seq(S), p.stages = s, NEW n, n = Len(s),
         NEW x \in Nat, x <= n, NEW f \in S
  PROVE  \E k \in Nat : Filled(setStage(p, x, f), S, s, n, x, f, k)
<1>1. n \in Nat
  BY LenProperties
<1>2. PICK l : l = SubSeq(s, 1, x)
  OBVIOUS
<1>3. PICK r : r = SubSeq(s, x + 2, n)
  OBVIOUS
<1>4. l \in Seq(S) /\ Len(l) = x /\ \A i \in 1 .. x : l[i] = s[i]
  BY <1>2, PrefixOf
<1>5. PICK q : q = l \o <<f>> \o r
  OBVIOUS
<1>6. q = setStage(p, x, f)
  BY <1>2, <1>3, <1>5 DEF setStage
<1>7. CASE x = n
  <2>1. r = <<>>
    <3>1. n < x + 2 /\ x + 2 \in Int /\ n \in Int
      BY <1>1, <1>7
    <3> QED BY <1>3, <3>1, SubSeqEmpty
  <2>2. r \in Seq(S) /\ Len(r) = 0
    BY <2>1
  <2>3. PICK z \in Nat : z = 0
    OBVIOUS
  <2>a. Spliced(q, S, l, x, f, r, z)
    BY <1>4, <1>5, <2>2, <2>3, SplicedOf
  <2>4. q \in Seq(S) /\ Len(q) = x + 1 /\ q[x + 1] = f /\ \A i \in 1 .. x : q[i] = s[i]
    BY <1>4, <2>3, <2>a DEF Spliced
  <2>5. Filled(q, S, s, n, x, f, x + 1)
    BY <1>7, <2>4 DEF Filled
  <2> QED BY <1>6, <2>5
<1>8. CASE x < n
  <2>1. PICK m \in Nat : m = n - (x + 1)
    <3>1. n - (x + 1) \in Nat
      BY <1>1, <1>8
    <3> QED BY <3>1
  <2>2. PICK y \in Nat : y = x + 1 /\ y + m = n /\ y + 1 = x + 2
    BY <1>1, <2>1
  <2>3. Part(r, S, s, y, m)
    <3>1. y + m <= Len(s) /\ x + 2 = y + 1 /\ n = y + m
      BY <1>1, <2>2
    <3> QED BY <1>3, <3>1, PartOf
  <2>4. r \in Seq(S) /\ Len(r) = m /\ \A i \in 1 .. m : r[i] = s[y + i]
    BY <2>3 DEF Part
  <2>5. Spliced(q, S, l, x, f, r, m)
    BY <1>4, <1>5, <2>4, SplicedOf
  <2>6. Len(q) = n /\ q \in Seq(S) /\ q[x + 1] = f
    BY <1>1, <2>1, <2>5 DEF Spliced
  <2>7. \A i \in 1 .. n : i # x + 1 => q[i] = s[i]
    <3> SUFFICES ASSUME NEW i \in 1 .. n, i # x + 1
                 PROVE  q[i] = s[i]
      OBVIOUS
    <3>1. CASE i <= x
      BY <1>4, <2>5, <3>1 DEF Spliced
    <3>2. CASE i > x
      <4>1. PICK k \in 1 .. m : k = i - (x + 1) /\ i = x + 1 + k /\ i = y + k
        BY <1>1, <2>1, <2>2, <3>2
      <4>2. q[x + 1 + k] = r[k]
        BY <2>5 DEF Spliced
      <4> QED BY <2>4, <4>1, <4>2
    <3> QED BY <3>1, <3>2
  <2>8. Filled(q, S, s, n, x, f, n)
    BY <1>1, <1>8, <2>6, <2>7 DEF Filled
  <2> QED BY <1>1, <1>6, <2>8
<1> QED BY <1>1, <1>7, <1>8

\* What a pipeline has: n sinks, their places among the k stages.
Sized(p, n, k) ==
  /\ p.stages \in Seq(Names) /\ Len(p.stages) = k
  /\ p.order \in Seq(Nat) /\ Len(p.order) = n /\ DOMAIN p.order = 1 .. n
  /\ n <= k /\ \A i \in 1 .. n : p.order[i] \in Nat /\ p.order[i] < k

LEMMA SizedPipeline ==
  ASSUME NEW p \in Pipelines
  PROVE  \E n, k \in Nat : Sized(p, n, k)
<1>1. p.stages \in Seq(Names) /\ p.order \in Seq(Nat)
        /\ Len(p.order) <= Len(p.stages) /\ \A i \in DOMAIN p.order : p.order[i] < Len(p.stages)
  BY DEF Pipelines
<1>2. PICK k \in Nat : k = Len(p.stages)
  BY <1>1, LenProperties
<1>3. PICK n \in Nat : n = Len(p.order) /\ DOMAIN p.order = 1 .. n
  BY <1>1, LenProperties
<1>4. \A i \in 1 .. n : p.order[i] \in Nat
  BY <1>1, <1>3, ElementOfSeq
<1>5. n <= k /\ \A i \in 1 .. n : p.order[i] < k
  BY <1>1, <1>2, <1>3
<1>6. Sized(p, n, k)
  BY <1>1, <1>2, <1>3, <1>4, <1>5 DEF Sized
<1> QED BY <1>6

LEMMA PipelineSized ==
  ASSUME NEW s \in Seq(Names), NEW o \in Seq(Nat), NEW n \in Nat, NEW k \in Nat,
         Len(s) = k, Len(o) = n, n <= k, \A i \in 1 .. n : o[i] < k
  PROVE  [stages |-> s, order |-> o] \in Pipelines
<1>1. PICK p : p = [stages |-> s, order |-> o]
  OBVIOUS
<1>2. p \in [stages : Seq(Names), order : Seq(Nat)] /\ p.stages = s /\ p.order = o
  BY <1>1
<1>3. DOMAIN o = 1 .. n
  BY LenProperties
<1>4. Len(p.order) <= Len(p.stages) /\ \A i \in DOMAIN p.order : p.order[i] < Len(p.stages)
  BY <1>2, <1>3
<1>5. p \in Pipelines
  BY <1>2, <1>4 DEF Pipelines
<1> QED BY <1>1, <1>5

\* Whom a dispatch calls.
LEMMA CallsOf ==
  ASSUME NEW p, NEW n \in Nat, NEW k \in Nat, Sized(p, n, k)
  PROVE  /\ DOMAIN callOrder(p) = 1 .. n
         /\ \A i \in 1 .. n : callOrder(p)[i] = p.stages[p.order[i] + 1]
         /\ \A i \in 1 .. n : callOrder(p)[i] \in Names
<1>1. callOrder(p) = [i \in 1 .. n |-> p.stages[p.order[i] + 1]]
  BY DEF callOrder, stageCount, Sized
<1>2. \A i \in 1 .. n : p.order[i] + 1 \in 1 .. k
  BY DEF Sized
<1>3. \A i \in 1 .. n : p.stages[p.order[i] + 1] \in Names
  BY <1>2, ElementOfSeq DEF Sized
<1> QED BY <1>1, <1>3

----------------------------------------------------------------------------
(* A sink comes into the order *)

\* Where the sink that was at i is once another one is at c + 1.
shifted(c, i) == IF i <= c THEN i ELSE i + 1

\* f is called at c + 1.  It takes the place in stages of whoever had it.
Inserted(q, p, c, f, n) ==
  /\ q.order[c + 1] = n /\ callOrder(q)[c + 1] = f
  /\ \A i \in 1 .. n : q.order[shifted(c, i)] = p.order[i]
  /\ \A i \in 1 .. n :
       callOrder(q)[shifted(c, i)] = IF p.order[i] = n THEN f ELSE callOrder(p)[i]

LEMMA ShiftedFacts ==
  ASSUME NEW n \in Nat, NEW c \in 0 .. n
  PROVE  /\ \A i \in 1 .. n : shifted(c, i) \in 1 .. n + 1 /\ shifted(c, i) # c + 1
         /\ \A i, k \in 1 .. n : i < k <=> shifted(c, i) < shifted(c, k)
         /\ \A k \in 1 .. n + 1 : k = c + 1 \/ \E i \in 1 .. n : k = shifted(c, i)
<1>1. \A i \in 1 .. n : shifted(c, i) \in 1 .. n + 1 /\ shifted(c, i) # c + 1
  BY DEF shifted
<1>2. \A i, k \in 1 .. n : i < k <=> shifted(c, i) < shifted(c, k)
  BY DEF shifted
<1>3. ASSUME NEW k \in 1 .. n + 1, k # c + 1
      PROVE  \E i \in 1 .. n : k = shifted(c, i)
  <2>1. CASE k <= c
    <3>1. k \in 1 .. n /\ k = shifted(c, k)
      BY <2>1 DEF shifted
    <3> QED BY <3>1
  <2>2. CASE k > c + 1
    <3>1. k - 1 \in 1 .. n /\ k = shifted(c, k - 1)
      BY <2>2 DEF shifted
    <3> QED BY <3>1
  <2> QED BY <1>3, <2>1, <2>2
<1> QED BY <1>1, <1>2, <1>3

\* The order of the sinks: the new one at c + 1, the others around it.
Opened(o, p, c, n) ==
  /\ o \in Seq(Nat) /\ Len(o) = n + 1 /\ o[c + 1] = n
  /\ \A i \in 1 .. n : o[shifted(c, i)] = p.order[i]

LEMMA OrderOpened ==
  ASSUME NEW p, NEW n \in Nat, NEW k \in Nat, Sized(p, n, k), NEW a \in Nat,
         NEW c, c = IF a < n THEN a ELSE n
  PROVE  Opened(IF a < n THEN InsertAt(p.order, a + 1, n) ELSE Append(p.order, n), p, c, n)
<1>1. c \in 0 .. n
  OBVIOUS
<1>2. PICK s \in Seq(Nat) : s = p.order /\ Len(s) = n
  BY DEF Sized
<1>3. CASE a < n
  <2>1. PICK o : o = InsertAt(p.order, a + 1, n)
    OBVIOUS
  <2>2. PICK l, r : l = SubSeq(s, 1, a) /\ r = SubSeq(s, a + 1, n)
    OBVIOUS
  <2>3. o = l \o <<n>> \o r
    <3>1. o = SubSeq(s, 1, (a + 1) - 1) \o <<n>> \o SubSeq(s, a + 1, Len(s))
      BY <1>2, <2>1 DEF InsertAt
    <3>2. (a + 1) - 1 = a
      OBVIOUS
    <3> QED BY <1>2, <2>2, <3>1, <3>2
  <2>4. l \in Seq(Nat) /\ Len(l) = a /\ \A i \in 1 .. a : l[i] = s[i]
    BY <1>2, <1>3, <2>2, PrefixOf
  <2>5. PICK m \in Nat : m = n - a /\ a + m = n
    BY <1>3
  <2>6. Part(r, Nat, s, a, m)
    <3>1. a + m <= Len(s)
      BY <1>2, <2>5
    <3> QED BY <2>2, <2>5, <3>1, PartOf
  <2>7. r \in Seq(Nat) /\ Len(r) = m /\ \A i \in 1 .. m : r[i] = s[a + i]
    BY <2>6 DEF Part
  <2>8. Spliced(o, Nat, l, a, n, r, m)
    BY <2>3, <2>4, <2>7, SplicedOf
  <2>9. o \in Seq(Nat) /\ Len(o) = n + 1 /\ o[a + 1] = n
    BY <2>5, <2>8 DEF Spliced
  <2>10. \A i \in 1 .. n : o[shifted(c, i)] = s[i]
    <3> SUFFICES ASSUME NEW i \in 1 .. n
                 PROVE  o[shifted(c, i)] = s[i]
      OBVIOUS
    <3>1. CASE i <= a
      <4>1. shifted(c, i) = i /\ i \in 1 .. a
        BY <1>3, <3>1 DEF shifted
      <4>2. o[i] = l[i] /\ l[i] = s[i]
        BY <2>4, <2>8, <4>1 DEF Spliced
      <4> QED BY <4>1, <4>2
    <3>2. CASE i > a
      <4>1. PICK j \in 1 .. m : j = i - a /\ i = a + j
        BY <2>5, <3>2
      <4>2. shifted(c, i) = a + 1 + j
        BY <1>3, <3>2, <4>1 DEF shifted
      <4>3. o[a + 1 + j] = r[j]
        BY <2>8 DEF Spliced
      <4> QED BY <2>7, <4>1, <4>2, <4>3
    <3> QED BY <3>1, <3>2
  <2>11. Opened(o, p, c, n)
    BY <1>2, <1>3, <2>9, <2>10 DEF Opened
  <2> QED BY <1>3, <2>1, <2>11
<1>4. CASE ~(a < n)
  <2>1. PICK o : o = Append(p.order, n)
    OBVIOUS
  <2>2. o \in Seq(Nat) /\ Len(o) = n + 1 /\ o[n + 1] = n /\ \A i \in 1 .. n : o[i] = s[i]
    BY <1>2, <2>1, AppendProperties
  <2>3. c = n /\ \A i \in 1 .. n : shifted(c, i) = i
    BY <1>4 DEF shifted
  <2>4. Opened(o, p, c, n)
    BY <1>2, <2>2, <2>3 DEF Opened
  <2> QED BY <1>4, <2>1, <2>4
<1> QED BY <1>3, <1>4

LEMMA InsertedIs ==
  ASSUME NEW p \in Pipelines, NEW n \in Nat, NEW k \in Nat, Sized(p, n, k),
         NEW a \in Nat, NEW f \in Names, NEW c, c = IF a < n THEN a ELSE n
  PROVE  LET q == insertStage(p, a, f)
         IN /\ q \in Pipelines /\ Inserted(q, p, c, f, n) /\ c \in 0 .. n
            /\ \E x \in Nat : Sized(q, n + 1, x)
<1>1. c \in 0 .. n
  OBVIOUS
<1>2. PICK s, o : /\ s = setStage(p, n, f)
                  /\ o = IF a < n THEN InsertAt(p.order, a + 1, n) ELSE Append(p.order, n)
  OBVIOUS
<1>3. PICK q : q = insertStage(p, a, f)
  OBVIOUS
<1>4. q = [stages |-> s, order |-> o]
  <2>1. stageCount(p) = n
    BY DEF stageCount, Sized
  <2> QED BY <1>2, <1>3, <2>1 DEF insertStage
<1>5. PICK x \in Nat : Filled(s, Names, p.stages, k, n, f, x)
  <2>1. PICK u \in Seq(Names) : u = p.stages /\ k = Len(u) /\ n <= k
    BY DEF Sized
  <2> QED BY <1>2, <2>1, StageSet
<1>6. s \in Seq(Names) /\ Len(s) = x /\ x >= k /\ x > n /\ s[n + 1] = f
        /\ \A i \in 1 .. k : i # n + 1 => s[i] = p.stages[i]
  BY <1>5 DEF Filled
<1>7. Opened(o, p, c, n)
  BY <1>2, OrderOpened
<1>8. o \in Seq(Nat) /\ Len(o) = n + 1 /\ o[c + 1] = n
        /\ \A i \in 1 .. n : o[shifted(c, i)] = p.order[i]
  BY <1>7 DEF Opened
<1>9. \A i \in 1 .. n : p.order[i] \in Nat /\ p.order[i] < k
  BY DEF Sized
<1>10. \A j \in 1 .. n + 1 : o[j] \in Nat /\ o[j] < x
  <2> SUFFICES ASSUME NEW j \in 1 .. n + 1
               PROVE  o[j] \in Nat /\ o[j] < x
    OBVIOUS
  <2>1. CASE j = c + 1
    <3>1. o[j] = n /\ n < x
      BY <1>6, <1>8, <2>1
    <3> QED BY <3>1
  <2>2. ASSUME NEW i \in 1 .. n, j = shifted(c, i)
        PROVE  o[j] \in Nat /\ o[j] < x
    <3>1. o[j] = p.order[i] /\ p.order[i] \in Nat /\ p.order[i] < k
      BY <1>8, <1>9, <2>2
    <3> QED BY <1>6, <3>1
  <2>3. j = c + 1 \/ \E i \in 1 .. n : j = shifted(c, i)
    <3>1. \A m \in 1 .. n + 1 : m = c + 1 \/ \E i \in 1 .. n : m = shifted(c, i)
      BY ONLY <1>1, n \in Nat, ShiftedFacts
    <3> QED BY <3>1
  <2> QED BY <2>1, <2>2, <2>3
<1>11. DOMAIN o = 1 .. n + 1
  BY <1>8, LenProperties
<1>12. PICK y \in Nat : y = n + 1 /\ y <= x
  BY <1>6
<1>13. q \in Pipelines
  BY <1>4, <1>6, <1>8, <1>10, <1>12, PipelineSized
<1>14. Sized(q, n + 1, x)
  <2>1. q.stages = s /\ q.order = o
    BY <1>4
  <2> QED BY <1>6, <1>8, <1>10, <1>11, <1>12, <2>1 DEF Sized
<1>15. \A j \in 1 .. n + 1 : callOrder(q)[j] = s[o[j] + 1]
  <2>1. q.stages = s /\ q.order = o
    BY <1>4
  <2>2. Sized(q, y, x)
    BY <1>12, <1>14
  <2>3. \A j \in 1 .. y : callOrder(q)[j] = q.stages[q.order[j] + 1]
    BY <2>2, CallsOf
  <2> QED BY <1>12, <2>1, <2>3
<1>16. ASSUME NEW i \in 1 .. n
       PROVE  callOrder(q)[shifted(c, i)] = IF p.order[i] = n THEN f ELSE callOrder(p)[i]
  <2>1. shifted(c, i) \in 1 .. n + 1
    BY <1>1, ShiftedFacts
  <2>2. callOrder(q)[shifted(c, i)] = s[p.order[i] + 1]
    BY <1>8, <1>15, <2>1
  <2>3. callOrder(p)[i] = p.stages[p.order[i] + 1]
    BY CallsOf
  <2>4. CASE p.order[i] = n
    BY <1>6, <2>2, <2>4
  <2>5. CASE p.order[i] # n
    <3>1. p.order[i] + 1 \in 1 .. k /\ p.order[i] + 1 # n + 1
      BY <1>9, <2>5
    <3> QED BY <1>6, <2>2, <2>3, <2>5, <3>1
  <2> QED BY <2>4, <2>5
<1>17. callOrder(q)[c + 1] = f
  <2>1. c + 1 \in 1 .. n + 1
    BY <1>1
  <2> QED BY <1>6, <1>8, <1>15, <2>1
<1>18. q.order = o
  BY <1>4
<1>19. Inserted(q, p, c, f, n)
  BY <1>8, <1>16, <1>17, <1>18 DEF Inserted
<1> QED BY <1>1, <1>3, <1>13, <1>14, <1>19

----------------------------------------------------------------------------
(* A sink leaves the order *)

\* Which sink comes to j when the one at x has left.
closing(x, j) == IF j < x THEN j ELSE j + 1

Closed(q, p, x, n) ==
  \A j \in 1 .. n - 1 : /\ q.order[j] = p.order[closing(x, j)]
                        /\ callOrder(q)[j] = callOrder(p)[closing(x, j)]

LEMMA ClosingFacts ==
  ASSUME NEW n \in Nat, NEW x \in 1 .. n
  PROVE  /\ \A j \in 1 .. n - 1 : closing(x, j) \in 1 .. n /\ closing(x, j) # x
         /\ \A j, k \in 1 .. n - 1 : j < k <=> closing(x, j) < closing(x, k)
         /\ \A i \in 1 .. n : i = x \/ \E j \in 1 .. n - 1 : i = closing(x, j)
<1>1. \A j \in 1 .. n - 1 : closing(x, j) \in 1 .. n /\ closing(x, j) # x
  BY DEF closing
<1>2. \A j, k \in 1 .. n - 1 : j < k <=> closing(x, j) < closing(x, k)
  BY DEF closing
<1>3. ASSUME NEW i \in 1 .. n, i # x
      PROVE  \E j \in 1 .. n - 1 : i = closing(x, j)
  <2>1. CASE i < x
    <3>1. i \in 1 .. n - 1 /\ i = closing(x, i)
      BY <2>1 DEF closing
    <3> QED BY <3>1
  <2>2. CASE i > x
    <3>1. i - 1 \in 1 .. n - 1 /\ i = closing(x, i - 1)
      BY <2>2 DEF closing
    <3> QED BY <3>1
  <2> QED BY <1>3, <2>1, <2>2
<1> QED BY <1>1, <1>2, <1>3

LEMMA OrderClosed ==
  ASSUME NEW s \in Seq(Nat), NEW n \in Nat, Len(s) = n, NEW x \in 1 .. n
  PROVE  /\ RemoveAt(s, x) \in Seq(Nat) /\ Len(RemoveAt(s, x)) = n - 1
         /\ \A j \in 1 .. n - 1 : RemoveAt(s, x)[j] = s[closing(x, j)]
<1>1. PICK a \in Nat : a = x - 1 /\ a + 1 = x /\ a <= n
  <2>1. x - 1 \in Nat
    OBVIOUS
  <2> QED BY <2>1
<1>2. PICK m \in Nat : m = n - x /\ x + m = n
  <2>1. n - x \in Nat
    OBVIOUS
  <2> QED BY <2>1
<1>3. PICK o : o = RemoveAt(s, x)
  OBVIOUS
<1>4. PICK l, r : l = SubSeq(s, 1, a) /\ r = SubSeq(s, x + 1, n)
  OBVIOUS
<1>5. o = l \o r
  BY <1>1, <1>3, <1>4 DEF RemoveAt
<1>6. l \in Seq(Nat) /\ Len(l) = a /\ \A i \in 1 .. a : l[i] = s[i]
  BY <1>1, <1>4, PrefixOf
<1>7. Part(r, Nat, s, x, m)
  <2>1. x \in Nat /\ x + m <= Len(s)
    BY <1>2
  <2> QED BY <1>2, <1>4, <2>1, PartOf
<1>8. r \in Seq(Nat) /\ Len(r) = m /\ \A i \in 1 .. m : r[i] = s[x + i]
  BY <1>7 DEF Part
<1>9. Joins(o, Nat, l, a, r, m)
  BY <1>5, <1>6, <1>8, JoinsOf
<1>10. o \in Seq(Nat) /\ Len(o) = n - 1
  BY <1>1, <1>2, <1>9 DEF Joins
<1>11. ASSUME NEW j \in 1 .. n - 1
       PROVE  o[j] = s[closing(x, j)]
  <2>1. CASE j < x
    <3>1. closing(x, j) = j /\ j \in 1 .. a
      BY <1>1, <2>1 DEF closing
    <3> QED BY <1>6, <1>9, <3>1 DEF Joins
  <2>2. CASE j >= x
    <3>1. PICK i \in 1 .. m : i = j - a /\ j = a + i /\ j + 1 = x + i
      BY <1>1, <1>2, <2>2
    <3>2. closing(x, j) = x + i
      BY <2>2, <3>1 DEF closing
    <3>3. o[a + i] = r[i]
      BY <1>9 DEF Joins
    <3> QED BY <1>8, <3>1, <3>2, <3>3
  <2> QED BY <2>1, <2>2
<1> QED BY <1>3, <1>10, <1>11

LEMMA RemovedIs ==
  ASSUME NEW p \in Pipelines, NEW n \in Nat, NEW k \in Nat, Sized(p, n, k), NEW i \in 0 .. n - 1
  PROVE  LET q == removeStage(p, i)
         IN /\ q \in Pipelines /\ Closed(q, p, i + 1, n) /\ Sized(q, n - 1, k)
<1>1. PICK x \in 1 .. n : x = i + 1
  OBVIOUS
<1>2. PICK y \in Nat : y = n - 1 /\ y <= k
  <2>1. n - 1 \in Nat /\ n - 1 <= k
    BY DEF Sized
  <2> QED BY <2>1
<1>3. PICK o : o = RemoveAt(p.order, x)
  OBVIOUS
<1>4. PICK s \in Seq(Names) : s = p.stages /\ Len(s) = k
  BY DEF Sized
<1>5. PICK q : q = removeStage(p, i)
  OBVIOUS
<1>6. q = [stages |-> s, order |-> o]
  <2>1. stageCount(p) = n /\ n # 0
    BY DEF stageCount, Sized
  <2>2. p = [stages |-> p.stages, order |-> p.order]
    BY DEF Pipelines
  <2>3. removeStage(p, i) = [p EXCEPT !.order = RemoveAt(p.order, i + 1)]
    BY <2>1 DEF removeStage
  <2> QED BY <1>1, <1>3, <1>4, <1>5, <2>2, <2>3
<1>7. o \in Seq(Nat) /\ Len(o) = y /\ \A j \in 1 .. y : o[j] = p.order[closing(x, j)]
  <2>1. p.order \in Seq(Nat) /\ Len(p.order) = n
    BY DEF Sized
  <2> QED BY <1>2, <1>3, <2>1, OrderClosed
<1>8. \A j \in 1 .. y : closing(x, j) \in 1 .. n
  BY <1>2, ClosingFacts
<1>9. \A j \in 1 .. y : o[j] \in Nat /\ o[j] < k
  BY <1>7, <1>8 DEF Sized
<1>10. DOMAIN o = 1 .. y
  BY <1>7, LenProperties
<1>11. q \in Pipelines
  BY <1>2, <1>4, <1>6, <1>7, <1>9, PipelineSized
<1>12. q.stages = s /\ q.order = o
  BY <1>6
<1>13. Sized(q, y, k)
  BY <1>2, <1>4, <1>7, <1>9, <1>10, <1>12 DEF Sized
<1>14. \A j \in 1 .. y : callOrder(q)[j] = callOrder(p)[closing(x, j)]
  <2> SUFFICES ASSUME NEW j \in 1 .. y
               PROVE  callOrder(q)[j] = callOrder(p)[closing(x, j)]
    OBVIOUS
  <2>1. callOrder(q)[j] = q.stages[q.order[j] + 1]
    BY <1>13, CallsOf
  <2>2. callOrder(p)[closing(x, j)] = p.stages[p.order[closing(x, j)] + 1]
    BY <1>8, CallsOf
  <2> QED BY <1>4, <1>7, <1>12, <2>1, <2>2
<1>15. Closed(q, p, x, n)
  BY <1>2, <1>7, <1>12, <1>14 DEF Closed
<1> QED BY <1>1, <1>2, <1>5, <1>11, <1>13, <1>15

----------------------------------------------------------------------------
(* The sinks of one pipeline, its placed pairs and the confused ones *)

\* A sink that is not confused is called once.
CalledOnce(id, p, C) ==
  \A i, j \in DOMAIN callOrder(p) :
    callOrder(p)[i] = callOrder(p)[j] /\ <<id, callOrder(p)[i]>> \notin C => i = j

\* A pair that was placed is called in this order, or the other way round.
Stands(p, f, g) ==
  \E i, j \in DOMAIN callOrder(p) :
    callOrder(p)[i] = f /\ callOrder(p)[j] = g /\ (f # g => i < j)
PairsStand(id, p, P, B, C) ==
  \A f, g : <<id, f, g>> \in P /\ <<id, f>> \notin C /\ <<id, g>> \notin C =>
    IF <<id, f, g>> \in B THEN Stands(p, g, f) ELSE Stands(p, f, g)

\* Who is called was placed, or is confused, or is a sink of the engine.
CalledKnown(id, p, P, C) ==
  \A i \in DOMAIN callOrder(p) :
    \/ callOrder(p)[i] \notin Range(AppSinks)
    \/ <<id, callOrder(p)[i], callOrder(p)[i]>> \in P
    \/ <<id, callOrder(p)[i]>> \in C

PipelineOK(id, p, P, B, C) ==
  /\ CalledOnce(id, p, C) /\ PairsStand(id, p, P, B, C) /\ CalledKnown(id, p, P, C)
  /\ \A f, g : <<id, f, g>> \in B => <<id, f, g>> \in P

\* Nothing of a pipeline depends on what was placed, or confused, in another.
LEMMA OtherOK ==
  ASSUME NEW id, NEW p, NEW P, NEW B, NEW C, NEW Q, NEW E, NEW D, PipelineOK(id, p, P, B, C),
         \A f, g : <<id, f, g>> \in Q <=> <<id, f, g>> \in P,
         \A f, g : <<id, f, g>> \in E <=> <<id, f, g>> \in B,
         \A f : <<id, f>> \in D <=> <<id, f>> \in C
  PROVE  PipelineOK(id, p, Q, E, D)
<1>1. CalledOnce(id, p, D)
  BY DEF PipelineOK, CalledOnce
<1>2. PairsStand(id, p, Q, E, D)
  BY DEF PipelineOK, PairsStand
<1>3. CalledKnown(id, p, Q, D)
  BY DEF PipelineOK, CalledKnown
<1>4. \A f, g : <<id, f, g>> \in E => <<id, f, g>> \in Q
  BY DEF PipelineOK
<1> QED BY <1>1, <1>2, <1>3, <1>4 DEF PipelineOK

\* The pairs a registration places: the new sink, at c + 1, with its neighbours; and
\* those it does not heed, with a sink that is called before.
PairsFit(pairs, un, p, c, f, n) ==
  /\ un \subseteq pairs
  /\ \A u \in pairs \ un : \/ c >= 1 /\ u = <<callOrder(p)[c], f>>
                           \/ c < n /\ u = <<f, callOrder(p)[c + 1]>>
  /\ \A u \in un : \E i \in 1 .. c : u = <<f, callOrder(p)[i]>>

LEMMA InsertOK ==
  ASSUME NEW id, NEW p \in Pipelines, NEW n \in Nat, NEW k \in Nat, Sized(p, n, k),
         NEW a \in Nat, NEW f \in Range(AppSinks), NEW c, c = IF a < n THEN a ELSE n,
         NEW P, NEW B, NEW C, PipelineOK(id, p, P, B, C), <<id, f, f>> \notin P,
         NEW pairs, NEW un, PairsFit(pairs, un, p, c, f, n),
         NEW Q, Q = P \cup {<<id, f, f>>} \cup {<<id, u[1], u[2]>> : u \in pairs},
         NEW E, E = B \cup {<<id, u[1], u[2]>> : u \in un},
         NEW D, D = IF nextPlaceInUse(p)
                    THEN C \cup {<<id, f>>, <<id, p.stages[stageCount(p) + 1]>>} ELSE C
  PROVE  PipelineOK(id, insertStage(p, a, f), Q, E, D)
<1>1. PICK q : q = insertStage(p, a, f)
  OBVIOUS
<1>2. f \in Names
  BY DEF Names
<1>3. PICK x \in Nat : Inserted(q, p, c, f, n) /\ c \in 0 .. n /\ Sized(q, n + 1, x)
  BY <1>1, <1>2, InsertedIs
<1>4. PICK y \in Nat : y = n + 1
  OBVIOUS
<1>5. DOMAIN callOrder(q) = 1 .. y
  BY <1>3, <1>4, CallsOf
<1>6. /\ DOMAIN callOrder(p) = 1 .. n
      /\ \A i \in 1 .. n : callOrder(p)[i] = p.stages[p.order[i] + 1]
  BY CallsOf
<1>7. PICK o : o = callOrder(p)
  OBVIOUS
<1>8. PICK r : r = callOrder(q)
  OBVIOUS
<1>9. r[c + 1] = f /\ \A i \in 1 .. n : r[shifted(c, i)] = IF p.order[i] = n THEN f ELSE o[i]
  BY <1>3, <1>7, <1>8 DEF Inserted
<1>10. C \subseteq D
  OBVIOUS
<1>11. ASSUME NEW i \in 1 .. n, p.order[i] = n
       PROVE  <<id, f>> \in D /\ <<id, o[i]>> \in D
  <2>1. stageCount(p) = n /\ DOMAIN p.order = 1 .. n /\ Len(p.order) = n
    BY DEF stageCount, Sized
  <2>2. nextPlaceInUse(p)
    BY <1>11, <2>1 DEF nextPlaceInUse, Contains
  <2>3. o[i] = p.stages[n + 1]
    BY <1>6, <1>7, <1>11
  <2> QED BY <2>1, <2>2, <2>3
<1>12. \A i \in 1 .. n : <<id, o[i]>> \notin D => r[shifted(c, i)] = o[i]
  BY <1>9, <1>11
<1>13. /\ \A i \in 1 .. n : shifted(c, i) \in 1 .. y /\ shifted(c, i) # c + 1
       /\ \A i, j \in 1 .. n : i < j => shifted(c, i) < shifted(c, j)
       /\ \A v \in 1 .. y : v = c + 1 \/ \E i \in 1 .. n : v = shifted(c, i)
       /\ c + 1 \in 1 .. y
  <2>1. c + 1 \in 1 .. y
    BY <1>3, <1>4
  <2> QED BY <1>3, <1>4, <2>1, ShiftedFacts
<1>14. <<id, f>> \notin D => \A i \in 1 .. n : r[shifted(c, i)] # f
  <2> SUFFICES ASSUME <<id, f>> \notin D, NEW i \in 1 .. n, r[shifted(c, i)] = f
               PROVE  FALSE
    OBVIOUS
  <2>1. p.order[i] # n
    BY <1>11
  <2>2. o[i] = f
    BY <1>9, <2>1
  <2>3. <<id, f, f>> \in P \/ <<id, f>> \in C
    BY <1>6, <1>7, <2>2 DEF PipelineOK, CalledKnown
  <2> QED BY <1>10, <2>3
<1>15. CalledOnce(id, q, D)
  <2> SUFFICES ASSUME NEW u \in 1 .. y, NEW v \in 1 .. y, r[u] = r[v], <<id, r[u]>> \notin D
               PROVE  u = v
    BY <1>5, <1>8 DEF CalledOnce
  <2>1. CASE u = c + 1 \/ v = c + 1
    <3>1. r[u] = f /\ r[v] = f
      BY <1>9, <2>1
    <3> QED BY <1>13, <1>14, <2>1, <3>1
  <2>2. ASSUME NEW i \in 1 .. n, u = shifted(c, i), NEW j \in 1 .. n, v = shifted(c, j)
        PROVE  u = v
    <3>1. p.order[i] # n /\ p.order[j] # n
      BY <1>9, <1>11, <2>2
    <3>2. o[i] = o[j] /\ <<id, o[i]>> \notin C
      BY <1>9, <1>10, <2>2, <3>1
    <3>3. i = j
      BY <1>6, <1>7, <3>2 DEF PipelineOK, CalledOnce
    <3> QED BY <2>2, <3>3
  <2> QED BY <1>13, <2>1, <2>2
<1>a. ASSUME NEW g, NEW h, <<id, g, h>> \in P, <<id, g>> \notin D, <<id, h>> \notin D
      PROVE  g # f /\ h # f
  <2>1. PICK i \in 1 .. n, j \in 1 .. n : o[i] = g /\ o[j] = h
    BY <1>a, <1>6, <1>7, <1>10 DEF PipelineOK, PairsStand, Stands
  <2>2. ASSUME NEW l \in 1 .. n, o[l] = f
        PROVE  <<id, f>> \in D
    <3>1. <<id, f, f>> \in P \/ <<id, f>> \in C
      BY <1>6, <1>7, <2>2 DEF PipelineOK, CalledKnown
    <3> QED BY <1>10, <3>1
  <2> QED BY <1>a, <2>1, <2>2
<1>b. \A u \in un : u = <<f, u[2]>> /\ \E i \in 1 .. c : u[2] = o[i]
  BY <1>7 DEF PairsFit
<1>16. PairsStand(id, q, Q, E, D)
  <2> DEFINE before(g, h) == \E i, j \in 1 .. y : r[i] = g /\ r[j] = h /\ (g # h => i < j)
  <2> SUFFICES ASSUME NEW g, NEW h, <<id, g, h>> \in Q, <<id, g>> \notin D, <<id, h>> \notin D
               PROVE  IF <<id, g, h>> \in E THEN before(h, g) ELSE before(g, h)
    <3>1. \A g, h : before(g, h) <=> Stands(q, g, h)
      BY <1>5, <1>8 DEF Stands
    <3> QED BY <3>1 DEF PairsStand
  <2>1. CASE <<id, g, h>> \in P
    <3>1. ASSUME NEW i \in 1 .. n, NEW j \in 1 .. n, NEW x1, NEW x2, o[i] = x1, o[j] = x2,
                 x1 # x2 => i < j, <<id, x1>> \notin D, <<id, x2>> \notin D
          PROVE  before(x1, x2)
      <4>1. r[shifted(c, i)] = x1 /\ r[shifted(c, j)] = x2
        BY <1>12, <3>1
      <4> QED BY <1>13, <3>1, <4>1
    <3>2. <<id, g, h>> \in E <=> <<id, g, h>> \in B
      <4>1. g # f
        BY <1>a, <2>1
      <4> QED BY <1>b, <4>1
    <3>3. CASE <<id, g, h>> \in B
      <4>1. PICK i \in 1 .. n, j \in 1 .. n : o[i] = h /\ o[j] = g /\ (h # g => i < j)
        BY <1>6, <1>7, <1>10, <2>1, <3>3 DEF PipelineOK, PairsStand, Stands
      <4> HIDE DEF before
      <4> QED BY <3>1, <3>2, <3>3, <4>1
    <3>4. CASE <<id, g, h>> \notin B
      <4>1. PICK i \in 1 .. n, j \in 1 .. n : o[i] = g /\ o[j] = h /\ (g # h => i < j)
        BY <1>6, <1>7, <1>10, <2>1, <3>4 DEF PipelineOK, PairsStand, Stands
      <4> HIDE DEF before
      <4> QED BY <3>1, <3>2, <3>4, <4>1
    <3> QED BY <3>3, <3>4
  <2>2. CASE g = f /\ h = f
    <3>1. before(f, f)
      BY <1>9, <1>13
    <3> QED BY <2>2, <3>1
  <2>3. ASSUME NEW u \in un, g = u[1], h = u[2]
        PROVE  <<id, g, h>> \in E /\ before(h, g)
    <3>1. PICK i \in 1 .. c : g = f /\ h = o[i]
      BY <1>b, <2>3
    <3>2. i \in 1 .. n /\ shifted(c, i) = i /\ i \in 1 .. y /\ c + 1 \in 1 .. y /\ i < c + 1
      BY <1>3, <1>4 DEF shifted
    <3>3. r[i] = h
      BY <1>12, <3>1, <3>2
    <3> QED BY <1>9, <2>3, <3>1, <3>2, <3>3
  <2>4. ASSUME NEW u \in pairs \ un, g = u[1], h = u[2]
        PROVE  before(g, h)
    <3>1. CASE c >= 1 /\ u = <<o[c], f>>
      <4>1. c \in 1 .. n /\ shifted(c, c) = c /\ c \in 1 .. y /\ c + 1 \in 1 .. y /\ c < c + 1
        BY <1>3, <1>4, <3>1 DEF shifted
      <4>2. g = o[c] /\ h = f
        BY <2>4, <3>1
      <4>3. r[c] = g
        BY <1>12, <4>1, <4>2
      <4> QED BY <1>9, <4>1, <4>2, <4>3
    <3>2. CASE c < n /\ u = <<f, o[c + 1]>>
      <4>1. /\ c + 1 \in 1 .. n /\ shifted(c, c + 1) = c + 2 /\ c + 2 \in 1 .. y /\ c + 1 \in 1 .. y
            /\ c + 1 < c + 2
        BY <1>3, <1>4, <3>2 DEF shifted
      <4>2. g = f /\ h = o[c + 1]
        BY <2>4, <3>2
      <4>3. r[c + 2] = h
        BY <1>12, <4>1, <4>2
      <4> QED BY <1>9, <4>1, <4>2, <4>3
    <3> QED BY <1>7, <3>1, <3>2 DEF PairsFit
  <2> HIDE DEF before
  <2>5. CASE <<id, g, h>> \in E
    <3>1. <<id, g, h>> \in P \/ \E u \in un : g = u[1] /\ h = u[2]
      BY <2>5 DEF PipelineOK
    <3> QED BY <2>1, <2>3, <2>5, <3>1
  <2>6. CASE <<id, g, h>> \notin E
    <3>1. <<id, g, h>> \in P \/ (g = f /\ h = f) \/ \E u \in pairs : g = u[1] /\ h = u[2]
      OBVIOUS
    <3>2. \A u \in pairs : g = u[1] /\ h = u[2] => u \notin un
      BY <2>6
    <3> QED BY <2>1, <2>2, <2>4, <2>6, <3>1, <3>2
  <2> QED BY <2>5, <2>6
<1>17. CalledKnown(id, q, Q, D)
  <2> SUFFICES ASSUME NEW v \in 1 .. y, r[v] \in Range(AppSinks)
               PROVE  <<id, r[v], r[v]>> \in Q \/ <<id, r[v]>> \in D
    BY <1>5, <1>8 DEF CalledKnown
  <2>1. CASE r[v] = f
    BY <2>1
  <2>2. ASSUME NEW i \in 1 .. n, r[v] = o[i]
        PROVE  <<id, r[v], r[v]>> \in Q \/ <<id, r[v]>> \in D
    <3>1. <<id, o[i], o[i]>> \in P \/ <<id, o[i]>> \in C
      BY <1>6, <1>7, <2>2 DEF PipelineOK, CalledKnown
    <3> QED BY <1>10, <2>2, <3>1
  <2>3. r[v] = f \/ \E i \in 1 .. n : r[v] = o[i]
    BY <1>9, <1>13
  <2> QED BY <2>1, <2>2, <2>3
<1>18. \A g, h : <<id, g, h>> \in E => <<id, g, h>> \in Q
  BY DEF PipelineOK, PairsFit
<1> QED BY <1>1, <1>15, <1>16, <1>17, <1>18 DEF PipelineOK

LEMMA RemoveOK ==
  ASSUME NEW id, NEW p \in Pipelines, NEW n \in Nat, NEW k \in Nat, Sized(p, n, k),
         NEW m \in 0 .. n - 1, NEW P, NEW B, NEW C, PipelineOK(id, p, P, B, C),
         NEW Q, \A f, g : <<id, f, g>> \in Q <=>
                  <<id, f, g>> \in P /\ f # callOrder(p)[m + 1] /\ g # callOrder(p)[m + 1],
         NEW E, \A f, g : <<id, f, g>> \in E <=>
                  <<id, f, g>> \in B /\ f # callOrder(p)[m + 1] /\ g # callOrder(p)[m + 1]
  PROVE  PipelineOK(id, removeStage(p, m), Q, E, C)
<1>1. PICK q : q = removeStage(p, m)
  OBVIOUS
<1>2. PICK x \in 1 .. n : x = m + 1
  OBVIOUS
<1>3. PICK y \in Nat : y = n - 1
  <2>1. n - 1 \in Nat
    OBVIOUS
  <2> QED BY <2>1
<1>4. Closed(q, p, x, n) /\ Sized(q, y, k)
  BY <1>1, <1>2, <1>3, RemovedIs
<1>5. DOMAIN callOrder(q) = 1 .. y
  BY <1>4, CallsOf
<1>6. DOMAIN callOrder(p) = 1 .. n
  BY CallsOf
<1>7. PICK o : o = callOrder(p)
  OBVIOUS
<1>8. PICK r : r = callOrder(q)
  OBVIOUS
<1>9. \A j \in 1 .. y : r[j] = o[closing(x, j)]
  BY <1>3, <1>4, <1>7, <1>8 DEF Closed
<1>10. /\ \A j \in 1 .. y : closing(x, j) \in 1 .. n /\ closing(x, j) # x
       /\ \A j, l \in 1 .. y : j < l <=> closing(x, j) < closing(x, l)
       /\ \A i \in 1 .. n : i = x \/ \E j \in 1 .. y : i = closing(x, j)
  BY <1>3, ClosingFacts
<1>11. CalledOnce(id, q, C)
  <2> SUFFICES ASSUME NEW u \in 1 .. y, NEW v \in 1 .. y, r[u] = r[v], <<id, r[u]>> \notin C
               PROVE  u = v
    BY <1>5, <1>8 DEF CalledOnce
  <2>1. closing(x, u) = closing(x, v)
    BY <1>6, <1>7, <1>9, <1>10 DEF PipelineOK, CalledOnce
  <2>2. ~(u < v) /\ ~(v < u)
    <3>1. closing(x, u) \in 1 .. n
      BY <1>10
    <3> QED BY <1>10, <2>1, <3>1
  <2> QED BY <2>2
<1>12. PairsStand(id, q, Q, E, C)
  <2> DEFINE before(g, h) == \E i, j \in 1 .. y : r[i] = g /\ r[j] = h /\ (g # h => i < j)
  <2> SUFFICES ASSUME NEW g, NEW h, <<id, g, h>> \in Q, <<id, g>> \notin C, <<id, h>> \notin C
               PROVE  IF <<id, g, h>> \in E THEN before(h, g) ELSE before(g, h)
    BY <1>5, <1>8 DEF PairsStand, Stands
  <2>1. <<id, g, h>> \in P /\ g # o[x] /\ h # o[x]
    BY <1>2, <1>7
  <2>2. ASSUME NEW i \in 1 .. n, NEW j \in 1 .. n, NEW x1, NEW x2, o[i] = x1, o[j] = x2,
               x1 # x2 => i < j, x1 # o[x], x2 # o[x]
        PROVE  before(x1, x2)
    <3>1. i # x /\ j # x
      BY <2>2
    <3>2. PICK u \in 1 .. y : i = closing(x, u)
      BY <1>10, <3>1
    <3>3. PICK v \in 1 .. y : j = closing(x, v)
      BY <1>10, <3>1
    <3>4. r[u] = x1 /\ r[v] = x2
      BY <1>9, <2>2, <3>2, <3>3
    <3>5. x1 # x2 => u < v
      BY <1>10, <2>2, <3>2, <3>3
    <3> QED BY <3>4, <3>5
  <2> HIDE DEF before
  <2>3. CASE <<id, g, h>> \in B
    <3>1. PICK i \in 1 .. n, j \in 1 .. n : o[i] = h /\ o[j] = g /\ (h # g => i < j)
      BY <1>6, <1>7, <2>1, <2>3 DEF PipelineOK, PairsStand, Stands
    <3>2. <<id, g, h>> \in E
      BY <1>2, <1>7, <2>1, <2>3
    <3> QED BY <2>1, <2>2, <3>1, <3>2
  <2>4. CASE <<id, g, h>> \notin B
    <3>1. PICK i \in 1 .. n, j \in 1 .. n : o[i] = g /\ o[j] = h /\ (g # h => i < j)
      BY <1>6, <1>7, <2>1, <2>4 DEF PipelineOK, PairsStand, Stands
    <3>2. <<id, g, h>> \notin E
      BY <2>4
    <3> QED BY <2>1, <2>2, <3>1, <3>2
  <2> QED BY <2>3, <2>4
<1>13. CalledKnown(id, q, Q, C)
  <2> SUFFICES ASSUME NEW v \in 1 .. y, r[v] \in Range(AppSinks), <<id, r[v]>> \notin C
               PROVE  <<id, r[v], r[v]>> \in Q
    BY <1>5, <1>8 DEF CalledKnown
  <2>1. PICK i \in 1 .. n : i = closing(x, v) /\ r[v] = o[i] /\ i # x
    BY <1>9, <1>10
  <2>2. <<id, o[i], o[i]>> \in P
    BY <1>6, <1>7, <2>1 DEF PipelineOK, CalledKnown
  <2>3. o[i] # o[x]
    BY <1>6, <1>7, <2>1 DEF PipelineOK, CalledOnce
  <2> QED BY <1>2, <1>7, <2>1, <2>2, <2>3
<1>14. \A g, h : <<id, g, h>> \in E => <<id, g, h>> \in Q
  BY DEF PipelineOK
<1> QED BY <1>1, <1>11, <1>12, <1>13, <1>14 DEF PipelineOK

----------------------------------------------------------------------------
(* The sinks of all pipelines *)

\* The target is called at i + 1, or there is none (i is negative, or the first of
\* no sinks).
LEMMA FoundIndex ==
  ASSUME NEW p, NEW n \in Nat, NEW k \in Nat, Sized(p, n, k), NEW t,
         NEW i, i = findStageIndex(p, t)
  PROVE  /\ i \in Int /\ (n # 0 => i < n)
         /\ i \in 0 .. n - 1 => named(p, t) = {callOrder(p)[i + 1]}
         /\ i \notin 0 .. n - 1 => named(p, t) = {}
<1>1. stageCount(p) = n
  BY DEF stageCount, Sized
<1>2. i \in Int /\ (n # 0 => i < n)
  <2>1. CASE t = STAGE_START
    BY <2>1 DEF findStageIndex
  <2>2. CASE t # STAGE_START /\ t = STAGE_END
    BY <1>1, <2>2 DEF findStageIndex
  <2>3. CASE t # STAGE_START /\ t # STAGE_END
    <3>1. PICK found : found = {j \in 1 .. n : p.order[j] = t}
      OBVIOUS
    <3>2. i = IF found = {} THEN NO_TARGET ELSE Min(found) - 1
      BY <1>1, <2>3, <3>1 DEF findStageIndex
    <3>3. CASE found = {}
      BY <3>2, <3>3 DEF NO_TARGET
    <3>4. CASE found # {}
      <4>1. found \subseteq Nat
        BY <3>1
      <4>2. \E j \in found : \A l \in found : j <= l
        BY <3>4, <4>1, LeastNumber
      <4>3. Min(found) \in found
        BY <4>2 DEF Min
      <4>4. Min(found) \in 1 .. n
        BY <3>1, <4>3
      <4> QED BY <3>2, <3>4, <4>4
    <3> QED BY <3>3, <3>4
  <2> QED BY <2>1, <2>2, <2>3
<1>3. DOMAIN callOrder(p) = 1 .. n
  BY CallsOf
<1>4. named(p, t) = {callOrder(p)[j] : j \in {i + 1} \cap 1 .. n}
  BY <1>3 DEF named
<1>5. ASSUME i \in 0 .. n - 1
      PROVE  named(p, t) = {callOrder(p)[i + 1]}
  <2>1. {i + 1} \cap 1 .. n = {i + 1}
    BY <1>5
  <2> QED BY <1>4, <2>1
<1>6. ASSUME i \notin 0 .. n - 1
      PROVE  named(p, t) = {}
  <2>1. {i + 1} \cap 1 .. n = {}
    BY <1>2, <1>6
  <2> QED BY <1>4, <2>1
<1> QED BY <1>2, <1>5, <1>6

SinksTyped == sinks \in [Ids -> Pipelines] /\ removals \in Nat /\ placed \subseteq Ids \X Names \X Names

\* As long as no sink was removed, the places in stages are those in use.
NotYetConfused ==
  removals = 0 =>
    /\ confused = {}
    /\ \A id \in Ids : \A i \in DOMAIN sinks[id].order : sinks[id].order[i] < Len(sinks[id].order)

SinkInv ==
  SinksTyped /\ NotYetConfused /\ \A id \in Ids : PipelineOK(id, sinks[id], placed, behind, confused)

\* What holds of a pipeline after a step is what holds of what it is then.
LEMMA PrimedOK ==
  ASSUME NEW id
  PROVE  PipelineOK(id, sinks[id], placed, behind, confused)'
           <=> PipelineOK(id, sinks'[id], placed', behind', confused')
BY DEF PipelineOK, CalledOnce, PairsStand, Stands, CalledKnown, callOrder, stageCount

LEMMA SinkSame ==
  ASSUME SinkInv, UNCHANGED <<sinks, placed, behind, confused, removals>>
  PROVE  SinkInv'
<1>1. SinksTyped' /\ NotYetConfused'
  BY DEF SinkInv, SinksTyped, NotYetConfused
<1>2. ASSUME NEW id \in Ids
      PROVE  PipelineOK(id, sinks[id], placed, behind, confused)'
  BY PrimedOK DEF SinkInv
<1> QED BY <1>1, <1>2 DEF SinkInv

LEMMA SinkInvInit == Init => SinkInv
<1> SUFFICES ASSUME Init
             PROVE  SinkInv
  OBVIOUS
<1>1. sinks = EngineStages /\ removals = 0 /\ placed = {} /\ behind = {} /\ confused = {}
  BY DEF Init, EventInit
<1>2. NoStages \in Pipelines /\ Sized(NoStages, 0, 0) /\ callOrder(NoStages) = <<>>
  <2>a. PICK s : s = <<>>
    OBVIOUS
  <2>b. s \in Seq(Names) /\ s \in Seq(Nat) /\ Len(s) = 0 /\ DOMAIN s = 1 .. 0
    BY <2>a
  <2>c. NoStages = [stages |-> s, order |-> s]
    BY <2>a DEF NoStages
  <2>1. PICK e : e = NoStages /\ e.stages = s /\ e.order = s
    BY <2>c
  <2>2. e.stages \in Seq(Names) /\ e.order \in Seq(Nat) /\ Len(e.order) = 0 /\ Len(e.stages) = 0
    BY <2>b, <2>1
  <2>3. NoStages \in Pipelines
    <3>1. PICK z \in Nat : z = 0
      OBVIOUS
    <3>2. \A i \in 1 .. z : s[i] < z
      BY <3>1
    <3>3. Len(s) = z /\ z <= z
      BY <2>b, <3>1
    <3>4. [stages |-> s, order |-> s] \in Pipelines
      BY <2>b, <3>2, <3>3, PipelineSized
    <3> QED BY <2>c, <3>4
  <2>4. DOMAIN e.order = 1 .. 0
    BY <2>b, <2>1
  <2>5. Sized(e, 0, 0)
    BY <2>2, <2>4 DEF Sized
  <2>6. callOrder(e) = <<>>
    BY <2>2 DEF callOrder, stageCount
  <2> QED BY <2>1, <2>3, <2>5, <2>6
<1>3. ASSUME NEW id \in Ids
      PROVE  /\ EngineStages[id] \in Pipelines
             /\ \A i \in DOMAIN EngineStages[id].order :
                  EngineStages[id].order[i] < Len(EngineStages[id].order)
             /\ PipelineOK(id, EngineStages[id], {}, {}, {})
  <2>1. EngineStages[id] = NoStages \/ \E f \in EngineSinks : EngineStages[id] = Stage(f)
    BY DEF EngineStages, EngineSinks
  <2>2. CASE EngineStages[id] = NoStages
    <3>1. DOMAIN NoStages.order = {} /\ DOMAIN callOrder(NoStages) = {}
      BY <1>2 DEF NoStages
    <3>2. PipelineOK(id, NoStages, {}, {}, {})
      BY <3>1 DEF PipelineOK, CalledOnce, PairsStand, CalledKnown
    <3> QED BY <1>2, <2>2, <3>1, <3>2
  <2>3. ASSUME NEW f \in EngineSinks, EngineStages[id] = Stage(f)
        PROVE  /\ EngineStages[id] \in Pipelines
               /\ \A i \in DOMAIN EngineStages[id].order :
                    EngineStages[id].order[i] < Len(EngineStages[id].order)
               /\ PipelineOK(id, EngineStages[id], {}, {}, {})
    <3>1. PICK q : q = Stage(f)
      OBVIOUS
    <3>2. PICK z \in Nat : z = 0
      OBVIOUS
    <3>3. f \in Names /\ f \notin Range(AppSinks)
      BY AppSinksAssumption DEF Names
    <3>4. PICK x \in Nat : q \in Pipelines /\ Inserted(q, NoStages, z, f, z) /\ Sized(q, z + 1, x)
      BY <1>2, <3>1, <3>2, <3>3, InsertedIs DEF Stage
    <3>5. Sized(q, 1, x) /\ q.order[1] = 0 /\ callOrder(q)[1] = f
      BY <3>2, <3>4 DEF Inserted
    <3>6. DOMAIN callOrder(q) = 1 .. 1 /\ DOMAIN q.order = 1 .. 1 /\ Len(q.order) = 1
      BY <3>5, CallsOf DEF Sized
    <3>7. PipelineOK(id, q, {}, {}, {})
      BY <3>3, <3>5, <3>6 DEF PipelineOK, CalledOnce, PairsStand, CalledKnown
    <3> QED BY <2>3, <3>1, <3>4, <3>5, <3>6, <3>7
  <2> QED BY <2>1, <2>2, <2>3
<1>4. sinks \in [Ids -> Pipelines]
  BY <1>1, <1>3 DEF EngineStages
<1>5. SinksTyped
  BY <1>1, <1>4 DEF SinksTyped
<1> QED BY <1>1, <1>3, <1>5 DEF SinkInv, NotYetConfused

LEMMA PlacedKeeps ==
  ASSUME SinkInv, NEW id \in Ids, NEW f \in Range(AppSinks), ~appRegistered(f),
         NEW n \in Nat, NEW k \in Nat, Sized(sinks[id], n, k),
         NEW a \in Nat, NEW c, c = IF a < n THEN a ELSE n,
         NEW pairs, NEW un, PairsFit(pairs, un, sinks[id], c, f, n),
         sinks' = [sinks EXCEPT ![id] = insertStage(sinks[id], a, f)],
         Placed(id, f, pairs, un), removals' = removals
  PROVE  SinkInv'
<1>1. PICK p \in Pipelines : p = sinks[id]
  BY DEF SinkInv, SinksTyped
<1>2. PICK q : q = insertStage(p, a, f)
  OBVIOUS
<1>3. f \in Names
  BY DEF Names
<1>4. PICK x \in Nat : q \in Pipelines /\ Inserted(q, p, c, f, n) /\ c \in 0 .. n /\ Sized(q, n + 1, x)
  BY <1>1, <1>2, <1>3, InsertedIs
<1>5. sinks' \in [Ids -> Pipelines] /\ sinks'[id] = q /\ \A jd \in Ids : jd # id => sinks'[jd] = sinks[jd]
  BY <1>1, <1>2, <1>4 DEF SinkInv, SinksTyped
<1>6. /\ placed' = placed \cup {<<id, f, f>>} \cup {<<id, u[1], u[2]>> : u \in pairs}
      /\ behind' = behind \cup {<<id, u[1], u[2]>> : u \in un}
  BY DEF Placed
<1>7. confused' = IF nextPlaceInUse(p)
                  THEN confused \cup {<<id, f>>, <<id, p.stages[stageCount(p) + 1]>>} ELSE confused
  BY <1>1 DEF Placed
<1>8. SinksTyped'
  <2>1. /\ DOMAIN callOrder(p) = 1 .. n
        /\ \A i \in 1 .. n : callOrder(p)[i] \in Names
    BY <1>1, CallsOf
  <2>2. (c >= 1 => callOrder(p)[c] \in Names) /\ (c < n => callOrder(p)[c + 1] \in Names)
    <3>1. (c >= 1 => c \in 1 .. n) /\ (c < n => c + 1 \in 1 .. n)
      BY <1>4
    <3> QED BY <2>1, <3>1
  <2>3. \A u \in pairs : u[1] \in Names /\ u[2] \in Names
    <3>1. \A u \in pairs \ un : u[1] \in Names /\ u[2] \in Names
      BY <1>1, <1>3, <2>2 DEF PairsFit
    <3>2. \A i \in 1 .. c : i \in 1 .. n
      BY <1>4
    <3>3. \A u \in un : u[1] \in Names /\ u[2] \in Names
      BY <1>1, <1>3, <2>1, <3>2 DEF PairsFit
    <3> QED BY <3>1, <3>3
  <2>4. placed' \subseteq Ids \X Names \X Names
    BY <1>3, <1>6, <2>3 DEF SinkInv, SinksTyped
  <2> QED BY <1>5, <2>4 DEF SinkInv, SinksTyped
<1>9. NotYetConfused'
  <2> SUFFICES ASSUME removals = 0
               PROVE  /\ confused' = {}
                      /\ \A jd \in Ids : \A i \in DOMAIN sinks'[jd].order :
                           sinks'[jd].order[i] < Len(sinks'[jd].order)
    BY DEF NotYetConfused
  <2>1. /\ confused = {}
        /\ \A jd \in Ids : \A i \in DOMAIN sinks[jd].order : sinks[jd].order[i] < Len(sinks[jd].order)
    BY DEF SinkInv, NotYetConfused
  <2>2. Len(p.order) = n /\ DOMAIN p.order = 1 .. n /\ stageCount(p) = n
    BY <1>1 DEF Sized, stageCount
  <2>3. \A i \in 1 .. n : p.order[i] \in Nat /\ p.order[i] < n
    BY <1>1, <2>1, <2>2 DEF Sized
  <2>4. ~nextPlaceInUse(p)
    BY <2>2, <2>3 DEF nextPlaceInUse, Contains
  <2>5. Len(q.order) = n + 1 /\ DOMAIN q.order = 1 .. n + 1
    BY <1>4 DEF Sized
  <2>6. ASSUME NEW j \in 1 .. n + 1
        PROVE  q.order[j] < n + 1
    <3>1. j = c + 1 \/ \E i \in 1 .. n : j = shifted(c, i)
      BY ONLY <1>4, n \in Nat, <2>6, ShiftedFacts
    <3>2. CASE j = c + 1
      <4>1. q.order[j] = n
        BY <1>4, <3>2 DEF Inserted
      <4> QED BY <4>1
    <3>3. ASSUME NEW i \in 1 .. n, j = shifted(c, i)
          PROVE  q.order[j] < n + 1
      <4>1. q.order[j] = p.order[i]
        BY <1>4, <3>3 DEF Inserted
      <4>2. p.order[i] \in Nat /\ p.order[i] < n
        BY <2>3
      <4> QED BY <4>1, <4>2
    <3> QED BY <3>1, <3>2, <3>3
  <2>7. \A jd \in Ids : \A i \in DOMAIN sinks'[jd].order : sinks'[jd].order[i] < Len(sinks'[jd].order)
    <3> SUFFICES ASSUME NEW jd \in Ids, NEW i \in DOMAIN sinks'[jd].order
                 PROVE  sinks'[jd].order[i] < Len(sinks'[jd].order)
      OBVIOUS
    <3>1. CASE jd = id
      BY <1>5, <2>5, <2>6, <3>1
    <3>2. CASE jd # id
      BY <1>5, <2>1, <3>2
    <3> QED BY <3>1, <3>2
  <2> QED BY <1>7, <2>1, <2>4, <2>7
<1>10. \A jd \in Ids : PipelineOK(jd, sinks[jd], placed, behind, confused)
  BY DEF SinkInv
<1>11. PipelineOK(id, q, placed', behind', confused')
  <2>1. <<id, f, f>> \notin placed
    BY DEF appRegistered
  <2>2. PipelineOK(id, p, placed, behind, confused) /\ Sized(p, n, k) /\ PairsFit(pairs, un, p, c, f, n)
    BY <1>1, <1>10
  <2> QED BY <1>2, <1>6, <1>7, <2>1, <2>2, InsertOK
<1>12. ASSUME NEW jd \in Ids, jd # id
       PROVE  PipelineOK(jd, sinks'[jd], placed', behind', confused')
  <2>1. \A g, h : <<jd, g, h>> \in placed' <=> <<jd, g, h>> \in placed
    BY <1>6, <1>12
  <2>2. \A g : <<jd, g>> \in confused' <=> <<jd, g>> \in confused
    BY <1>7, <1>12
  <2>3. \A g, h : <<jd, g, h>> \in behind' <=> <<jd, g, h>> \in behind
    BY <1>6, <1>12
  <2> QED BY <1>5, <1>10, <1>12, <2>1, <2>2, <2>3, OtherOK
<1>13. ASSUME NEW jd \in Ids
       PROVE  PipelineOK(jd, sinks[jd], placed, behind, confused)'
  <2>1. PipelineOK(jd, sinks'[jd], placed', behind', confused')
    BY <1>5, <1>11, <1>12
  <2> QED BY <2>1, PrimedOK
<1> QED BY <1>8, <1>9, <1>13 DEF SinkInv

\* A sink comes right after a target, or right before it, or between two.
LEMMA RegistersKeeps ==
  ASSUME SinkInv, NEW id \in AppIds, NEW f \in Range(AppSinks), AppRegisters(f, id)
  PROVE  SinkInv'
<1>1. id \in Ids
  BY IdsAssumption
<1>2. PICK p \in Pipelines : p = sinks[id]
  BY <1>1 DEF SinkInv, SinksTyped
<1>3. PICK n \in Nat, k \in Nat : Sized(p, n, k)
  BY SizedPipeline
<1>4. ~appRegistered(f) /\ removals' = removals
  BY DEF AppRegisters
<1>5. CASE sinks' = [sinks EXCEPT ![id] = p] /\ NotPlaced
  <2>1. sinks' = sinks
    BY <1>2, <1>5 DEF SinkInv, SinksTyped
  <2> QED BY <1>4, <1>5, <2>1, SinkSame DEF NotPlaced
<1>6. ASSUME NEW a \in Nat, NEW pairs, NEW un,
             sinks' = [sinks EXCEPT ![id] = insertStage(p, a, f)], Placed(id, f, pairs, un),
             NEW c, c = IF a < n THEN a ELSE n, PairsFit(pairs, un, p, c, f, n)
      PROVE  SinkInv'
  BY <1>1, <1>2, <1>3, <1>4, <1>6, PlacedKeeps
<1>7. ASSUME NEW t, NEW i, i = findStageIndex(p, t), NEW a, a = i + 1, a >= 0,
             NEW c, c = IF a < n THEN a ELSE n, NEW g \in named(p, t)
      PROVE  c >= 1 /\ g = callOrder(p)[c]
  <2>1. i \in 0 .. n - 1 /\ named(p, t) = {callOrder(p)[i + 1]}
    BY <1>3, <1>7, FoundIndex
  <2>2. c = i + 1
    BY <1>7, <2>1
  <2> QED BY <1>7, <2>1, <2>2
<1>8. ASSUME NEW t, NEW i, i = findStageIndex(p, t), i >= 0,
             NEW c, c = IF i < n THEN i ELSE n, NEW g \in named(p, t)
      PROVE  c < n /\ g = callOrder(p)[c + 1]
  <2>1. i \in 0 .. n - 1 /\ named(p, t) = {callOrder(p)[i + 1]}
    BY <1>3, <1>8, FoundIndex
  <2>2. c = i
    BY <1>8, <2>1
  <2> QED BY <1>8, <2>1, <2>2
<1>9. ASSUME NEW t, NEW a, a = afterIndex(p, t), RegisterSink(id, f, a),
             IF a < 0 THEN NotPlaced ELSE Placed(id, f, {<<g, f>> : g \in named(p, t)}, {})
      PROVE  SinkInv'
  <2>1. PICK i : i = findStageIndex(p, t)
    OBVIOUS
  <2>2. i \in Int /\ a = i + 1
    BY <1>3, <1>9, <2>1, FoundIndex DEF afterIndex
  <2>3. CASE a < 0
    <3>1. sinks' = [sinks EXCEPT ![id] = p]
      BY <1>2, <1>9, <2>3 DEF RegisterSink, Relocate
    <3> QED BY <1>5, <1>9, <2>3, <3>1
  <2>4. CASE a >= 0
    <3>1. a \in Nat /\ ~(a < 0)
      BY <2>2, <2>4
    <3>2. PICK pairs : pairs = {<<g, f>> : g \in named(p, t)}
      OBVIOUS
    <3>3. PICK c : c = IF a < n THEN a ELSE n
      OBVIOUS
    <3>4. PairsFit(pairs, {}, p, c, f, n)
      BY <1>7, <2>1, <2>2, <2>4, <3>2, <3>3 DEF PairsFit
    <3>5. sinks' = [sinks EXCEPT ![id] = insertStage(p, a, f)]
      BY <1>2, <1>9, <3>1 DEF RegisterSink, Relocate
    <3>6. Placed(id, f, pairs, {})
      BY <1>9, <3>1, <3>2
    <3> QED BY <1>6, <3>1, <3>3, <3>4, <3>5, <3>6
  <2> QED BY <2>2, <2>3, <2>4
<1>10. ASSUME NEW t, NEW a, a = beforeIndex(p, t), RegisterSink(id, f, a),
              IF a < 0 THEN NotPlaced ELSE Placed(id, f, {<<f, g>> : g \in named(p, t)}, {})
       PROVE  SinkInv'
  <2>1. a \in Int /\ a = findStageIndex(p, t)
    BY <1>3, <1>10, FoundIndex DEF beforeIndex
  <2>3. CASE a < 0
    <3>1. sinks' = [sinks EXCEPT ![id] = p]
      BY <1>2, <1>10, <2>3 DEF RegisterSink, Relocate
    <3> QED BY <1>5, <1>10, <2>3, <3>1
  <2>4. CASE a >= 0
    <3>1. a \in Nat /\ ~(a < 0)
      BY <2>1, <2>4
    <3>2. PICK pairs : pairs = {<<f, g>> : g \in named(p, t)}
      OBVIOUS
    <3>3. PICK c : c = IF a < n THEN a ELSE n
      OBVIOUS
    <3>4. PairsFit(pairs, {}, p, c, f, n)
      BY <1>8, <2>1, <2>4, <3>2, <3>3 DEF PairsFit
    <3>5. sinks' = [sinks EXCEPT ![id] = insertStage(p, a, f)]
      BY <1>2, <1>10, <3>1 DEF RegisterSink, Relocate
    <3>6. Placed(id, f, pairs, {})
      BY <1>10, <3>1, <3>2
    <3> QED BY <1>6, <3>1, <3>3, <3>4, <3>5, <3>6
  <2> QED BY <2>1, <2>3, <2>4
<1>11. ASSUME NEW s, NEW t, NEW a, a = afterIndex(p, t), NEW b, b = beforeIndex(p, s),
              NEW failed, failed = (noTarget(p, s, t) \/ wrongOrder(p, s, t)),
              RegisterSinkBetween(id, f, s, t),
              IF failed THEN NotPlaced
              ELSE Placed(id, f, {<<g, f>> : g \in named(p, t)} \cup {<<f, g>> : g \in named(p, s)},
                          IF a = b THEN {} ELSE {<<f, g>> : g \in named(p, s)})
       PROVE  SinkInv'
  <2>1. PICK i : i = findStageIndex(p, t)
    OBVIOUS
  <2>2. i \in Int /\ a = i + 1 /\ b = findStageIndex(p, s)
    BY <1>3, <1>11, <2>1, FoundIndex DEF afterIndex, beforeIndex
  <2>3. CASE failed
    <3>1. sinks' = [sinks EXCEPT ![id] = p]
      BY <1>2, <1>11, <2>3 DEF RegisterSinkBetween, Relocate
    <3> QED BY <1>5, <1>11, <2>3, <3>1
  <2>4. CASE ~failed
    <3>1. a \in Nat /\ b \in Nat /\ b <= a
      <4>1. ~noTarget(p, s, t) /\ ~wrongOrder(p, s, t)
        BY <1>11, <2>4
      <4>2. ~(a < 0) /\ ~(b < 0) /\ ~(a < b)
        BY <1>11, <4>1 DEF noTarget, wrongOrder
      <4>3. b \in Int
        BY <1>3, <2>2, FoundIndex
      <4> QED BY <2>2, <4>2, <4>3
    <3>2. PICK pairs : pairs = {<<g, f>> : g \in named(p, t)} \cup {<<f, g>> : g \in named(p, s)}
      OBVIOUS
    <3>a. PICK un : un = IF a = b THEN {} ELSE {<<f, g>> : g \in named(p, s)}
      OBVIOUS
    <3>3. PICK c : c = IF a < n THEN a ELSE n
      OBVIOUS
    <3>4. ASSUME NEW g \in named(p, t)
          PROVE  c >= 1 /\ g = callOrder(p)[c]
      BY <1>7, <2>1, <2>2, <3>1, <3>3
    <3>5. ASSUME a = b, NEW g \in named(p, s)
          PROVE  c < n /\ g = callOrder(p)[c + 1]
      BY <1>8, <2>2, <3>1, <3>3, <3>5
    <3>b. ASSUME a # b, NEW g \in named(p, s)
          PROVE  \E j \in 1 .. c : g = callOrder(p)[j]
      <4>1. b \in 0 .. n - 1 /\ named(p, s) = {callOrder(p)[b + 1]}
        BY <1>3, <2>2, <3>1, <3>b, FoundIndex
      <4>2. b + 1 \in 1 .. c
        BY <3>1, <3>3, <3>b, <4>1
      <4> QED BY <3>b, <4>1, <4>2
    <3>6. PairsFit(pairs, un, p, c, f, n)
      <4>1. CASE a = b
        BY <3>2, <3>a, <3>4, <3>5, <4>1 DEF PairsFit
      <4>2. CASE a # b
        <5>1. \A u \in un : \E j \in 1 .. c : u = <<f, callOrder(p)[j]>>
          BY <3>a, <3>b, <4>2
        <5>2. \A u \in pairs \ un : \E g \in named(p, t) : u = <<g, f>>
          BY <3>2, <3>a, <4>2
        <5> QED BY <3>2, <3>a, <3>4, <4>2, <5>1, <5>2 DEF PairsFit
      <4> QED BY <4>1, <4>2
    <3>7. sinks' = [sinks EXCEPT ![id] = insertStage(p, a, f)]
      BY <1>2, <1>11, <2>4 DEF RegisterSinkBetween, Relocate
    <3>8. Placed(id, f, pairs, un)
      BY <1>11, <2>4, <3>2, <3>a
    <3> QED BY <1>6, <3>1, <3>3, <3>6, <3>7, <3>8
  <2> QED BY <2>3, <2>4
<1>12. \/ \E t \in AppTargets :
            \/ /\ RegisterSink(id, f, afterIndex(p, t))
               /\ IF afterIndex(p, t) < 0 THEN NotPlaced
                  ELSE Placed(id, f, {<<g, f>> : g \in named(p, t)}, {})
            \/ /\ RegisterSink(id, f, beforeIndex(p, t))
               /\ IF beforeIndex(p, t) < 0 THEN NotPlaced
                  ELSE Placed(id, f, {<<f, g>> : g \in named(p, t)}, {})
       \/ \E s, t \in AppTargets :
            /\ RegisterSinkBetween(id, f, s, t)
            /\ IF noTarget(p, s, t) \/ wrongOrder(p, s, t) THEN NotPlaced
               ELSE Placed(id, f, {<<g, f>> : g \in named(p, t)} \cup {<<f, g>> : g \in named(p, s)},
                           IF afterIndex(p, t) = beforeIndex(p, s) THEN {}
                           ELSE {<<f, g>> : g \in named(p, s)})
  BY <1>2 DEF AppRegisters
<1> QED BY <1>9, <1>10, <1>11, <1>12

\* A sink is removed, or the target names none.
LEMMA RemovesKeeps ==
  ASSUME SinkInv, NEW id \in AppIds, AppRemoves(id)
  PROVE  SinkInv'
<1>1. id \in Ids
  BY IdsAssumption
<1>2. PICK p \in Pipelines : p = sinks[id]
  BY <1>1 DEF SinkInv, SinksTyped
<1>3. PICK n \in Nat, k \in Nat : Sized(p, n, k)
  BY SizedPipeline
<1>4. PICK t : /\ UnregisterSink(id, t) /\ confused' = confused
               /\ placed' = {q \in placed : q[1] # id \/ {q[2], q[3]} \cap named(p, t) = {}}
               /\ behind' = {q \in behind : q[1] # id \/ {q[2], q[3]} \cap named(p, t) = {}}
               /\ removals' = IF named(p, t) = {} THEN removals ELSE removals + 1
  BY <1>2 DEF AppRemoves
<1>5. PICK i : i = findStageIndex(p, t)
  OBVIOUS
<1>6. /\ i \in Int /\ (n # 0 => i < n)
      /\ i \in 0 .. n - 1 => named(p, t) = {callOrder(p)[i + 1]}
      /\ i \notin 0 .. n - 1 => named(p, t) = {}
  <2>1. i \in Int /\ (n # 0 => i < n)
    BY <1>3, <1>5, FoundIndex
  <2>2. i \in 0 .. n - 1 => named(p, t) = {callOrder(p)[i + 1]}
    BY <1>3, <1>5, FoundIndex
  <2>3. i \notin 0 .. n - 1 => named(p, t) = {}
    BY <1>3, <1>5, FoundIndex
  <2> QED BY <2>1, <2>2, <2>3
<1>7. sinks' = [sinks EXCEPT ![id] = IF i < 0 THEN p ELSE removeStage(p, i)]
  BY <1>2, <1>4, <1>5 DEF UnregisterSink, Relocate
<1>8. CASE i \notin 0 .. n - 1
  <2>1. i < 0 \/ n = 0
    BY <1>6, <1>8
  <2>2. n = 0 => removeStage(p, i) = p
    BY <1>3 DEF removeStage, stageCount, Sized, Pipelines
  <2>3. sinks' = sinks
    BY <1>2, <1>7, <2>1, <2>2 DEF SinkInv, SinksTyped
  <2>4. named(p, t) = {}
    BY <1>6, <1>8
  <2>5. placed' = placed /\ behind' = behind /\ removals' = removals
    BY <1>4, <2>4
  <2> QED BY <1>4, <2>3, <2>5, SinkSame
<1>9. CASE i \in 0 .. n - 1
  <2>1. PICK q : q = removeStage(p, i)
    OBVIOUS
  <2>2. q \in Pipelines
    BY <1>3, <1>9, <2>1, RemovedIs
  <2>3. sinks' \in [Ids -> Pipelines] /\ sinks'[id] = q /\ \A jd \in Ids : jd # id => sinks'[jd] = sinks[jd]
    BY <1>1, <1>2, <1>7, <1>9, <2>1, <2>2 DEF SinkInv, SinksTyped
  <2>4. PICK x : x = callOrder(p)[i + 1] /\ named(p, t) = {x}
    BY <1>6, <1>9
  <2>5. /\ placed' = {u \in placed : u[1] # id \/ {u[2], u[3]} \cap {x} = {}}
        /\ behind' = {u \in behind : u[1] # id \/ {u[2], u[3]} \cap {x} = {}}
        /\ removals' = removals + 1
    BY <1>4, <2>4
  <2>6. SinksTyped' /\ NotYetConfused'
    BY <2>3, <2>5 DEF SinkInv, SinksTyped, NotYetConfused
  <2>7. \A jd \in Ids : PipelineOK(jd, sinks[jd], placed, behind, confused)
    BY DEF SinkInv
  <2>8. PipelineOK(id, q, placed', behind', confused)
    <3>1. /\ \A f, g : <<id, f, g>> \in placed' <=> <<id, f, g>> \in placed /\ f # x /\ g # x
          /\ \A f, g : <<id, f, g>> \in behind' <=> <<id, f, g>> \in behind /\ f # x /\ g # x
      BY <2>5
    <3>2. PipelineOK(id, p, placed, behind, confused)
      BY <1>1, <1>2, <2>7
    <3> QED BY <1>3, <1>9, <2>1, <2>4, <3>1, <3>2, RemoveOK
  <2>9. ASSUME NEW jd \in Ids, jd # id
        PROVE  PipelineOK(jd, sinks[jd], placed', behind', confused)
    <3>1. /\ \A f, g : <<jd, f, g>> \in placed' <=> <<jd, f, g>> \in placed
          /\ \A f, g : <<jd, f, g>> \in behind' <=> <<jd, f, g>> \in behind
      BY <2>5, <2>9
    <3> QED BY <2>7, <3>1, OtherOK
  <2>10. ASSUME NEW jd \in Ids
         PROVE  PipelineOK(jd, sinks[jd], placed, behind, confused)'
    <3>1. PipelineOK(jd, sinks'[jd], placed', behind', confused')
      BY <1>4, <2>3, <2>8, <2>9
    <3> QED BY <3>1, PrimedOK
  <2> QED BY <2>6, <2>10 DEF SinkInv
<1> QED BY <1>8, <1>9

LEMMA SinkInvNext ==
  ASSUME SinkInv, [Next]_vars
  PROVE  SinkInv'
<1>1. CASE UNCHANGED vars
  BY <1>1, SinkSame DEF vars, eventVars, registry, engine, history
<1>2. CASE MainFiresNext \/ AppActs \/ PumpEvent \/ PumpDone \/ FrameDone \/ MainStuck
           \/ Shutdown \/ Joined
  <2>1. UNCHANGED <<sinks, placed, behind, confused, removals>>
    BY <1>2 DEF MainFiresNext, MainFires, AppActs, PumpEvent, PumpDone, FrameDone, MainStuck,
                Shutdown, Joined, eventVars, registry, engine, history
  <2> QED BY <2>1, SinkSame
<1>3. CASE \E t \in Threads : JobFires(t) \/ FireGoesOn(t)
  <2>1. UNCHANGED <<sinks, placed, behind, confused, removals>>
    BY <1>3 DEF JobFires, FireBegin, FireGoesOn, FireStep, Write, Mark, registry, engine, history
  <2> QED BY <2>1, SinkSame
<1>4. CASE MainDispatches
  <2>1. CASE (Collect \/ Reroute \/ DispatchTest \/ DispatchReturn) /\ UNCHANGED <<engine, fires>>
    BY <2>1, SinkSame DEF Collect, Reroute, DispatchTest, DispatchReturn, registry, engine, history
  <2>2. CASE StageStep
    <3>1. sinks' = sinks
      BY <2>2, StageCalls DEF CallStage, registry
    <3>2. UNCHANGED <<placed, behind, confused, removals>>
      BY <2>2 DEF StageStep, windowRequestCloseEvent, allWindowsClosedEvent, engineOnEvent,
                  engineOnResized, AppStage, engine, history
    <3> QED BY <3>1, <3>2, SinkSame
  <2> QED BY <1>4, <2>1, <2>2 DEF MainDispatches, DispatchStep
<1>5. CASE \E f \in Range(AppSinks), id \in AppIds : AppRegisters(f, id)
  BY <1>5, RegistersKeeps
<1>6. CASE \E id \in AppIds : AppRemoves(id)
  BY <1>6, RemovesKeeps
<1> QED BY <1>1, <1>2, <1>3, <1>4, <1>5, <1>6 DEF Next, MainStep, AppSinkStep

LEMMA SinksStand == SinkInv => SinksPlaced
<1> SUFFICES ASSUME SinkInv
             PROVE  SinksPlaced
  OBVIOUS
<1>1. \A id \in Ids : PipelineOK(id, sinks[id], placed, behind, confused)
  BY DEF SinkInv
<1>2. ASSUME NEW u \in placed, {<<u[1], u[2]>>, <<u[1], u[3]>>} \cap confused = {}
      PROVE  LET order == callOrder(sinks[u[1]])
                 places(f) == {i \in DOMAIN order : order[i] = f}
             IN /\ Cardinality(places(u[2])) = 1
                /\ u[2] # u[3] => \A i \in places(u[2]), j \in places(u[3]) :
                                    IF u \in behind THEN j < i ELSE i < j
  <2>1. PICK id \in Ids, f \in Names, g \in Names : u = <<id, f, g>>
    BY DEF SinkInv, SinksTyped
  <2>2. <<id, f, g>> \in placed /\ <<id, f>> \notin confused /\ <<id, g>> \notin confused
        /\ u[1] = id /\ u[2] = f /\ u[3] = g
    BY <1>2, <2>1
  <2>3. PICK o : o = callOrder(sinks[id])
    OBVIOUS
  <2>4. PICK i \in DOMAIN o, j \in DOMAIN o :
          o[i] = f /\ o[j] = g /\ (f # g => IF u \in behind THEN j < i ELSE i < j)
    BY <1>1, <2>1, <2>2, <2>3 DEF PipelineOK, PairsStand, Stands
  <2>5. {x \in DOMAIN o : o[x] = f} = {i}
    BY <1>1, <2>2, <2>3, <2>4 DEF PipelineOK, CalledOnce
  <2>6. {x \in DOMAIN o : o[x] = g} = {j}
    BY <1>1, <2>2, <2>3, <2>4 DEF PipelineOK, CalledOnce
  <2>7. Cardinality({x \in DOMAIN o : o[x] = f}) = 1
    BY <2>5, FS_Singleton
  <2>8. f # g => \A x \in {x \in DOMAIN o : o[x] = f}, y \in {x \in DOMAIN o : o[x] = g} :
                    IF u \in behind THEN y < x ELSE x < y
    BY <2>4, <2>5, <2>6
  <2> QED BY <2>2, <2>3, <2>7, <2>8
<1>3. ASSUME NEW id \in Ids, NEW f \in Range(AppSinks), Contains(callOrder(sinks[id]), f)
      PROVE  <<id, f, f>> \in placed \/ <<id, f>> \in confused
  <2>1. PICK p \in Pipelines : p = sinks[id]
    BY DEF SinkInv, SinksTyped
  <2>2. PICK n \in Nat, k \in Nat : Sized(p, n, k)
    BY SizedPipeline
  <2>3. DOMAIN callOrder(p) = 1 .. n /\ callOrder(p) = [i \in 1 .. n |-> p.stages[p.order[i] + 1]]
    BY <2>2 DEF callOrder, stageCount, Sized
  <2>4. Len(callOrder(p)) = n
    BY <2>3, CountedLen
  <2>5. PICK i \in 1 .. n : callOrder(p)[i] = f
    BY <1>3, <2>1, <2>4 DEF Contains
  <2> QED BY <1>1, <2>1, <2>3, <2>5 DEF PipelineOK, CalledKnown
<1>4. confused # {} => removals > 0
  BY DEF SinkInv, SinksTyped, NotYetConfused
<1> QED BY <1>2, <1>3, <1>4 DEF SinksPlaced

\* A sink that was registered is called once for an event, and every registration
\* and removal leaves it where it is in relation to the targets it was registered
\* with: where it was asked to be, or, if it was registered between two that were
\* not neighbours, behind both (event.h:83 against event.c:278-289); until it shares
\* its id with another sink (event.c:157, :178, :235).
THEOREM SinksStayPlaced == Spec => []SinksPlaced
<1>1. Init => SinkInv
  BY SinkInvInit
<1>2. SinkInv /\ [Next]_vars => SinkInv'
  BY SinkInvNext
<1>3. SinkInv => SinksPlaced
  BY SinksStand
<1> QED BY <1>1, <1>2, <1>3, PTL DEF Spec

-----------------------------------------------------------------------------
(* The systems of a scene *)

System == [exists : BOOLEAN, read : SUBSET Resources, write : SUBSET Resources]
Fates == {"none", "failed", "waiting", "refused", "running", "hung", "done"}

\* The variables are of their types.
SystemsTyped ==
  /\ systemOrder \in Seq(System)
  /\ phase \in {"between", "run", "wait"}
  /\ index \in Nat \ {0} /\ chunks \subseteq Places
  /\ lastReader \in [Resources -> Nat] /\ lastWriter \in [Resources -> Nat]
  /\ batches \in [Places -> Fates] /\ dependencies \in [Places -> Seq(Nat)]
  /\ fence \in Nat
  /\ offset \in [FrameData -> Nat \cup {NoOffset}] /\ end \in Nat /\ capacity \in Nat
  /\ frames \in Nat /\ failures \in Nat

dispatched(i) == batches[i] # "none"
reads(i) == systemOrder[i].read

\* k is the last system before the n-th that writes, or reads, r.
writerBefore(k, n, r) ==
  /\ k \in chunks /\ k < n /\ r \in writes(k)
  /\ \A i \in chunks : k < i /\ i < n => r \notin writes(i)
readerBefore(k, n, r) ==
  /\ k \in chunks /\ k < n /\ r \in reads(k)
  /\ \A i \in chunks : k < i /\ i < n => r \notin reads(i)

\* The j-th system waits for the batch of the k-th, if there is one.
waitsFor(j, k) ==
  batches[k] = "failed" \/ \E n \in DOMAIN dependencies[j] : dependencies[j][n] = k

\* Batches belong to the systems with chunks that were scanned.
DispatchedAreScanned ==
  \A i \in Places : dispatched(i) <=> i \in chunks /\ i < index

\* What the main thread remembers while it scans.
LastsRemembered ==
  phase = "run" =>
    \A r \in Resources :
      /\ IF lastWriter[r] = NoSystem THEN \A i \in chunks : i < index => r \notin writes(i)
         ELSE writerBefore(lastWriter[r], index, r)
      /\ IF lastReader[r] = NoSystem THEN \A i \in chunks : i < index => r \notin reads(i)
         ELSE readerBefore(lastReader[r], index, r)

\* A batch waits for the last writer of all it uses and the last reader of all it
\* writes, and for earlier ones only.
DependenciesCollected ==
  \A j \in Places : dispatched(j) =>
    /\ \A n \in DOMAIN dependencies[j] : dependencies[j][n] \in 0 .. j - 1
    /\ Len(dependencies[j]) <= j
    /\ \A r \in uses(j) : \A k \in chunks : writerBefore(k, j, r) => waitsFor(j, k)
    /\ \A r \in writes(j) : \A k \in chunks : readerBefore(k, j, r) => waitsFor(j, k)

\* A batch that was started has not overtaken one it depends on.
NoneOvertaken ==
  \A j \in Places : started(j) => \A k \in awaited(j) : batches[k] = "done"

\* The fence counts the batches that are not done.
counted == {i \in Places : batches[i] \notin {"none", "done"}}
FenceIsCount ==
  /\ fence = Cardinality(counted)
  /\ phase = "between" => counted = {}

\* Only dispatched systems have dependencies.
RestUnset == \A i \in Places : ~dispatched(i) => dependencies[i] = <<>>

\* Blocks of frame data lie below each other, and what was dispatched has its own.
placedOffsets == {f \in FrameData : offset[f] # NoOffset}
BlocksPlaced ==
  /\ \A f \in placedOffsets :
       aligned(offset[f], Alignment[f]) = offset[f] /\ offset[f] + Size[f] <= capacity
  /\ \A f, g \in placedOffsets :
       f # g => offset[f] + Size[f] <= offset[g] \/ offset[g] + Size[g] <= offset[f]
  /\ phase = "run" /\ systemOrder # <<>> =>
       \A f \in placedOffsets : offset[f] + Size[f] <= end
  /\ \A i \in chunks : i < index => writes(i) \cap FrameData \subseteq placedOffsets

SystemsInv ==
  /\ SystemsTyped
  /\ DispatchedAreScanned /\ RestUnset
  /\ LastsRemembered /\ DependenciesCollected
  /\ NoneOvertaken /\ FenceIsCount
  /\ BlocksPlaced

-----------------------------------------------------------------------------
(* Functions defined by recursion over numbers *)

\* A function of the numbers up to N that says how each value follows from the one
\* before exists.
LEMMA RecursionExists ==
  ASSUME NEW S, NEW base \in S, NEW N \in Nat, NEW G \in [1 .. N -> [S -> S]]
  PROVE  \E f \in [0 .. N -> S] : f[0] = base /\ \A k \in 1 .. N : f[k] = G[k][f[k - 1]]
<1> DEFINE upTo(f, n) == f[0] = base /\ \A k \in 1 .. n : f[k] = G[k][f[k - 1]]
<1>1. PICK T : T = {n \in Nat : n <= N => \E f \in [0 .. n -> S] : upTo(f, n)}
  OBVIOUS
<1>2. 0 \in T
  <2>1. PICK f : f = [k \in 0 .. 0 |-> base]
    OBVIOUS
  <2>2. f \in [0 .. 0 -> S] /\ upTo(f, 0)
    BY <2>1
  <2> QED BY <1>1, <2>2
<1>3. ASSUME NEW n \in Nat, n \in T
      PROVE  n + 1 \in T
  <2> SUFFICES ASSUME n + 1 <= N
               PROVE  \E g \in [0 .. n + 1 -> S] : upTo(g, n + 1)
    BY <1>1
  <2>1. PICK f \in [0 .. n -> S] : upTo(f, n)
    BY <1>1, <1>3
  <2>2. PICK last : last = G[n + 1][f[n]]
    OBVIOUS
  <2>3. last \in S
    <3>1. n \in 0 .. n /\ n + 1 \in 1 .. N
      OBVIOUS
    <3>2. f[n] \in S /\ G[n + 1] \in [S -> S]
      BY <2>1, <3>1
    <3> QED BY <2>2, <3>2
  <2>4. PICK g : g = [k \in 0 .. n + 1 |-> IF k = n + 1 THEN last ELSE f[k]]
    OBVIOUS
  <2>5. g \in [0 .. n + 1 -> S]
    BY <2>1, <2>3, <2>4
  <2>6. \A k \in 0 .. n : g[k] = f[k]
    BY <2>4
  <2>7. g[n + 1] = last
    BY <2>4
  <2>8. g[0] = base
    BY <2>1, <2>6
  <2>9. ASSUME NEW k \in 1 .. n + 1
        PROVE  g[k] = G[k][g[k - 1]]
    <3>1. CASE k = n + 1
      <4>1. k - 1 = n /\ n \in 0 .. n
        BY <3>1
      <4> QED BY <2>2, <2>6, <2>7, <3>1, <4>1
    <3>2. CASE k # n + 1
      <4>1. k \in 1 .. n /\ k \in 0 .. n /\ k - 1 \in 0 .. n
        BY <3>2
      <4> QED BY <2>1, <2>6, <4>1
    <3> QED BY <3>1, <3>2
  <2> QED BY <2>5, <2>8, <2>9
<1>4. Nat \subseteq T
  BY <1>2, <1>3, ByInduction
<1> QED BY <1>1, <1>4

\* A set of numbers up to n that is not empty has a greatest one.
LEMMA GreatestNumber ==
  ASSUME NEW n \in Nat, NEW S, S \subseteq 0 .. n, S # {}
  PROVE  \E p \in S : \A u \in S : u <= p
<1>1. PICK D : D = {d \in Nat : n - d \in S}
  OBVIOUS
<1>2. D \subseteq Nat /\ D # {}
  <2>1. PICK u \in S : TRUE
    OBVIOUS
  <2>2. n - u \in Nat /\ n - (n - u) = u
    BY <2>1
  <2> QED BY <1>1, <2>1, <2>2
<1>3. PICK d \in D : \A e \in D : d <= e
  BY <1>2, LeastNumber
<1>4. n - d \in S /\ d \in Nat
  BY <1>1
<1>5. ASSUME NEW u \in S
      PROVE  u <= n - d
  <2>1. n - u \in Nat /\ n - (n - u) = u /\ u \in Nat
    OBVIOUS
  <2>2. n - u \in D
    BY <1>1, <2>1
  <2>3. d <= n - u
    BY <1>3, <2>2
  <2> QED BY <1>4, <2>1, <2>3
<1> QED BY <1>4, <1>5

-----------------------------------------------------------------------------
(* Collecting the dependencies of a system *)

\* What the loops over the masks change.
Collecting ==
  [found : Seq(Nat), lastReader : [Resources -> 0 .. index], lastWriter : [Resources -> 0 .. index]]

\* The batch of the k-th system is in the array.
holds(found, k) == \E n \in DOMAIN found : found[n] = batchId(k)

\* The array was made from the systems of o, of which there is none twice.
madeFrom(found, o) ==
  /\ o \in Seq(1 .. index) /\ Len(o) = Len(found)
  /\ \A n \in 1 .. Len(found) : found[n] = batchId(o[n])
  /\ \A n, m \in 1 .. Len(found) : o[n] = o[m] => n = m
Made(found) == found \in Seq(Nat) /\ \E o : madeFrom(found, o)

\* What was in the array stays there.
keptIn(found, longer) == \A k \in Nat : holds(found, k) => holds(longer, k)

LEMMA BatchIdNat ==
  ASSUME NEW k \in Nat
  PROVE  batchId(k) \in Nat
BY DEF batchId, NoBatch

\* One more system: one that is not in the array yet.
LEMMA AddOne ==
  ASSUME NEW found, NEW o, found \in Seq(Nat), madeFrom(found, o), index \in Nat,
         NEW k \in 1 .. index, \A n \in 1 .. Len(o) : o[n] # k
  PROVE  /\ Append(found, batchId(k)) \in Seq(Nat)
         /\ madeFrom(Append(found, batchId(k)), Append(o, k))
         /\ holds(Append(found, batchId(k)), k)
         /\ keptIn(found, Append(found, batchId(k)))
<1>1. PICK x : x = batchId(k)
  OBVIOUS
<1>2. PICK L \in Nat : L = Len(found)
  OBVIOUS
<1>3. PICK new : new = Append(found, x)
  OBVIOUS
<1>4. PICK p : p = Append(o, k)
  OBVIOUS
<1>5. /\ x \in Nat /\ o \in Seq(1 .. index) /\ Len(o) = L
      /\ \A n \in 1 .. L : found[n] = batchId(o[n])
      /\ \A n, m \in 1 .. L : o[n] = o[m] => n = m
  BY <1>1, <1>2, BatchIdNat DEF madeFrom
<1>6. /\ new \in Seq(Nat) /\ Len(new) = L + 1 /\ new[L + 1] = x
      /\ \A n \in 1 .. L : new[n] = found[n]
  BY <1>2, <1>3, <1>5
<1>7. /\ p \in Seq(1 .. index) /\ Len(p) = L + 1 /\ p[L + 1] = k
      /\ \A n \in 1 .. L : p[n] = o[n]
  BY <1>4, <1>5
<1>8. \A n \in 1 .. L : o[n] # k
  BY <1>5
<1>9. madeFrom(new, p)
  <2>1. ASSUME NEW n \in 1 .. L + 1
        PROVE  new[n] = batchId(p[n])
    <3>1. CASE n = L + 1
      BY <1>1, <1>6, <1>7, <3>1
    <3>2. CASE n # L + 1
      <4>1. n \in 1 .. L
        BY <3>2
      <4> QED BY <1>5, <1>6, <1>7, <4>1
    <3> QED BY <3>1, <3>2
  <2>2. ASSUME NEW n \in 1 .. L + 1, NEW m \in 1 .. L + 1, p[n] = p[m]
        PROVE  n = m
    <3>1. CASE n = L + 1 /\ m # L + 1
      <4>1. m \in 1 .. L
        BY <3>1
      <4> QED BY <1>7, <1>8, <2>2, <3>1, <4>1
    <3>2. CASE n # L + 1 /\ m = L + 1
      <4>1. n \in 1 .. L
        BY <3>2
      <4> QED BY <1>7, <1>8, <2>2, <3>2, <4>1
    <3>3. CASE n # L + 1 /\ m # L + 1
      <4>1. n \in 1 .. L /\ m \in 1 .. L
        BY <3>3
      <4> QED BY <1>5, <1>7, <2>2, <4>1
    <3> QED BY <3>1, <3>2, <3>3
  <2>3. \A n \in 1 .. Len(new) : new[n] = batchId(p[n])
    BY <1>6, <2>1
  <2>4. \A n, m \in 1 .. Len(new) : p[n] = p[m] => n = m
    BY <1>6, <2>2
  <2> QED BY <1>6, <1>7, <2>3, <2>4 DEF madeFrom
<1>10. holds(new, k)
  <2>1. L + 1 \in DOMAIN new
    BY <1>6
  <2> QED BY <1>1, <1>6, <2>1 DEF holds
<1>11. keptIn(found, new)
  <2> SUFFICES ASSUME NEW c \in Nat, holds(found, c)
               PROVE  holds(new, c)
    BY DEF keptIn
  <2>1. PICK n \in DOMAIN found : found[n] = batchId(c)
    BY DEF holds
  <2>2. n \in 1 .. L /\ n \in DOMAIN new
    BY <1>2, <1>6
  <2>3. new[n] = batchId(c)
    BY <1>6, <2>1, <2>2
  <2> QED BY <2>2, <2>3 DEF holds
<1> QED BY <1>1, <1>3, <1>4, <1>6, <1>9, <1>10, <1>11

\* Who is in the array is not missing, and who is not was not put there.
LEMMA NotThereYet ==
  ASSUME NEW found, NEW o, madeFrom(found, o), NEW k \in Nat, ~ holds(found, k), found \in Seq(Nat)
  PROVE  \A n \in 1 .. Len(o) : o[n] # k
<1> SUFFICES ASSUME NEW n \in 1 .. Len(o), o[n] = k
             PROVE  FALSE
  OBVIOUS
<1>1. n \in DOMAIN found /\ found[n] = batchId(k)
  BY DEF madeFrom
<1> QED BY <1>1 DEF holds

\* An array has no more elements than there are systems up to this one, and each
\* is the batch of one of them.
LEMMA MadeBound ==
  ASSUME NEW found, Made(found), index \in Nat
  PROVE  /\ Len(found) <= index
         /\ \A n \in DOMAIN found : \E k \in 1 .. index : found[n] = batchId(k)
<1>1. PICK o : madeFrom(found, o)
  BY DEF Made
<1>2. PICK L \in Nat : L = Len(found)
  BY DEF Made
<1>3. o \in Seq(1 .. index) /\ Len(o) = L /\ \A n, m \in 1 .. L : o[n] = o[m] => n = m
  BY <1>1, <1>2 DEF madeFrom
<1>4. o \in [1 .. L -> 1 .. index]
  BY <1>3
<1>5. o \in Injection(1 .. L, 1 .. index)
  BY <1>3, <1>4 DEF Injection, IsInjective
<1>6. IsFiniteSet(1 .. index) /\ Cardinality(1 .. index) = index /\ Cardinality(1 .. L) = L
  BY FS_Interval
<1>7. Cardinality(1 .. L) <= Cardinality(1 .. index)
  BY <1>5, <1>6, FS_Injection
<1>8. L <= index
  BY <1>6, <1>7
<1>9. ASSUME NEW n \in DOMAIN found
      PROVE  \E k \in 1 .. index : found[n] = batchId(k)
  <2>1. n \in 1 .. L
    BY <1>2 DEF Made
  <2>2. o[n] \in 1 .. index /\ found[n] = batchId(o[n])
    BY <1>1, <1>2, <1>4, <2>1 DEF madeFrom
  <2> QED BY <2>2
<1> QED BY <1>2, <1>8, <1>9

\* m is the array found, made from o, with the k-th system in it; m is made from p.
addedTo(found, o, k, m, p) ==
  /\ m = IF missing(found, k) THEN Append(found, batchId(k)) ELSE found
  /\ m \in Seq(Nat) /\ madeFrom(m, p) /\ keptIn(found, m)
  /\ k # NoSystem => holds(m, k)
  /\ \A c : c # k /\ (\A n \in 1 .. Len(o) : o[n] # c) => \A n \in 1 .. Len(p) : p[n] # c

\* A system that was not in the array is in it when it is added; no other one is.
LEMMA AddMissing ==
  ASSUME NEW found, NEW o, found \in Seq(Nat), madeFrom(found, o), index \in Nat,
         NEW k \in 0 .. index
  PROVE  \E m, p : addedTo(found, o, k, m, p)
<1>1. CASE missing(found, k)
  <2>1. k \in 1 .. index /\ k \in Nat /\ ~ holds(found, k)
    BY <1>1 DEF missing, holds, NoSystem
  <2>2. \A n \in 1 .. Len(o) : o[n] # k
    BY <2>1, NotThereYet
  <2>3. /\ Append(found, batchId(k)) \in Seq(Nat)
        /\ madeFrom(Append(found, batchId(k)), Append(o, k))
        /\ holds(Append(found, batchId(k)), k)
        /\ keptIn(found, Append(found, batchId(k)))
    BY <2>1, <2>2, AddOne
  <2>4. ASSUME NEW c, c # k, \A n \in 1 .. Len(o) : o[n] # c
        PROVE  \A n \in 1 .. Len(Append(o, k)) : Append(o, k)[n] # c
    <3>1. o \in Seq(1 .. index)
      BY DEF madeFrom
    <3>2. PICK L \in Nat : L = Len(o)
      BY <3>1
    <3>3. PICK p : p = Append(o, k)
      OBVIOUS
    <3>4. Len(p) = L + 1 /\ p[L + 1] = k /\ \A n \in 1 .. L : p[n] = o[n]
      BY <2>1, <3>1, <3>2, <3>3
    <3>5. ASSUME NEW n \in 1 .. L + 1
          PROVE  p[n] # c
      <4>1. CASE n = L + 1
        BY <2>4, <3>4, <4>1
      <4>2. CASE n # L + 1
        <5>1. n \in 1 .. L
          BY <4>2
        <5> QED BY <2>4, <3>2, <3>4, <5>1
      <4> QED BY <4>1, <4>2
    <3> QED BY <3>3, <3>4, <3>5
  <2> QED BY <1>1, <2>3, <2>4 DEF addedTo
<1>2. CASE ~ missing(found, k)
  <2>1. k # NoSystem => holds(found, k)
    BY <1>2 DEF missing, holds
  <2>2. keptIn(found, found)
    BY DEF keptIn
  <2> QED BY <1>2, <2>1, <2>2 DEF addedTo
<1> QED BY <1>1, <1>2

\* What one step of the loops leaves.
Stepped(s, t) == t \in Collecting /\ Made(t.found) /\ keptIn(s.found, t.found)

LEMMA WriteEffect ==
  ASSUME index \in Nat, NEW s \in Collecting, Made(s.found), NEW r \in Resources,
         NEW t, t = writeDepends(s, r)
  PROVE  /\ Stepped(s, t)
         /\ t.lastReader = s.lastReader
         /\ t.lastWriter = [s.lastWriter EXCEPT ![r] = index]
         /\ s.lastWriter[r] # NoSystem => holds(t.found, s.lastWriter[r])
         /\ s.lastReader[r] # NoSystem => holds(t.found, s.lastReader[r])
<1>1. PICK found : found = s.found
  OBVIOUS
<1>2. PICK w : w = s.lastWriter[r]
  OBVIOUS
<1>3. PICK d : d = s.lastReader[r]
  OBVIOUS
<1>4. w \in 0 .. index /\ d \in 0 .. index /\ found \in Seq(Nat)
  BY <1>1, <1>2, <1>3 DEF Collecting
<1>5. PICK o : madeFrom(found, o)
  BY <1>1 DEF Made
<1>5a. PICK m, p : addedTo(found, o, w, m, p)
  BY <1>4, <1>5, AddMissing
<1>6. /\ m = IF missing(found, w) THEN Append(found, batchId(w)) ELSE found
      /\ m \in Seq(Nat) /\ madeFrom(m, p) /\ keptIn(found, m)
      /\ w # NoSystem => holds(m, w)
      /\ \A c : c # w /\ (\A n \in 1 .. Len(o) : o[n] # c) =>
           \A n \in 1 .. Len(p) : p[n] # c
  BY <1>5a DEF addedTo
<1>7. PICK e : e = IF missing(found, d) /\ d # w THEN Append(m, batchId(d)) ELSE m
  OBVIOUS
<1>8. /\ e \in Seq(Nat) /\ Made(e) /\ keptIn(m, e)
      /\ d # NoSystem => holds(e, d)
  <2>1. CASE missing(found, d) /\ d # w
    <3>1. d \in 1 .. index /\ d \in Nat /\ ~ holds(found, d)
      BY <1>4, <2>1 DEF missing, holds, NoSystem
    <3>2. \A n \in 1 .. Len(o) : o[n] # d
      BY <1>4, <1>5, <3>1, NotThereYet
    <3>3. \A n \in 1 .. Len(p) : p[n] # d
      BY <1>6, <2>1, <3>2
    <3>4. /\ Append(m, batchId(d)) \in Seq(Nat)
          /\ madeFrom(Append(m, batchId(d)), Append(p, d))
          /\ holds(Append(m, batchId(d)), d)
          /\ keptIn(m, Append(m, batchId(d)))
      BY <1>6, <3>1, <3>3, AddOne
    <3> QED BY <1>7, <2>1, <3>4 DEF Made
  <2>2. CASE ~ (missing(found, d) /\ d # w)
    <3>1. e = m
      BY <1>7, <2>2
    <3>2. keptIn(m, m)
      BY DEF keptIn
    <3>3. ASSUME d # NoSystem
          PROVE  holds(m, d)
      <4>1. CASE d = w
        BY <1>6, <3>3, <4>1
      <4>2. CASE d # w
        <5>1. holds(found, d)
          BY <2>2, <3>3, <4>2 DEF missing, holds
        <5>2. d \in Nat
          BY <1>4
        <5> QED BY <1>6, <5>1, <5>2 DEF keptIn
      <4> QED BY <4>1, <4>2
    <3> QED BY <1>6, <3>1, <3>2, <3>3 DEF Made
  <2> QED BY <2>1, <2>2
<1>9. t = [s EXCEPT !.found = e, !.lastWriter[r] = index]
  BY <1>1, <1>2, <1>3, <1>6, <1>7 DEF writeDepends
<1>10. /\ t.found = e /\ t.lastReader = s.lastReader
       /\ t.lastWriter = [s.lastWriter EXCEPT ![r] = index]
       /\ t = [found |-> e, lastReader |-> s.lastReader, lastWriter |-> t.lastWriter]
  BY <1>9 DEF Collecting
<1>11. t.lastWriter \in [Resources -> 0 .. index]
  BY <1>10 DEF Collecting
<1>12. s.lastReader \in [Resources -> 0 .. index]
  BY DEF Collecting
<1>13. t \in Collecting
  BY <1>8, <1>10, <1>11, <1>12 DEF Collecting
<1>14. keptIn(found, e) /\ (w # NoSystem => holds(e, w))
  <2>1. w \in Nat
    BY <1>4
  <2> QED BY <1>6, <1>8, <2>1 DEF keptIn
<1> QED BY <1>1, <1>2, <1>3, <1>8, <1>10, <1>13, <1>14 DEF Stepped

LEMMA ReadEffect ==
  ASSUME index \in Nat, NEW s \in Collecting, Made(s.found), NEW r \in Resources,
         NEW t, t = readDepends(s, r)
  PROVE  /\ Stepped(s, t)
         /\ t.lastWriter = s.lastWriter
         /\ t.lastReader = [s.lastReader EXCEPT ![r] = index]
         /\ s.lastWriter[r] # NoSystem => holds(t.found, s.lastWriter[r])
<1>1. PICK found : found = s.found
  OBVIOUS
<1>2. PICK w : w = s.lastWriter[r]
  OBVIOUS
<1>3. w \in 0 .. index /\ found \in Seq(Nat)
  BY <1>1, <1>2 DEF Collecting
<1>4. PICK o : madeFrom(found, o)
  BY <1>1 DEF Made
<1>4a. PICK m, p : addedTo(found, o, w, m, p)
  BY <1>3, <1>4, AddMissing
<1>5. /\ m = IF missing(found, w) THEN Append(found, batchId(w)) ELSE found
      /\ m \in Seq(Nat) /\ madeFrom(m, p) /\ keptIn(found, m)
      /\ w # NoSystem => holds(m, w)
  BY <1>4a DEF addedTo
<1>6. t = [s EXCEPT !.found = m, !.lastReader[r] = index]
  BY <1>1, <1>2, <1>5 DEF readDepends
<1>7. /\ t.found = m /\ t.lastWriter = s.lastWriter
      /\ t.lastReader = [s.lastReader EXCEPT ![r] = index]
      /\ t = [found |-> m, lastReader |-> t.lastReader, lastWriter |-> s.lastWriter]
  BY <1>6 DEF Collecting
<1>8. t.lastReader \in [Resources -> 0 .. index]
  BY <1>7 DEF Collecting
<1>9. s.lastWriter \in [Resources -> 0 .. index]
  BY DEF Collecting
<1>10. t \in Collecting
  BY <1>5, <1>7, <1>8, <1>9 DEF Collecting
<1>11. Made(m)
  BY <1>5 DEF Made
<1> QED BY <1>1, <1>2, <1>5, <1>7, <1>10, <1>11 DEF Stepped

\* What a loop over a mask does is what its steps do, one after the other.
LEMMA IteratedIs ==
  ASSUME index \in Nat, NEW s \in Collecting, Made(s.found), NEW mask, mask \subseteq Resources,
         NEW access
  PROVE  \E f : /\ f[0] = s /\ iterated(s, mask, access) = f[MaxResources]
                /\ \A k \in 0 .. MaxResources : f[k] \in Collecting /\ Made(f[k].found)
                /\ \A k \in 1 .. MaxResources :
                     f[k] = IF k - 1 \notin mask THEN f[k - 1]
                            ELSE IF access = "write" THEN writeDepends(f[k - 1], k - 1)
                            ELSE readDepends(f[k - 1], k - 1)
<1>1. PICK N \in Nat : N = MaxResources
  BY ResourcesAssumption
<1>2. PICK S : S = {t \in Collecting : Made(t.found)}
  OBVIOUS
<1> DEFINE next(x, k) == IF k - 1 \notin mask THEN x
                         ELSE IF access = "write" THEN writeDepends(x, k - 1)
                         ELSE readDepends(x, k - 1)
<1>3. ASSUME NEW x \in S, NEW k \in 1 .. N
      PROVE  next(x, k) \in S
  <2>1. CASE k - 1 \notin mask
    BY <1>3, <2>1
  <2>2. CASE k - 1 \in mask /\ access = "write"
    BY <1>2, <1>3, <2>2, WriteEffect DEF Stepped
  <2>3. CASE k - 1 \in mask /\ access # "write"
    BY <1>2, <1>3, <2>3, ReadEffect DEF Stepped
  <2> QED BY <2>1, <2>2, <2>3
<1> HIDE DEF next
<1>4. PICK G : G = [k \in 1 .. N |-> [x \in S |-> next(x, k)]]
  OBVIOUS
<1>5. G \in [1 .. N -> [S -> S]]
  BY <1>3, <1>4
<1>6. s \in S
  BY <1>2
<1>7. PICK g \in [0 .. N -> S] : g[0] = s /\ \A k \in 1 .. N : g[k] = G[k][g[k - 1]]
  BY <1>5, <1>6, RecursionExists, SMTT(30)
<1>8. \A k \in 1 .. N : g[k] = next(g[k - 1], k)
  <2> TAKE k \in 1 .. N
  <2>1. k - 1 \in 0 .. N
    OBVIOUS
  <2>2. g[k - 1] \in S
    BY <1>7, <2>1
  <2> QED BY <1>4, <1>7, <2>2
<1>9. g = [n \in 0 .. N |-> IF n = 0 THEN s ELSE next(g[n - 1], n)]
  <2>1. ASSUME NEW n \in 0 .. N
        PROVE  g[n] = IF n = 0 THEN s ELSE next(g[n - 1], n)
    <3>1. CASE n = 0
      BY <1>7, <3>1
    <3>2. CASE n # 0
      <4>1. n \in 1 .. N
        BY <3>2
      <4> QED BY <1>8, <3>2, <4>1
    <3> QED BY <3>1, <3>2
  <2> QED BY <1>7, <2>1
<1>10. PICK f : f = CHOOSE h : h = [n \in 0 .. N |-> IF n = 0 THEN s ELSE next(h[n - 1], n)]
  OBVIOUS
<1>11. f = [n \in 0 .. N |-> IF n = 0 THEN s ELSE next(f[n - 1], n)]
  BY <1>9, <1>10
<1>12. iterated(s, mask, access) = f[N]
  BY <1>1, <1>10 DEF iterated, next
<1>13. f[0] = s
  <2>1. 0 \in 0 .. N
    OBVIOUS
  <2> QED BY <1>11, <2>1
<1>14. \A k \in 1 .. N : f[k] = next(f[k - 1], k)
  <2> TAKE k \in 1 .. N
  <2>1. k \in 0 .. N /\ k # 0
    OBVIOUS
  <2> QED BY <1>11, <2>1
<1>15. PICK T : T = {n \in Nat : n <= N => f[n] \in S}
  OBVIOUS
<1>16. 0 \in T
  BY <1>6, <1>13, <1>15
<1>17. ASSUME NEW n \in Nat, n \in T
       PROVE  n + 1 \in T
  <2> SUFFICES ASSUME n + 1 <= N
               PROVE  f[n + 1] \in S
    BY <1>15
  <2>1. f[n] \in S /\ n + 1 \in 1 .. N /\ (n + 1) - 1 = n
    BY <1>15, <1>17
  <2> QED BY <1>3, <1>14, <2>1
<1>18. Nat \subseteq T
  BY <1>16, <1>17, ByInduction
<1>19. \A k \in 0 .. N : f[k] \in Collecting /\ Made(f[k].found)
  BY <1>2, <1>15, <1>18
<1> QED BY <1>1, <1>12, <1>13, <1>14, <1>19 DEF next

\* What the loops have done for the resources of the mask below n.
writtenUpTo(s, x, mask, n) ==
  /\ keptIn(s.found, x.found) /\ x.lastReader = s.lastReader
  /\ \A r \in Resources : x.lastWriter[r] = IF r \in mask /\ r < n THEN index ELSE s.lastWriter[r]
  /\ \A r \in mask : r < n =>
       /\ s.lastWriter[r] # NoSystem => holds(x.found, s.lastWriter[r])
       /\ s.lastReader[r] # NoSystem => holds(x.found, s.lastReader[r])
readUpTo(s, x, mask, n) ==
  /\ keptIn(s.found, x.found) /\ x.lastWriter = s.lastWriter
  /\ \A r \in Resources : x.lastReader[r] = IF r \in mask /\ r < n THEN index ELSE s.lastReader[r]
  /\ \A r \in mask : r < n =>
       (s.lastWriter[r] # NoSystem => holds(x.found, s.lastWriter[r]))

LEMMA KeptTwice ==
  ASSUME NEW a, NEW b, NEW c, keptIn(a, b), keptIn(b, c)
  PROVE  keptIn(a, c)
BY DEF keptIn

LEMMA ResourceNumbers == Resources \subseteq Nat /\ \A r \in Resources : r < MaxResources
  BY ResourcesAssumption DEF Resources

LEMMA WriteOneMore ==
  ASSUME index \in Nat, NEW s \in Collecting, NEW mask, mask \subseteq Resources,
         NEW n \in Nat, n \in mask, NEW x \in Collecting, Made(x.found),
         writtenUpTo(s, x, mask, n), NEW y, y = writeDepends(x, n)
  PROVE  writtenUpTo(s, y, mask, n + 1)
<1>1. /\ Stepped(x, y) /\ y.lastReader = x.lastReader
      /\ y.lastWriter = [x.lastWriter EXCEPT ![n] = index]
      /\ x.lastWriter[n] # NoSystem => holds(y.found, x.lastWriter[n])
      /\ x.lastReader[n] # NoSystem => holds(y.found, x.lastReader[n])
  BY WriteEffect
<1>2. x.lastWriter[n] = s.lastWriter[n] /\ x.lastReader = s.lastReader /\ keptIn(s.found, x.found)
  BY DEF writtenUpTo
<1>3. keptIn(x.found, y.found)
  BY <1>1 DEF Stepped
<1>4. keptIn(s.found, y.found)
  BY <1>2, <1>3, KeptTwice
<1>5. DOMAIN x.lastWriter = Resources
  BY DEF Collecting
<1>6. ASSUME NEW r \in Resources
      PROVE  y.lastWriter[r] = IF r \in mask /\ r < n + 1 THEN index ELSE s.lastWriter[r]
  <2>1. r \in Nat
    BY ResourceNumbers
  <2>2. x.lastWriter[r] = IF r \in mask /\ r < n THEN index ELSE s.lastWriter[r]
    BY DEF writtenUpTo
  <2>3. CASE r = n
    <3>1. y.lastWriter[r] = index /\ r < n + 1
      BY <1>1, <1>5, <2>3
    <3> QED BY <2>3, <3>1
  <2>4. CASE r # n
    <3>1. y.lastWriter[r] = x.lastWriter[r]
      BY <1>1, <1>5, <2>4
    <3>2. r < n <=> r < n + 1
      BY <2>1, <2>4
    <3> QED BY <2>2, <3>1, <3>2
  <2> QED BY <2>3, <2>4
<1>7. ASSUME NEW r \in mask, r < n + 1
      PROVE  /\ s.lastWriter[r] # NoSystem => holds(y.found, s.lastWriter[r])
             /\ s.lastReader[r] # NoSystem => holds(y.found, s.lastReader[r])
  <2>1. r \in Nat /\ r \in Resources
    BY ResourceNumbers
  <2>2. s.lastWriter[r] \in Nat /\ s.lastReader[r] \in Nat
    BY <2>1 DEF Collecting
  <2>3. CASE r = n
    BY <1>1, <1>2, <2>3
  <2>4. CASE r # n
    <3>1. r < n
      BY <1>7, <2>1, <2>4
    <3>2. /\ s.lastWriter[r] # NoSystem => holds(x.found, s.lastWriter[r])
          /\ s.lastReader[r] # NoSystem => holds(x.found, s.lastReader[r])
      BY <3>1 DEF writtenUpTo
    <3> QED BY <1>3, <2>2, <3>2 DEF keptIn
  <2> QED BY <2>3, <2>4
<1>8. y.lastReader = s.lastReader
  BY <1>1, <1>2
<1> QED BY <1>4, <1>6, <1>7, <1>8 DEF writtenUpTo

LEMMA ReadOneMore ==
  ASSUME index \in Nat, NEW s \in Collecting, NEW mask, mask \subseteq Resources,
         NEW n \in Nat, n \in mask, NEW x \in Collecting, Made(x.found),
         readUpTo(s, x, mask, n), NEW y, y = readDepends(x, n)
  PROVE  readUpTo(s, y, mask, n + 1)
<1>1. /\ Stepped(x, y) /\ y.lastWriter = x.lastWriter
      /\ y.lastReader = [x.lastReader EXCEPT ![n] = index]
      /\ x.lastWriter[n] # NoSystem => holds(y.found, x.lastWriter[n])
  BY ReadEffect
<1>2. x.lastWriter = s.lastWriter /\ keptIn(s.found, x.found)
  BY DEF readUpTo
<1>3. keptIn(x.found, y.found)
  BY <1>1 DEF Stepped
<1>4. keptIn(s.found, y.found)
  BY <1>2, <1>3, KeptTwice
<1>5. DOMAIN x.lastReader = Resources
  BY DEF Collecting
<1>6. ASSUME NEW r \in Resources
      PROVE  y.lastReader[r] = IF r \in mask /\ r < n + 1 THEN index ELSE s.lastReader[r]
  <2>1. r \in Nat
    BY ResourceNumbers
  <2>2. x.lastReader[r] = IF r \in mask /\ r < n THEN index ELSE s.lastReader[r]
    BY DEF readUpTo
  <2>3. CASE r = n
    <3>1. y.lastReader[r] = index /\ r < n + 1
      BY <1>1, <1>5, <2>3
    <3> QED BY <2>3, <3>1
  <2>4. CASE r # n
    <3>1. y.lastReader[r] = x.lastReader[r]
      BY <1>1, <1>5, <2>4
    <3>2. r < n <=> r < n + 1
      BY <2>1, <2>4
    <3> QED BY <2>2, <3>1, <3>2
  <2> QED BY <2>3, <2>4
<1>7. ASSUME NEW r \in mask, r < n + 1
      PROVE  s.lastWriter[r] # NoSystem => holds(y.found, s.lastWriter[r])
  <2>1. r \in Nat /\ r \in Resources
    BY ResourceNumbers
  <2>2. s.lastWriter[r] \in Nat
    BY <2>1 DEF Collecting
  <2>3. CASE r = n
    BY <1>1, <1>2, <2>3
  <2>4. CASE r # n
    <3>1. r < n
      BY <1>7, <2>1, <2>4
    <3>2. s.lastWriter[r] # NoSystem => holds(x.found, s.lastWriter[r])
      BY <3>1 DEF readUpTo
    <3> QED BY <1>3, <2>2, <3>2 DEF keptIn
  <2> QED BY <2>3, <2>4
<1>8. y.lastWriter = s.lastWriter
  BY <1>1, <1>2
<1> QED BY <1>4, <1>6, <1>7, <1>8 DEF readUpTo

\* A whole loop over what a system writes.
LEMMA WritePass ==
  ASSUME index \in Nat, NEW s \in Collecting, Made(s.found), NEW mask, mask \subseteq Resources,
         NEW t, t = iterated(s, mask, "write")
  PROVE  t \in Collecting /\ Made(t.found) /\ writtenUpTo(s, t, mask, MaxResources)
<1>1. PICK N \in Nat : N = MaxResources
  BY ResourcesAssumption
<1>2. PICK f : /\ f[0] = s /\ iterated(s, mask, "write") = f[MaxResources]
               /\ \A k \in 0 .. MaxResources : f[k] \in Collecting /\ Made(f[k].found)
               /\ \A k \in 1 .. MaxResources :
                     f[k] = IF k - 1 \notin mask THEN f[k - 1]
                            ELSE IF "write" = "write" THEN writeDepends(f[k - 1], k - 1)
                            ELSE readDepends(f[k - 1], k - 1)
  BY IteratedIs
<1>3. PICK T : T = {n \in Nat : n <= N => writtenUpTo(s, f[n], mask, n)}
  OBVIOUS
<1>4. 0 \in T
  <2>1. \A r \in Resources : ~ (r < 0)
    BY ResourceNumbers
  <2>2. writtenUpTo(s, s, mask, 0)
    BY <2>1 DEF writtenUpTo, keptIn
  <2> QED BY <1>2, <1>3, <2>2
<1>5. ASSUME NEW n \in Nat, n \in T
      PROVE  n + 1 \in T
  <2> SUFFICES ASSUME n + 1 <= N
               PROVE  writtenUpTo(s, f[n + 1], mask, n + 1)
    BY <1>3
  <2>1. /\ writtenUpTo(s, f[n], mask, n) /\ n + 1 \in 1 .. N /\ (n + 1) - 1 = n
        /\ n \in 0 .. N
    BY <1>3, <1>5
  <2>2. f[n] \in Collecting /\ Made(f[n].found)
    BY <1>1, <1>2, <2>1
  <2>3. f[n + 1] = IF n \notin mask THEN f[n] ELSE writeDepends(f[n], n)
    BY <1>1, <1>2, <2>1
  <2>4. CASE n \in mask
    BY <2>1, <2>2, <2>3, <2>4, WriteOneMore
  <2>5. CASE n \notin mask
    <3>1. \A r \in Resources : r \in mask => (r < n <=> r < n + 1)
      BY <2>5, ResourceNumbers
    <3>2. f[n + 1] = f[n]
      BY <2>3, <2>5
    <3> QED BY <2>1, <3>1, <3>2 DEF writtenUpTo
  <2> QED BY <2>4, <2>5
<1>6. N \in T
  BY <1>4, <1>5, ByInduction
<1>7. writtenUpTo(s, f[N], mask, N)
  BY <1>3, <1>6
<1>8. N \in 0 .. N
  OBVIOUS
<1> QED BY <1>1, <1>2, <1>7, <1>8

\* A whole loop over what a system reads.
LEMMA ReadPass ==
  ASSUME index \in Nat, NEW s \in Collecting, Made(s.found), NEW mask, mask \subseteq Resources,
         NEW t, t = iterated(s, mask, "read")
  PROVE  t \in Collecting /\ Made(t.found) /\ readUpTo(s, t, mask, MaxResources)
<1>1. PICK N \in Nat : N = MaxResources
  BY ResourcesAssumption
<1>2. PICK f : /\ f[0] = s /\ iterated(s, mask, "read") = f[MaxResources]
               /\ \A k \in 0 .. MaxResources : f[k] \in Collecting /\ Made(f[k].found)
               /\ \A k \in 1 .. MaxResources :
                     f[k] = IF k - 1 \notin mask THEN f[k - 1]
                            ELSE IF "read" = "write" THEN writeDepends(f[k - 1], k - 1)
                            ELSE readDepends(f[k - 1], k - 1)
  BY IteratedIs
<1>3. PICK T : T = {n \in Nat : n <= N => readUpTo(s, f[n], mask, n)}
  OBVIOUS
<1>4. 0 \in T
  <2>1. \A r \in Resources : ~ (r < 0)
    BY ResourceNumbers
  <2>2. readUpTo(s, s, mask, 0)
    BY <2>1 DEF readUpTo, keptIn
  <2> QED BY <1>2, <1>3, <2>2
<1>5. ASSUME NEW n \in Nat, n \in T
      PROVE  n + 1 \in T
  <2> SUFFICES ASSUME n + 1 <= N
               PROVE  readUpTo(s, f[n + 1], mask, n + 1)
    BY <1>3
  <2>1. /\ readUpTo(s, f[n], mask, n) /\ n + 1 \in 1 .. N /\ (n + 1) - 1 = n
        /\ n \in 0 .. N
    BY <1>3, <1>5
  <2>2. f[n] \in Collecting /\ Made(f[n].found)
    BY <1>1, <1>2, <2>1
  <2>3. f[n + 1] = IF n \notin mask THEN f[n] ELSE readDepends(f[n], n)
    BY <1>1, <1>2, <2>1
  <2>4. CASE n \in mask
    BY <2>1, <2>2, <2>3, <2>4, ReadOneMore
  <2>5. CASE n \notin mask
    <3>1. \A r \in Resources : r \in mask => (r < n <=> r < n + 1)
      BY <2>5, ResourceNumbers
    <3>2. f[n + 1] = f[n]
      BY <2>3, <2>5
    <3> QED BY <2>1, <3>1, <3>2 DEF readUpTo
  <2> QED BY <2>4, <2>5
<1>6. N \in T
  BY <1>4, <1>5, ByInduction
<1>7. readUpTo(s, f[N], mask, N)
  BY <1>3, <1>6
<1>8. N \in 0 .. N
  OBVIOUS
<1> QED BY <1>1, <1>2, <1>7, <1>8

\* What the four loops leave: the last writer of all that the system uses and the
\* last reader of all it writes are in the array.
collectedFor(i, c) ==
  /\ c \in Collecting /\ Made(c.found)
  /\ \A r \in Resources :
       c.lastWriter[r] = IF r \in systemOrder[i].write THEN index ELSE lastWriter[r]
  /\ \A r \in Resources :
       c.lastReader[r] = IF r \in systemOrder[i].read THEN index ELSE lastReader[r]
  /\ \A r \in uses(i) : lastWriter[r] # NoSystem => holds(c.found, lastWriter[r])
  /\ \A r \in writes(i) : lastReader[r] # NoSystem => holds(c.found, lastReader[r])

LEMMA CollectedIs ==
  ASSUME index \in Nat, lastWriter \in [Resources -> 0 .. index],
         lastReader \in [Resources -> 0 .. index],
         NEW rd, NEW wr, rd \subseteq Resources, wr \subseteq Resources,
         systemOrder[index].read = rd, systemOrder[index].write = wr
  PROVE  collectedFor(index, collected)
<1>1. PICK none : none = [found |-> <<>>, lastReader |-> lastReader, lastWriter |-> lastWriter]
  OBVIOUS
<1>2. none \in Collecting /\ Made(none.found)
  <2>1. <<>> \in Seq(Nat) /\ Len(<<>>) = 0 /\ <<>> \in Seq(1 .. index)
    OBVIOUS
  <2>2. madeFrom(<<>>, <<>>)
    BY <2>1 DEF madeFrom
  <2> QED BY <1>1, <2>1, <2>2 DEF Collecting, Made
<1>3. PICK a : a = iterated(none, wr \cap Components, "write")
  OBVIOUS
<1>4. PICK b : b = iterated(a, rd \cap Components, "read")
  OBVIOUS
<1>5. PICK c : c = iterated(b, wr \cap FrameData, "write")
  OBVIOUS
<1>6. PICK d : d = iterated(c, rd \cap FrameData, "read")
  OBVIOUS
<1>7. collected = d
  BY <1>1, <1>3, <1>4, <1>5, <1>6 DEF collected, collectDependencies
<1>8. /\ wr \cap Components \subseteq Resources /\ rd \cap Components \subseteq Resources
      /\ wr \cap FrameData \subseteq Resources /\ rd \cap FrameData \subseteq Resources
  OBVIOUS
<1>9. a \in Collecting /\ Made(a.found) /\ writtenUpTo(none, a, wr \cap Components, MaxResources)
  BY <1>2, <1>3, <1>8, WritePass
<1>10. b \in Collecting /\ Made(b.found) /\ readUpTo(a, b, rd \cap Components, MaxResources)
  BY <1>4, <1>8, <1>9, ReadPass
<1>11. c \in Collecting /\ Made(c.found) /\ writtenUpTo(b, c, wr \cap FrameData, MaxResources)
  BY <1>5, <1>8, <1>10, WritePass
<1>12. d \in Collecting /\ Made(d.found) /\ readUpTo(c, d, rd \cap FrameData, MaxResources)
  BY <1>6, <1>8, <1>11, ReadPass
<1>13. keptIn(a.found, d.found) /\ keptIn(b.found, d.found) /\ keptIn(c.found, d.found)
  <2>1. keptIn(a.found, b.found) /\ keptIn(b.found, c.found) /\ keptIn(c.found, d.found)
    BY <1>10, <1>11, <1>12 DEF readUpTo, writtenUpTo
  <2> QED BY <2>1, KeptTwice
<1>14. \A r \in Resources : r \in Components <=> r \notin FrameData
  BY ResourcesAssumption DEF Resources
<1>15. \A r \in Resources : lastWriter[r] \in Nat /\ lastReader[r] \in Nat
  OBVIOUS
<1>16. ASSUME NEW r \in Resources
       PROVE  /\ a.lastWriter[r] = IF r \in wr /\ r \in Components THEN index ELSE lastWriter[r]
              /\ b.lastWriter[r] = a.lastWriter[r] /\ d.lastWriter[r] = c.lastWriter[r]
              /\ c.lastWriter[r] = IF r \in wr THEN index ELSE lastWriter[r]
  <2>1. r < MaxResources
    BY ResourceNumbers
  <2>2. a.lastWriter[r] = IF r \in wr \cap Components THEN index ELSE none.lastWriter[r]
    BY <1>9, <2>1 DEF writtenUpTo
  <2>3. b.lastWriter = a.lastWriter /\ d.lastWriter = c.lastWriter
    BY <1>10, <1>12 DEF readUpTo
  <2>4. c.lastWriter[r] = IF r \in wr \cap FrameData THEN index ELSE b.lastWriter[r]
    BY <1>11, <2>1 DEF writtenUpTo
  <2>5. none.lastWriter[r] = lastWriter[r]
    BY <1>1
  <2> QED BY <1>14, <2>2, <2>3, <2>4, <2>5
<1>17. ASSUME NEW r \in Resources
       PROVE  /\ a.lastReader[r] = lastReader[r]
              /\ b.lastReader[r] = IF r \in rd /\ r \in Components THEN index ELSE lastReader[r]
              /\ d.lastReader[r] = IF r \in rd THEN index ELSE lastReader[r]
  <2>1. r < MaxResources
    BY ResourceNumbers
  <2>2. b.lastReader[r] = IF r \in rd \cap Components THEN index ELSE a.lastReader[r]
    BY <1>10, <2>1 DEF readUpTo
  <2>3. a.lastReader = none.lastReader /\ c.lastReader = b.lastReader
    BY <1>9, <1>11 DEF writtenUpTo
  <2>4. d.lastReader[r] = IF r \in rd \cap FrameData THEN index ELSE c.lastReader[r]
    BY <1>12, <2>1 DEF readUpTo
  <2>5. none.lastReader[r] = lastReader[r]
    BY <1>1
  <2> QED BY <1>14, <2>2, <2>3, <2>4, <2>5
<1>18. ASSUME NEW r \in wr
       PROVE  /\ lastWriter[r] # NoSystem => holds(d.found, lastWriter[r])
              /\ lastReader[r] # NoSystem => holds(d.found, lastReader[r])
  <2>1. r \in Resources /\ r < MaxResources
    BY ResourceNumbers
  <2>2. CASE r \in Components
    <3>1. r \in wr \cap Components
      BY <2>2
    <3>2. /\ none.lastWriter[r] # NoSystem => holds(a.found, none.lastWriter[r])
          /\ none.lastReader[r] # NoSystem => holds(a.found, none.lastReader[r])
      BY <1>9, <2>1, <3>1 DEF writtenUpTo
    <3>3. none.lastWriter[r] = lastWriter[r] /\ none.lastReader[r] = lastReader[r]
      BY <1>1
    <3> QED BY <1>13, <1>15, <2>1, <3>2, <3>3 DEF keptIn
  <2>3. CASE r \in FrameData
    <3>1. r \in wr \cap FrameData /\ r \notin Components
      BY <1>14, <2>1, <2>3
    <3>2. /\ b.lastWriter[r] # NoSystem => holds(c.found, b.lastWriter[r])
          /\ b.lastReader[r] # NoSystem => holds(c.found, b.lastReader[r])
      BY <1>11, <2>1, <3>1 DEF writtenUpTo
    <3>3. b.lastWriter[r] = lastWriter[r] /\ b.lastReader[r] = lastReader[r]
      BY <1>16, <1>17, <2>1, <3>1
    <3> QED BY <1>13, <1>15, <2>1, <3>2, <3>3 DEF keptIn
  <2> QED BY <2>1, <2>2, <2>3 DEF Resources
<1>19. ASSUME NEW r \in rd, r \notin wr
       PROVE  lastWriter[r] # NoSystem => holds(d.found, lastWriter[r])
  <2>1. r \in Resources /\ r < MaxResources
    BY ResourceNumbers
  <2>2. a.lastWriter[r] = lastWriter[r] /\ c.lastWriter[r] = lastWriter[r]
    BY <1>16, <1>19, <2>1
  <2>3. CASE r \in Components
    <3>1. r \in rd \cap Components
      BY <2>3
    <3>2. a.lastWriter[r] # NoSystem => holds(b.found, a.lastWriter[r])
      BY <1>10, <2>1, <3>1 DEF readUpTo
    <3> QED BY <1>13, <1>15, <2>1, <2>2, <3>2 DEF keptIn
  <2>4. CASE r \in FrameData
    <3>1. r \in rd \cap FrameData
      BY <2>4
    <3>2. c.lastWriter[r] # NoSystem => holds(d.found, c.lastWriter[r])
      BY <1>12, <2>1, <3>1 DEF readUpTo
    <3> QED BY <2>2, <3>2
  <2> QED BY <2>1, <2>3, <2>4 DEF Resources
<1>20. uses(index) = rd \cup wr /\ writes(index) = wr
  BY DEF uses, writes
<1>21. \A r \in uses(index) : lastWriter[r] # NoSystem => holds(d.found, lastWriter[r])
  BY <1>18, <1>19, <1>20
<1>22. \A r \in writes(index) : lastReader[r] # NoSystem => holds(d.found, lastReader[r])
  BY <1>18, <1>20
<1>23. \A r \in Resources :
         /\ d.lastWriter[r] = IF r \in systemOrder[index].write THEN index ELSE lastWriter[r]
         /\ d.lastReader[r] = IF r \in systemOrder[index].read THEN index ELSE lastReader[r]
  BY <1>16, <1>17
<1> QED BY <1>7, <1>12, <1>21, <1>22, <1>23 DEF collectedFor

-----------------------------------------------------------------------------
(* Placing frame data *)

\* Rounding up gives a multiple of the alignment, which rounding up does not change.
LEMMA AlignedIs ==
  ASSUME NEW n \in Nat, NEW a \in Nat
  PROVE  /\ aligned(n, a) \in Nat /\ aligned(n, a) >= n
         /\ aligned(aligned(n, a), a) = aligned(n, a)
<1>1. CASE a = 0
  BY <1>1 DEF aligned
<1>2. CASE a # 0
  <2>1. PICK q \in 0 .. a - 1 : q = n % a
    BY <1>2
  <2>2. PICK k \in Nat : k = n \div a
    BY <1>2
  <2>3. n = a * k + q
    BY <1>2, <2>1, <2>2
  <2>4. ASSUME NEW j \in Nat
        PROVE  (a * j) % a = 0
    <3>1. PICK l \in Int : l = (a * j) \div a
      BY <1>2, <2>4
    <3>2. PICK e \in 0 .. a - 1 : e = (a * j) % a
      BY <1>2, <2>4
    <3>3. a * j = a * l + e
      BY <1>2, <2>4, <3>1, <3>2
    <3>4. a * (j - l) = e
      BY <2>4, <3>3
    <3>5. j - l >= 1 => a * (j - l) >= a
      BY <1>2, <2>4
    <3>6. j - l <= -1 => a * (j - l) <= -a
      BY <1>2, <2>4
    <3>7. j - l = 0
      BY <1>2, <2>4, <3>2, <3>4, <3>5, <3>6
    <3>8. e = 0
      BY <2>4, <3>3, <3>7
    <3> QED BY <3>2, <3>8
  <2>5. PICK m \in Nat : m = aligned(n, a) /\ m >= n /\ m % a = 0
    <3>1. aligned(n, a) = n + ((a - q) % a)
      BY <1>2, <2>1 DEF aligned
    <3>2. CASE q = 0
      <4>1. (a - q) % a = 0
        BY <1>2, <3>2
      <4>2. n = a * k
        BY <2>3, <3>2
      <4>3. n % a = 0
        BY <2>4, <4>2
      <4> QED BY <3>1, <4>1, <4>3
    <3>3. CASE q # 0
      <4>1. (a - q) % a = a - q
        BY <1>2, <3>3
      <4>2. a * (k + 1) = a * k + a
        OBVIOUS
      <4>3. n + (a - q) = a * (k + 1)
        BY <2>3, <4>2
      <4>4. (n + (a - q)) % a = 0
        BY <2>4, <4>3
      <4> QED BY <3>1, <4>1, <4>4
    <3> QED BY <3>2, <3>3
  <2>6. aligned(m, a) = m
    <3>1. (a - 0) % a = 0
      BY <1>2
    <3>2. aligned(m, a) = m + ((a - 0) % a)
      BY <1>2, <2>5 DEF aligned
    <3> QED BY <3>1, <3>2
  <2> QED BY <2>5, <2>6
<1> QED BY <1>1, <1>2

\* Doubling reaches any size.
LEMMA GrownEnough ==
  ASSUME NEW needed \in Nat, NEW old \in Nat
  PROVE  grownTo(needed, old) \in Nat /\ grownTo(needed, old) >= needed /\ grownTo(needed, old) >= old
<1> DEFINE next(x) == IF x >= needed THEN x ELSE IF x = 0 THEN 1 ELSE 2 * x
<1>1. \A x \in Nat : next(x) \in Nat /\ next(x) >= x /\ (next(x) >= needed \/ next(x) >= x + 1)
  OBVIOUS
<1> HIDE DEF next
<1>2. PICK G : G = [k \in 1 .. needed |-> [x \in Nat |-> next(x)]]
  OBVIOUS
<1>3. G \in [1 .. needed -> [Nat -> Nat]]
  BY <1>1, <1>2
<1>3a. PICK S, base : S = Nat /\ base = old
  OBVIOUS
<1>3b. \E g \in [0 .. needed -> S] : g[0] = base /\ \A k \in 1 .. needed : g[k] = G[k][g[k - 1]]
  <2>1. base \in S /\ G \in [1 .. needed -> [S -> S]]
    BY <1>3, <1>3a
  <2> QED BY <2>1, RecursionExists, SMTT(30)
<1>4. PICK g \in [0 .. needed -> Nat] : g[0] = old /\ \A k \in 1 .. needed : g[k] = G[k][g[k - 1]]
  BY <1>3a, <1>3b
<1>5. \A k \in 1 .. needed : g[k] = next(g[k - 1])
  <2> TAKE k \in 1 .. needed
  <2>1. k - 1 \in 0 .. needed
    OBVIOUS
  <2>2. g[k - 1] \in Nat
    BY <1>4, <2>1
  <2> QED BY <1>2, <1>4, <2>2
<1>6. g = [n \in 0 .. needed |-> IF n = 0 THEN old ELSE next(g[n - 1])]
  <2>1. ASSUME NEW n \in 0 .. needed
        PROVE  g[n] = IF n = 0 THEN old ELSE next(g[n - 1])
    <3>1. CASE n = 0
      BY <1>4, <3>1
    <3>2. CASE n # 0
      <4>1. n \in 1 .. needed
        BY <3>2
      <4> QED BY <1>5, <3>2, <4>1
    <3> QED BY <3>1, <3>2
  <2> QED BY <1>4, <2>1
<1>7. PICK f : f = CHOOSE h : h = [n \in 0 .. needed |-> IF n = 0 THEN old ELSE next(h[n - 1])]
  OBVIOUS
<1>8. f = [n \in 0 .. needed |-> IF n = 0 THEN old ELSE next(f[n - 1])]
  BY <1>6, <1>7
<1>9. grownTo(needed, old) = f[needed]
  BY <1>7 DEF grownTo, next
<1>10. f[0] = old
  <2>1. 0 \in 0 .. needed
    OBVIOUS
  <2> QED BY <1>8, <2>1
<1>11. \A k \in 1 .. needed : f[k] = next(f[k - 1])
  <2> TAKE k \in 1 .. needed
  <2>1. k \in 0 .. needed /\ k # 0
    OBVIOUS
  <2> QED BY <1>8, <2>1
<1>12. PICK T : T = {n \in Nat : n <= needed =>
                       f[n] \in Nat /\ f[n] >= old /\ (f[n] >= needed \/ f[n] >= n)}
  OBVIOUS
<1>13. 0 \in T
  BY <1>10, <1>12
<1>14. ASSUME NEW n \in Nat, n \in T
       PROVE  n + 1 \in T
  <2> SUFFICES ASSUME n + 1 <= needed
               PROVE  f[n + 1] \in Nat /\ f[n + 1] >= old /\ (f[n + 1] >= needed \/ f[n + 1] >= n + 1)
    BY <1>12
  <2>1. PICK x \in Nat : x = f[n] /\ x >= old /\ (x >= needed \/ x >= n)
    BY <1>12, <1>14
  <2>2. n + 1 \in 1 .. needed /\ (n + 1) - 1 = n
    OBVIOUS
  <2>3. f[n + 1] = next(x)
    BY <1>11, <2>1, <2>2
  <2>4. PICK y : y = next(x)
    OBVIOUS
  <2>5. y \in Nat /\ y >= x /\ (y >= needed \/ y >= x + 1)
    BY <1>1, <2>4
  <2>6. y >= old /\ (y >= needed \/ y >= n + 1)
    BY <2>1, <2>5
  <2> QED BY <2>3, <2>4, <2>5, <2>6
<1>15. needed \in T
  BY <1>13, <1>14, ByInduction
<1>16. f[needed] \in Nat /\ f[needed] >= old /\ f[needed] >= needed
  BY <1>12, <1>15
<1> QED BY <1>9, <1>16

Memory == [offset : [FrameData -> Nat \cup {NoOffset}], end : Nat, capacity : Nat]

\* Blocks are aligned, inside the memory, below the end and apart from each other.
blocksSound(m) ==
  /\ \A f \in FrameData : m.offset[f] # NoOffset =>
       /\ aligned(m.offset[f], Alignment[f]) = m.offset[f]
       /\ m.offset[f] + Size[f] <= m.capacity /\ m.offset[f] + Size[f] <= m.end
  /\ \A f, g \in FrameData : m.offset[f] # NoOffset /\ m.offset[g] # NoOffset /\ f # g =>
       m.offset[f] + Size[f] <= m.offset[g] \/ m.offset[g] + Size[g] <= m.offset[f]

\* What has a place in m has the same in l.
placesKept(m, l) == \A f \in FrameData : m.offset[f] # NoOffset => l.offset[f] = m.offset[f]

LEMMA ActivateOne ==
  ASSUME NEW m \in Memory, blocksSound(m), NEW f \in FrameData, NEW l, l = activateBlock(m, f)
  PROVE  l \in Memory /\ blocksSound(l) /\ placesKept(m, l) /\ l.offset[f] # NoOffset
<1>1. CASE m.offset[f] # NoOffset
  <2>1. l = m
    BY <1>1 DEF activateBlock
  <2> QED BY <1>1, <2>1 DEF placesKept
<1>2. CASE m.offset[f] = NoOffset
  <2>1. PICK place : place = aligned(m.end, Alignment[f])
    OBVIOUS
  <2>2. /\ m.end \in Nat /\ m.capacity \in Nat /\ m.offset \in [FrameData -> Nat \cup {NoOffset}]
        /\ Alignment[f] \in Nat /\ Size[f] \in Nat /\ Size[f] > 0
    BY ResourcesAssumption DEF Memory
  <2>3. place \in Nat /\ place >= m.end /\ aligned(place, Alignment[f]) = place
    BY <2>1, <2>2, AlignedIs
  <2>4. PICK cap : cap = grownTo(place + Size[f], m.capacity)
    OBVIOUS
  <2>5. place + Size[f] \in Nat
    BY <2>2, <2>3
  <2>6. cap \in Nat /\ cap >= place + Size[f] /\ cap >= m.capacity
    BY <2>2, <2>4, <2>5, GrownEnough
  <2>7. l = [offset |-> [m.offset EXCEPT ![f] = place], end |-> place + Size[f], capacity |-> cap]
    BY <1>2, <2>1, <2>4 DEF activateBlock
  <2>8. PICK o : o = l.offset
    OBVIOUS
  <2>9. /\ o = [m.offset EXCEPT ![f] = place] /\ l.end = place + Size[f] /\ l.capacity = cap
    BY <2>7, <2>8
  <2>10. /\ o \in [FrameData -> Nat \cup {NoOffset}] /\ o[f] = place
         /\ \A g \in FrameData : g # f => o[g] = m.offset[g]
    BY <2>2, <2>3, <2>9
  <2>11. l \in Memory
    BY <2>5, <2>6, <2>7, <2>8, <2>10 DEF Memory
  <2>12. place # NoOffset
    BY <2>3 DEF NoOffset
  <2>13. ASSUME NEW g \in FrameData, o[g] # NoOffset
         PROVE  /\ aligned(o[g], Alignment[g]) = o[g]
                /\ o[g] + Size[g] <= cap /\ o[g] + Size[g] <= place + Size[f]
    <3>1. CASE g = f
      BY <2>2, <2>3, <2>6, <2>10, <3>1
    <3>2. CASE g # f
      <4>1. o[g] = m.offset[g] /\ Size[g] \in Nat
        BY <2>10, <3>2, ResourcesAssumption
      <4>2. /\ aligned(o[g], Alignment[g]) = o[g]
            /\ o[g] + Size[g] <= m.capacity /\ o[g] + Size[g] <= m.end
        BY <2>13, <4>1 DEF blocksSound
      <4>3. o[g] \in Nat
        BY <2>10, <2>13
      <4> QED BY <2>2, <2>3, <2>6, <4>1, <4>2, <4>3
    <3> QED BY <3>1, <3>2
  <2>14. ASSUME NEW g \in FrameData, NEW h \in FrameData, o[g] # NoOffset, o[h] # NoOffset, g # h
         PROVE  o[g] + Size[g] <= o[h] \/ o[h] + Size[h] <= o[g]
    <3>1. CASE g # f /\ h # f
      <4>1. o[g] = m.offset[g] /\ o[h] = m.offset[h]
        BY <2>10, <3>1
      <4> QED BY <2>14, <4>1 DEF blocksSound
    <3>2. CASE g = f
      <4>1. o[h] = m.offset[h] /\ Size[h] \in Nat
        BY <2>10, <2>14, <3>2, ResourcesAssumption
      <4>2. o[h] + Size[h] <= m.end
        BY <2>14, <4>1 DEF blocksSound
      <4>3. o[h] \in Nat /\ o[g] = place
        BY <2>10, <2>14, <3>2
      <4> QED BY <2>2, <2>3, <4>1, <4>2, <4>3
    <3>3. CASE h = f
      <4>1. o[g] = m.offset[g] /\ Size[g] \in Nat
        BY <2>10, <2>14, <3>3, ResourcesAssumption
      <4>2. o[g] + Size[g] <= m.end
        BY <2>14, <4>1 DEF blocksSound
      <4>3. o[g] \in Nat /\ o[h] = place
        BY <2>10, <2>14, <3>3
      <4> QED BY <2>2, <2>3, <4>1, <4>2, <4>3
    <3> QED BY <3>1, <3>2, <3>3
  <2>15. blocksSound(l)
    BY <2>8, <2>9, <2>13, <2>14 DEF blocksSound
  <2>16. placesKept(m, l)
    BY <1>2, <2>8, <2>10 DEF placesKept
  <2> QED BY <2>8, <2>10, <2>11, <2>12, <2>15, <2>16
<1> QED BY <1>1, <1>2

\* What the loop over the frame data a system writes leaves.
activatedFor(i, m, l) ==
  /\ l \in Memory /\ blocksSound(l) /\ placesKept(m, l)
  /\ \A f \in writes(i) \cap FrameData : l.offset[f] # NoOffset

LEMMA ActivatedIs ==
  ASSUME NEW m \in Memory, m = [offset |-> offset, end |-> end, capacity |-> capacity],
         blocksSound(m)
  PROVE  activatedFor(index, m, activated)
<1>1. PICK N \in Nat : N = MaxResources
  BY ResourcesAssumption
<1>2. PICK mask : mask = systemOrder[index].write \cap FrameData
  OBVIOUS
<1>3. mask \subseteq FrameData /\ mask \subseteq 0 .. N - 1
  BY <1>1, <1>2, ResourcesAssumption
<1>4. PICK S : S = {x \in Memory : blocksSound(x)}
  OBVIOUS
<1> DEFINE next(x, k) == IF k - 1 \in mask THEN activateBlock(x, k - 1) ELSE x
<1>5. ASSUME NEW x \in S, NEW k \in 1 .. N
      PROVE  next(x, k) \in S /\ placesKept(x, next(x, k))
             /\ (k - 1 \in mask => next(x, k).offset[k - 1] # NoOffset)
  <2>1. CASE k - 1 \notin mask
    BY <1>5, <2>1 DEF placesKept
  <2>2. CASE k - 1 \in mask
    <3>1. k - 1 \in FrameData
      BY <1>3, <2>2
    <3>2. PICK y : y = activateBlock(x, k - 1)
      OBVIOUS
    <3>3. y \in Memory /\ blocksSound(y) /\ placesKept(x, y) /\ y.offset[k - 1] # NoOffset
      BY <1>4, <1>5, <3>1, <3>2, ActivateOne
    <3>4. next(x, k) = y
      BY <2>2, <3>2
    <3> QED BY <1>4, <3>3, <3>4
  <2> QED BY <2>1, <2>2
<1> HIDE DEF next
<1>6. PICK G : G = [k \in 1 .. N |-> [x \in S |-> next(x, k)]]
  OBVIOUS
<1>7. G \in [1 .. N -> [S -> S]]
  BY <1>5, <1>6
<1>8. m \in S
  BY <1>4
<1>9. PICK g \in [0 .. N -> S] : g[0] = m /\ \A k \in 1 .. N : g[k] = G[k][g[k - 1]]
  BY <1>7, <1>8, RecursionExists, SMTT(30)
<1>10. \A k \in 1 .. N : g[k] = next(g[k - 1], k)
  <2> TAKE k \in 1 .. N
  <2>1. k - 1 \in 0 .. N
    OBVIOUS
  <2>2. g[k - 1] \in S
    BY <1>9, <2>1
  <2> QED BY <1>6, <1>9, <2>2
<1>11. g = [n \in 0 .. N |-> IF n = 0 THEN m ELSE next(g[n - 1], n)]
  <2>1. ASSUME NEW n \in 0 .. N
        PROVE  g[n] = IF n = 0 THEN m ELSE next(g[n - 1], n)
    <3>1. CASE n = 0
      BY <1>9, <3>1
    <3>2. CASE n # 0
      <4>1. n \in 1 .. N
        BY <3>2
      <4> QED BY <1>10, <3>2, <4>1
    <3> QED BY <3>1, <3>2
  <2> QED BY <1>9, <2>1
<1>12. PICK f : f = CHOOSE h : h = [n \in 0 .. N |-> IF n = 0 THEN m ELSE next(h[n - 1], n)]
  OBVIOUS
<1>13. f = [n \in 0 .. N |-> IF n = 0 THEN m ELSE next(f[n - 1], n)]
  BY <1>11, <1>12
<1>14. activated = f[N]
  BY <1>1, <1>2, <1>12 DEF activated, next
<1>15. f[0] = m
  <2>1. 0 \in 0 .. N
    OBVIOUS
  <2> QED BY <1>13, <2>1
<1>16. \A k \in 1 .. N : f[k] = next(f[k - 1], k)
  <2> TAKE k \in 1 .. N
  <2>1. k \in 0 .. N /\ k # 0
    OBVIOUS
  <2> QED BY <1>13, <2>1
<1> DEFINE soFar(x, n) == /\ x \in S /\ placesKept(m, x)
                          /\ \A h \in mask : h < n => x.offset[h] # NoOffset
<1>17. PICK T : T = {n \in Nat : n <= N => soFar(f[n], n)}
  OBVIOUS
<1>18. 0 \in T
  <2>1. \A h \in mask : ~ (h < 0)
    BY <1>3
  <2>2. soFar(m, 0)
    BY <1>8, <2>1 DEF placesKept
  <2> QED BY <1>15, <1>17, <2>2
<1>19. ASSUME NEW n \in Nat, n \in T
       PROVE  n + 1 \in T
  <2> SUFFICES ASSUME n + 1 <= N
               PROVE  soFar(f[n + 1], n + 1)
    BY <1>17
  <2>1. soFar(f[n], n) /\ n + 1 \in 1 .. N /\ (n + 1) - 1 = n
    BY <1>17, <1>19
  <2>2. PICK x : x = f[n]
    OBVIOUS
  <2>3. PICK y : y = f[n + 1]
    OBVIOUS
  <2>4. y = next(x, n + 1)
    BY <1>16, <2>1, <2>2, <2>3
  <2>5. y \in S /\ placesKept(x, y) /\ (n \in mask => y.offset[n] # NoOffset)
    BY <1>5, <2>1, <2>2, <2>4
  <2>6. placesKept(m, y)
    BY <2>1, <2>2, <2>5 DEF placesKept
  <2>7. ASSUME NEW h \in mask, h < n + 1
        PROVE  y.offset[h] # NoOffset
    <3>1. CASE h = n
      BY <2>5, <3>1
    <3>2. CASE h # n
      <4>1. h < n /\ h \in FrameData
        BY <1>3, <2>7, <3>2
      <4>2. x.offset[h] # NoOffset
        BY <2>1, <2>2, <4>1
      <4> QED BY <2>5, <4>1, <4>2 DEF placesKept
    <3> QED BY <3>1, <3>2
  <2> QED BY <2>3, <2>5, <2>6, <2>7
<1>20. N \in T
  BY <1>18, <1>19, ByInduction
<1>21. soFar(f[N], N)
  BY <1>17, <1>20
<1>22. \A h \in mask : h < N
  BY <1>3
<1> QED BY <1>2, <1>4, <1>14, <1>21, <1>22 DEF activatedFor, writes

-----------------------------------------------------------------------------
(* The invariant holds at first and is kept by every step *)

LEMMA PlacesAre ==
  ASSUME systemOrder \in Seq(System)
  PROVE  /\ Len(systemOrder) \in Nat /\ Places = 1 .. Len(systemOrder) /\ Places \subseteq Nat
         /\ IsFiniteSet(Places)
         /\ \A i \in Places : /\ systemOrder[i].read \subseteq Resources
                              /\ systemOrder[i].write \subseteq Resources
<1>1. PICK L \in Nat : L = Len(systemOrder)
  OBVIOUS
<1>2. Places = 1 .. L
  BY <1>1 DEF Places
<1>3. IsFiniteSet(1 .. L)
  BY FS_Interval
<1>4. \A i \in Places : systemOrder[i] \in System
  BY <1>1, <1>2
<1>5. \A i \in Places : systemOrder[i].read \subseteq Resources /\ systemOrder[i].write \subseteq Resources
  BY <1>4 DEF System
<1> QED BY <1>1, <1>2, <1>3, <1>5

LEMMA SystemsInvInit == SystemsInit => SystemsInv
<1> SUFFICES ASSUME SystemsInit
             PROVE  SystemsInv
  OBVIOUS
<1>1. SystemCount \in Nat /\ Components \cup FrameData = Resources
  BY CountsAssumption DEF Resources
<1>2. systemOrder \in [1 .. SystemCount -> System]
  <2>1. \A c \in Criteria : c.read \subseteq Resources /\ c.write \subseteq Resources
    BY <1>1, CriteriaAssumption
  <2>2. \A c \in Criteria : [exists |-> TRUE, read |-> c.read, write |-> c.write] \in System
    BY <2>1 DEF System
  <2> QED BY <2>2 DEF SystemsInit
<1>3. systemOrder \in Seq(System)
  BY <1>1, <1>2
<1>4. Places = 1 .. SystemCount
  BY <1>2 DEF Places
<1>5. /\ batches = [i \in Places |-> "none"] /\ dependencies = [i \in Places |-> <<>>]
      /\ phase = "between" /\ index = 1 /\ chunks = {} /\ fence = 0
      /\ lastReader = [r \in Resources |-> NoSystem] /\ lastWriter = [r \in Resources |-> NoSystem]
      /\ offset = [f \in FrameData |-> NoOffset] /\ end = 0 /\ capacity = 0
      /\ frames = 0 /\ failures = 0
  BY DEF SystemsInit
<1>6. SystemsTyped
  <2>1. batches \in [Places -> Fates]
    BY <1>5 DEF Fates
  <2>2. dependencies \in [Places -> Seq(Nat)]
    BY <1>5
  <2>3. lastReader \in [Resources -> Nat] /\ lastWriter \in [Resources -> Nat]
    BY <1>5 DEF NoSystem
  <2>4. offset \in [FrameData -> Nat \cup {NoOffset}]
    BY <1>5
  <2> QED BY <1>3, <1>5, <2>1, <2>2, <2>3, <2>4 DEF SystemsTyped
<1>7. \A i \in Places : ~ dispatched(i)
  BY <1>5 DEF dispatched
<1>8. DispatchedAreScanned /\ RestUnset
  BY <1>5, <1>7 DEF DispatchedAreScanned, RestUnset
<1>9. LastsRemembered
  BY <1>5 DEF LastsRemembered
<1>10. DependenciesCollected
  BY <1>7 DEF DependenciesCollected
<1>11. NoneOvertaken
  BY <1>5 DEF NoneOvertaken, started
<1>12. counted = {}
  BY <1>5 DEF counted
<1>13. FenceIsCount
  BY <1>5, <1>12, FS_EmptySet DEF FenceIsCount
<1>14. placedOffsets = {}
  BY <1>5 DEF placedOffsets
<1>15. BlocksPlaced
  BY <1>5, <1>14 DEF BlocksPlaced
<1> QED BY <1>6, <1>8, <1>9, <1>10, <1>11, <1>13, <1>15 DEF SystemsInv

\* Which systems there are and what they read and write.
sameCriteria ==
  /\ Places' = Places
  /\ \A k \in Places : /\ writes(k)' = writes(k) /\ reads(k)' = reads(k)
                       /\ uses(k)' = uses(k)

LEMMA CriteriaSame == systemOrder' = systemOrder => sameCriteria
BY DEF sameCriteria, Places, writes, reads, uses

\* Nothing changes for the dependencies when no batch is new.
LEMMA DependenciesSame ==
  ASSUME SystemsTyped, DependenciesCollected, sameCriteria,
         chunks' = chunks, dependencies' = dependencies,
         \A k \in Places : /\ batches[k] = "none" <=> batches'[k] = "none"
                           /\ batches[k] = "failed" => batches'[k] = "failed"
  PROVE  DependenciesCollected'
<1>1. chunks \subseteq Places
  BY DEF SystemsTyped
<1>2. \A j, k \in Places : waitsFor(j, k) => waitsFor(j, k)'
  BY DEF waitsFor
<1>3. \A k \in Places : dispatched(k)' => dispatched(k)
  BY DEF dispatched
<1>4. ASSUME NEW k \in chunks, NEW n, NEW r
      PROVE  /\ writerBefore(k, n, r)' => writerBefore(k, n, r)
             /\ readerBefore(k, n, r)' => readerBefore(k, n, r)
  BY <1>1 DEF writerBefore, readerBefore, sameCriteria
<1> SUFFICES ASSUME NEW j \in Places, dispatched(j)'
             PROVE  /\ \A n \in DOMAIN dependencies[j] : dependencies[j][n] \in 0 .. j - 1
                    /\ Len(dependencies[j]) <= j
                    /\ \A r \in uses(j) : \A k \in chunks : writerBefore(k, j, r)' => waitsFor(j, k)'
                    /\ \A r \in writes(j) : \A k \in chunks : readerBefore(k, j, r)' => waitsFor(j, k)'
  BY DEF DependenciesCollected, sameCriteria
<1>5. dispatched(j)
  BY <1>3
<1>6. /\ \A n \in DOMAIN dependencies[j] : dependencies[j][n] \in 0 .. j - 1
      /\ Len(dependencies[j]) <= j
      /\ \A r \in uses(j) : \A k \in chunks : writerBefore(k, j, r) => waitsFor(j, k)
      /\ \A r \in writes(j) : \A k \in chunks : readerBefore(k, j, r) => waitsFor(j, k)
  BY <1>5 DEF DependenciesCollected
<1>7. ASSUME NEW r \in uses(j), NEW k \in chunks, writerBefore(k, j, r)'
      PROVE  waitsFor(j, k)'
  <2>1. k \in Places /\ writerBefore(k, j, r)
    BY <1>1, <1>4, <1>7
  <2> QED BY <1>2, <1>6, <2>1
<1>8. ASSUME NEW r \in writes(j), NEW k \in chunks, readerBefore(k, j, r)'
      PROVE  waitsFor(j, k)'
  <2>1. k \in Places /\ readerBefore(k, j, r)
    BY <1>1, <1>4, <1>8
  <2> QED BY <1>2, <1>6, <2>1
<1> QED BY <1>6, <1>7, <1>8

\* Whom a batch is held up by is settled once it was dispatched.
LEMMA AwaitedSame ==
  ASSUME NEW j \in Places, Places' = Places,
         \A i \in Places : i < j \/ i = j =>
           /\ dependencies'[i] = dependencies[i]
           /\ batches'[i] = "failed" <=> batches[i] = "failed"
  PROVE  awaited(j)' = awaited(j)
<1> DEFINE stored(k) ==
  {i \in Places : i < j /\ batches[i] # "failed" /\ \E n \in DOMAIN dependencies[i] :
                                                     dependencies[i][n] = k}
<1> DEFINE stored2(k) ==
  {i \in Places : i < j /\ batches'[i] # "failed" /\ \E n \in DOMAIN dependencies'[i] :
                                                     dependencies'[i][n] = k}
<1>1. \A k : stored(k) = stored2(k)
  <2> TAKE k
  <2>1. \A i : i \in stored(k) <=> i \in stored2(k)
    OBVIOUS
  <2> HIDE DEF stored, stored2
  <2> QED BY <2>1
<1>2. awaited(j) = {k \in {dependencies[j][n] : n \in DOMAIN dependencies[j]} \ {NoBatch} :
                     Cardinality(stored(k)) < MaxDependents}
  BY DEF awaited
<1>3. awaited(j)' = {k \in {dependencies'[j][n] : n \in DOMAIN dependencies'[j]} \ {NoBatch} :
                      Cardinality(stored2(k)) < MaxDependents}
  BY DEF awaited
<1>4. dependencies'[j] = dependencies[j]
  OBVIOUS
<1> HIDE DEF stored, stored2
<1> QED BY <1>1, <1>2, <1>3, <1>4

LEMMA NoneOvertakenSame ==
  ASSUME NoneOvertaken, Places' = Places,
         UNCHANGED <<batches, dependencies>>
  PROVE  NoneOvertaken'
<1> SUFFICES ASSUME NEW j \in Places, started(j)
             PROVE  \A k \in awaited(j)' : batches'[k] = "done"
  BY DEF NoneOvertaken, started
<1>1. awaited(j)' = awaited(j)
  BY AwaitedSame
<1> QED BY <1>1 DEF NoneOvertaken

\* Nor for what the main thread remembers when it does not go on.
LEMMA LastsSame ==
  ASSUME SystemsTyped, LastsRemembered, sameCriteria, UNCHANGED <<chunks, index, lastReader, lastWriter>>,
         phase' = "run" => phase = "run"
  PROVE  LastsRemembered'
<1> SUFFICES ASSUME phase' = "run", NEW r \in Resources
             PROVE  /\ IF lastWriter[r] = NoSystem THEN \A i \in chunks : i < index => r \notin writes(i)'
                       ELSE writerBefore(lastWriter[r], index, r)'
                    /\ IF lastReader[r] = NoSystem THEN \A i \in chunks : i < index => r \notin reads(i)'
                       ELSE readerBefore(lastReader[r], index, r)'
  BY DEF LastsRemembered
<1>1. \A k \in chunks : writes(k)' = writes(k) /\ reads(k)' = reads(k)
  BY DEF SystemsTyped, sameCriteria
<1>2. /\ IF lastWriter[r] = NoSystem THEN \A i \in chunks : i < index => r \notin writes(i)
         ELSE writerBefore(lastWriter[r], index, r)
      /\ IF lastReader[r] = NoSystem THEN \A i \in chunks : i < index => r \notin reads(i)
         ELSE readerBefore(lastReader[r], index, r)
  BY DEF LastsRemembered
<1>3. /\ writerBefore(lastWriter[r], index, r) => writerBefore(lastWriter[r], index, r)'
      /\ readerBefore(lastReader[r], index, r) => readerBefore(lastReader[r], index, r)'
  BY <1>1 DEF writerBefore, readerBefore
<1> QED BY <1>1, <1>2, <1>3

\* Nor for the blocks.
LEMMA BlocksSame ==
  ASSUME SystemsTyped, BlocksPlaced, sameCriteria, UNCHANGED <<chunks, index, offset, end, capacity>>,
         phase' = "run" => phase = "run", systemOrder' # <<>> => systemOrder # <<>>
  PROVE  BlocksPlaced'
<1>1. placedOffsets' = placedOffsets
  BY DEF placedOffsets
<1>2. \A k \in chunks : writes(k)' = writes(k)
  BY DEF SystemsTyped, sameCriteria
<1>3. /\ \A f \in placedOffsets :
           aligned(offset[f], Alignment[f]) = offset[f] /\ offset[f] + Size[f] <= capacity
      /\ \A f, g \in placedOffsets :
           f # g => offset[f] + Size[f] <= offset[g] \/ offset[g] + Size[g] <= offset[f]
      /\ phase = "run" /\ systemOrder # <<>> =>
           \A f \in placedOffsets : offset[f] + Size[f] <= end
      /\ \A i \in chunks : i < index => writes(i) \cap FrameData \subseteq placedOffsets
  BY DEF BlocksPlaced
<1> QED BY <1>1, <1>2, <1>3 DEF BlocksPlaced

LEMMA DestroySystemStep ==
  ASSUME SystemsInv, NEW i \in Places, DestroySystem(i)
  PROVE  SystemsInv'
<1>1. SystemsTyped
  BY DEF SystemsInv
<1>2. /\ systemOrder' = [systemOrder EXCEPT ![i].exists = FALSE]
      /\ UNCHANGED <<phase, index, lastReader, lastWriter, chunks, batches, dependencies, fence,
                     offset, end, capacity, frames, failures>>
  BY DEF DestroySystem, scan, memory
<1>3. systemOrder \in Seq(System)
  BY <1>1 DEF SystemsTyped
<1>4. PICK L \in Nat : L = Len(systemOrder) /\ Places = 1 .. L
  BY <1>3, PlacesAre
<1>5. systemOrder \in [1 .. L -> System]
  BY <1>3, <1>4
<1>6. PICK s : s = [systemOrder[i] EXCEPT !.exists = FALSE]
  OBVIOUS
<1>7. s \in System /\ s.read = systemOrder[i].read /\ s.write = systemOrder[i].write
  <2>1. systemOrder[i] \in System
    BY <1>4, <1>5
  <2> QED BY <1>6, <2>1 DEF System
<1>8. systemOrder' = [systemOrder EXCEPT ![i] = s]
  BY <1>2, <1>6
<1>9. systemOrder' \in [1 .. L -> System]
  BY <1>4, <1>5, <1>7, <1>8
<1>10. systemOrder' \in Seq(System) /\ Places' = Places
  BY <1>4, <1>9 DEF Places
<1>11. sameCriteria
  <2>1. ASSUME NEW k \in Places
        PROVE  systemOrder'[k].read = systemOrder[k].read /\ systemOrder'[k].write = systemOrder[k].write
    BY <1>4, <1>5, <1>7, <1>8
  <2> QED BY <1>10, <2>1 DEF sameCriteria, writes, reads, uses
<1>12. SystemsTyped'
  BY <1>1, <1>2, <1>10 DEF SystemsTyped
<1>13. DispatchedAreScanned' /\ RestUnset'
  BY <1>2, <1>10 DEF SystemsInv, DispatchedAreScanned, RestUnset, dispatched
<1>14. LastsRemembered'
  BY <1>1, <1>2, <1>11, LastsSame DEF SystemsInv
<1>15. DependenciesCollected'
  BY <1>1, <1>2, <1>11, DependenciesSame DEF SystemsInv
<1>16. NoneOvertaken'
  BY <1>1, <1>2, <1>10, NoneOvertakenSame DEF SystemsInv
<1>17. FenceIsCount'
  <2>1. counted' = counted
    BY <1>2, <1>10 DEF counted
  <2> QED BY <1>2, <2>1 DEF SystemsInv, FenceIsCount
<1>18. systemOrder # <<>>
  BY <1>4
<1>19. BlocksPlaced'
  BY <1>1, <1>2, <1>11, <1>18, BlocksSame DEF SystemsInv
<1> QED BY <1>12, <1>13, <1>14, <1>15, <1>16, <1>17, <1>19 DEF SystemsInv

\* Between frames no batch is left.
LEMMA NoneLeft ==
  ASSUME SystemsInv, phase = "between"
  PROVE  counted = {} /\ fence = 0
<1>1. counted = {} /\ fence = Cardinality(counted)
  BY DEF SystemsInv, FenceIsCount
<1>2. fence = 0
  BY <1>1, FS_EmptySet
<1> QED BY <1>1, <1>2

\* A new order, or a new frame: nothing was dispatched yet.
LEMMA NothingDispatched ==
  ASSUME batches' = [i \in Places' |-> "none"], dependencies' = [i \in Places' |-> <<>>],
         fence' = 0, \A i \in chunks' : ~ (i < index')
  PROVE  /\ DispatchedAreScanned' /\ RestUnset' /\ DependenciesCollected' /\ NoneOvertaken'
         /\ FenceIsCount'
<1>1. \A i \in Places' : ~ dispatched(i)' /\ ~ started(i)' /\ dependencies'[i] = <<>>
  BY DEF dispatched, started
<1>2. counted' = {}
  BY DEF counted
<1>3. FenceIsCount'
  <2>1. Cardinality(counted') = 0
    BY <1>2, FS_EmptySet
  <2> QED BY <1>2, <2>1 DEF FenceIsCount
<1>4. DispatchedAreScanned' /\ RestUnset'
  BY <1>1 DEF DispatchedAreScanned, RestUnset
<1>5. DependenciesCollected' /\ NoneOvertaken'
  BY <1>1 DEF DependenciesCollected, NoneOvertaken
<1> QED BY <1>3, <1>4, <1>5

LEMMA SetOrderStep ==
  ASSUME SystemsInv, sceneSetSystemsOrder
  PROVE  SystemsInv'
<1>1. SystemsTyped
  BY DEF SystemsInv
<1>2. /\ phase = "between"
      /\ batches' = [i \in Places' |-> "none"] /\ dependencies' = [i \in Places' |-> <<>>]
      /\ chunks' = {}
      /\ UNCHANGED <<phase, index, lastReader, lastWriter, fence, offset, end, capacity,
                     frames, failures>>
  BY DEF sceneSetSystemsOrder, scan, memory, Places
<1>3a. PICK n \in 0 .. Len(systemOrder) :
         \E order \in [1 .. n -> {i \in Places : systemOrder[i].exists}] :
           systemOrder' = [i \in 1 .. n |-> systemOrder[order[i]]]
  BY DEF sceneSetSystemsOrder
<1>3. PICK order \in [1 .. n -> {i \in Places : systemOrder[i].exists}] :
        systemOrder' = [i \in 1 .. n |-> systemOrder[order[i]]]
  BY <1>3a
<1>4. systemOrder \in Seq(System)
  BY <1>1 DEF SystemsTyped
<1>5. PICK L \in Nat : L = Len(systemOrder) /\ Places = 1 .. L
  BY <1>4, PlacesAre
<1>6. systemOrder \in [1 .. L -> System]
  BY <1>4, <1>5
<1>7. systemOrder' \in Seq(System)
  <2>1. n \in Nat
    BY <1>5
  <2>2. \A i \in 1 .. n : systemOrder[order[i]] \in System
    BY <1>3, <1>5, <1>6
  <2>3. systemOrder' \in [1 .. n -> System]
    BY <1>3, <2>2
  <2> QED BY <2>1, <2>3
<1>8. fence = 0
  BY <1>2, NoneLeft
<1>9. SystemsTyped'
  <2>1. batches' \in [Places' -> Fates] /\ dependencies' \in [Places' -> Seq(Nat)]
    BY <1>2 DEF Fates
  <2> QED BY <1>1, <1>2, <1>7, <2>1 DEF SystemsTyped
<1>10. /\ DispatchedAreScanned' /\ RestUnset' /\ DependenciesCollected' /\ NoneOvertaken'
       /\ FenceIsCount'
  BY <1>2, <1>8, NothingDispatched
<1>11. LastsRemembered'
  BY <1>2 DEF LastsRemembered
<1>12. BlocksPlaced'
  <2>1. placedOffsets' = placedOffsets
    BY <1>2 DEF placedOffsets
  <2>2. /\ \A f \in placedOffsets :
             aligned(offset[f], Alignment[f]) = offset[f] /\ offset[f] + Size[f] <= capacity
        /\ \A f, g \in placedOffsets :
             f # g => offset[f] + Size[f] <= offset[g] \/ offset[g] + Size[g] <= offset[f]
    BY DEF SystemsInv, BlocksPlaced
  <2> QED BY <1>2, <2>1, <2>2 DEF BlocksPlaced
<1> QED BY <1>9, <1>10, <1>11, <1>12 DEF SystemsInv

LEMMA BeginFrameStep ==
  ASSUME SystemsInv, BeginFrame
  PROVE  SystemsInv'
<1>1. SystemsTyped
  BY DEF SystemsInv
<1>2. /\ phase = "between" /\ frames' = frames + 1 /\ index' = 1 /\ end' = 0
      /\ \E some \in SUBSET Places : chunks' = some
      /\ batches' = [i \in Places |-> "none"] /\ dependencies' = [i \in Places |-> <<>>]
      /\ lastReader' = [r \in Resources |-> NoSystem]
      /\ lastWriter' = [r \in Resources |-> NoSystem]
      /\ phase' = IF \A i \in Places : systemOrder[i].exists THEN "run" ELSE "wait"
      /\ offset' = IF systemOrder = <<>> THEN offset ELSE [f \in FrameData |-> NoOffset]
      /\ UNCHANGED <<systemOrder, fence, capacity, failures>>
  BY DEF BeginFrame
<1>3. Places' = Places /\ chunks' \subseteq Places
  BY <1>2 DEF Places
<1>4. Places \subseteq Nat /\ \A i \in Places : ~ (i < 1)
  <2>1. systemOrder \in Seq(System)
    BY <1>1 DEF SystemsTyped
  <2>2. PICK L \in Nat : Places = 1 .. L
    BY <2>1, PlacesAre
  <2> QED BY <2>2
<1>5. fence = 0
  BY <1>2, NoneLeft
<1>6. SystemsTyped'
  <2>1. batches' \in [Places' -> Fates] /\ dependencies' \in [Places' -> Seq(Nat)]
    BY <1>2, <1>3 DEF Fates
  <2>2. lastReader' \in [Resources -> Nat] /\ lastWriter' \in [Resources -> Nat]
    BY <1>2 DEF NoSystem
  <2>3. offset' \in [FrameData -> Nat \cup {NoOffset}]
    BY <1>1, <1>2 DEF SystemsTyped
  <2>4. phase' \in {"between", "run", "wait"} /\ frames' \in Nat
    BY <1>1, <1>2 DEF SystemsTyped
  <2>5. systemOrder' \in Seq(System) /\ fence' \in Nat /\ capacity' \in Nat /\ failures' \in Nat
    BY <1>1, <1>2 DEF SystemsTyped
  <2>6. index' \in Nat \ {0} /\ end' \in Nat /\ chunks' \subseteq Places'
    BY <1>2, <1>3
  <2> QED BY <2>1, <2>2, <2>3, <2>4, <2>5, <2>6 DEF SystemsTyped
<1>7. \A i \in chunks' : ~ (i < index')
  BY <1>2, <1>3, <1>4
<1>8. /\ DispatchedAreScanned' /\ RestUnset' /\ DependenciesCollected' /\ NoneOvertaken'
      /\ FenceIsCount'
  BY <1>2, <1>3, <1>5, <1>7, NothingDispatched
<1>9. LastsRemembered'
  BY <1>2, <1>7 DEF LastsRemembered
<1>10. BlocksPlaced'
  <2>1. CASE systemOrder = <<>>
    <3>1. placedOffsets' = placedOffsets /\ offset' = offset
      BY <1>2, <2>1 DEF placedOffsets
    <3>2. /\ \A f \in placedOffsets :
               aligned(offset[f], Alignment[f]) = offset[f] /\ offset[f] + Size[f] <= capacity
          /\ \A f, g \in placedOffsets :
               f # g => offset[f] + Size[f] <= offset[g] \/ offset[g] + Size[g] <= offset[f]
      BY DEF SystemsInv, BlocksPlaced
    <3> QED BY <1>2, <1>7, <2>1, <3>1, <3>2 DEF BlocksPlaced
  <2>2. CASE systemOrder # <<>>
    <3>1. placedOffsets' = {}
      BY <1>2, <2>2 DEF placedOffsets
    <3> QED BY <1>7, <3>1 DEF BlocksPlaced
  <2> QED BY <2>1, <2>2
<1> QED BY <1>6, <1>8, <1>9, <1>10 DEF SystemsInv

\* The system the main thread has got to.
LEMMA IndexAt ==
  ASSUME SystemsTyped, index \in Places
  PROVE  /\ index \in Nat /\ index >= 1 /\ index <= Len(systemOrder) /\ systemOrder # <<>>
         /\ Places \subseteq Nat /\ chunks \subseteq Nat
<1>1. systemOrder \in Seq(System) /\ chunks \subseteq Places
  BY DEF SystemsTyped
<1>2. PICK L \in Nat : L = Len(systemOrder) /\ Places = 1 .. L
  BY <1>1, PlacesAre
<1> QED BY <1>1, <1>2

\* Going on by a system changes nothing for the systems before it.
LEMMA SkipSystemStep ==
  ASSUME SystemsInv, SkipSystem
  PROVE  SystemsInv'
<1>1. SystemsTyped
  BY DEF SystemsInv
<1>2. /\ phase = "run" /\ index \in Places /\ index \notin chunks /\ index' = index + 1
      /\ UNCHANGED <<systemOrder, phase, lastReader, lastWriter, chunks, batches, dependencies,
                     fence, offset, end, capacity, frames, failures>>
  BY DEF SkipSystem, memory
<1>3. sameCriteria
  BY <1>2, CriteriaSame
<1>4. index \in Nat /\ Places \subseteq Nat /\ chunks \subseteq Nat
  BY <1>1, <1>2, IndexAt
<1>5. SystemsTyped'
  <2>1. Places' = Places
    BY <1>3 DEF sameCriteria
  <2>2. index' \in Nat \ {0}
    BY <1>2, <1>4
  <2> QED BY <1>1, <1>2, <2>1, <2>2 DEF SystemsTyped
<1>6. \A i \in chunks : i < index' <=> i < index
  <2> TAKE i \in chunks
  <2>1. i # index /\ i \in Nat
    BY <1>2, <1>4
  <2> QED BY <1>2, <1>4, <2>1
<1>7. DispatchedAreScanned' /\ RestUnset'
  <2>1. Places' = Places
    BY <1>3 DEF sameCriteria
  <2> QED BY <1>2, <1>6, <2>1 DEF SystemsInv, DispatchedAreScanned, RestUnset, dispatched
<1>8. LastsRemembered'
  <2> SUFFICES ASSUME NEW r \in Resources
               PROVE  /\ IF lastWriter[r] = NoSystem
                         THEN \A i \in chunks : i < index' => r \notin writes(i)
                         ELSE writerBefore(lastWriter[r], index', r)
                      /\ IF lastReader[r] = NoSystem
                         THEN \A i \in chunks : i < index' => r \notin reads(i)
                         ELSE readerBefore(lastReader[r], index', r)
    BY <1>2 DEF LastsRemembered, writerBefore, readerBefore, writes, reads
  <2>1. /\ IF lastWriter[r] = NoSystem THEN \A i \in chunks : i < index => r \notin writes(i)
           ELSE writerBefore(lastWriter[r], index, r)
        /\ IF lastReader[r] = NoSystem THEN \A i \in chunks : i < index => r \notin reads(i)
           ELSE readerBefore(lastReader[r], index, r)
    BY <1>2 DEF SystemsInv, LastsRemembered
  <2>2. /\ writerBefore(lastWriter[r], index, r) => writerBefore(lastWriter[r], index', r)
        /\ readerBefore(lastReader[r], index, r) => readerBefore(lastReader[r], index', r)
    BY <1>6 DEF writerBefore, readerBefore
  <2> QED BY <1>6, <2>1, <2>2
<1>9. DependenciesCollected'
  BY <1>1, <1>2, <1>3, DependenciesSame DEF SystemsInv
<1>10. NoneOvertaken'
  BY <1>1, <1>2, <1>3, NoneOvertakenSame DEF SystemsInv, sameCriteria
<1>11. FenceIsCount'
  <2>1. counted' = counted
    BY <1>2, <1>3 DEF counted, sameCriteria
  <2> QED BY <1>2, <2>1 DEF SystemsInv, FenceIsCount
<1>12. BlocksPlaced'
  <2>1. placedOffsets' = placedOffsets
    BY <1>2 DEF placedOffsets
  <2>2. /\ \A f \in placedOffsets :
             aligned(offset[f], Alignment[f]) = offset[f] /\ offset[f] + Size[f] <= capacity
        /\ \A f, g \in placedOffsets :
             f # g => offset[f] + Size[f] <= offset[g] \/ offset[g] + Size[g] <= offset[f]
        /\ phase = "run" /\ systemOrder # <<>> =>
             \A f \in placedOffsets : offset[f] + Size[f] <= end
        /\ \A i \in chunks : i < index => writes(i) \cap FrameData \subseteq placedOffsets
    BY DEF SystemsInv, BlocksPlaced
  <2>3. \A i \in chunks : i < index' => writes(i)' \cap FrameData \subseteq placedOffsets
    BY <1>2, <1>6, <2>2 DEF writes
  <2> QED BY <1>2, <2>1, <2>2, <2>3 DEF BlocksPlaced
<1> QED BY <1>5, <1>7, <1>8, <1>9, <1>10, <1>11, <1>12 DEF SystemsInv

LEMMA EndOfSystemsStep ==
  ASSUME SystemsInv, EndOfSystems
  PROVE  SystemsInv'
<1>1. SystemsTyped
  BY DEF SystemsInv
<1>2. /\ phase' = "wait"
      /\ UNCHANGED <<systemOrder, index, lastReader, lastWriter, chunks, batches, dependencies,
                     fence, offset, end, capacity, frames, failures>>
  BY DEF EndOfSystems, scan, memory
<1>3. sameCriteria
  BY <1>2, CriteriaSame
<1>4. Places' = Places
  BY <1>3 DEF sameCriteria
<1>5. SystemsTyped'
  BY <1>1, <1>2, <1>4 DEF SystemsTyped
<1>6. DispatchedAreScanned' /\ RestUnset'
  BY <1>2, <1>4 DEF SystemsInv, DispatchedAreScanned, RestUnset, dispatched
<1>7. LastsRemembered'
  BY <1>2 DEF LastsRemembered
<1>8. DependenciesCollected'
  BY <1>1, <1>2, <1>3, DependenciesSame DEF SystemsInv
<1>9. NoneOvertaken'
  BY <1>1, <1>2, <1>4, NoneOvertakenSame DEF SystemsInv
<1>10. FenceIsCount'
  <2>1. counted' = counted
    BY <1>2, <1>4 DEF counted
  <2> QED BY <1>2, <2>1 DEF SystemsInv, FenceIsCount
<1>11. BlocksPlaced'
  BY <1>1, <1>2, <1>3, BlocksSame DEF SystemsInv
<1> QED BY <1>5, <1>6, <1>7, <1>8, <1>9, <1>10, <1>11 DEF SystemsInv

LEMMA FenceDownStep ==
  ASSUME SystemsInv, FenceDown
  PROVE  SystemsInv'
<1>1. SystemsTyped
  BY DEF SystemsInv
<1>2. /\ phase' = "between" /\ fence = 0
      /\ UNCHANGED <<systemOrder, index, lastReader, lastWriter, chunks, batches, dependencies,
                     fence, offset, end, capacity, frames, failures>>
  BY DEF FenceDown, scan, memory
<1>3. sameCriteria
  BY <1>2, CriteriaSame
<1>4. Places' = Places
  BY <1>3 DEF sameCriteria
<1>5. SystemsTyped'
  BY <1>1, <1>2, <1>4 DEF SystemsTyped
<1>6. DispatchedAreScanned' /\ RestUnset'
  BY <1>2, <1>4 DEF SystemsInv, DispatchedAreScanned, RestUnset, dispatched
<1>7. LastsRemembered'
  BY <1>2 DEF LastsRemembered
<1>8. DependenciesCollected'
  BY <1>1, <1>2, <1>3, DependenciesSame DEF SystemsInv
<1>9. NoneOvertaken'
  BY <1>1, <1>2, <1>4, NoneOvertakenSame DEF SystemsInv
<1>10. FenceIsCount'
  <2>1. counted' = counted
    BY <1>2, <1>4 DEF counted
  <2>2. IsFiniteSet(Places) /\ counted \subseteq Places
    BY <1>1, PlacesAre DEF SystemsTyped, counted
  <2>3. IsFiniteSet(counted)
    BY <2>2, FS_Subset
  <2>4. Cardinality(counted) = 0
    BY <1>2 DEF SystemsInv, FenceIsCount
  <2>5. counted = {}
    BY <2>3, <2>4, FS_EmptySet
  <2>6. fence' = Cardinality(counted)
    BY <1>2, <2>4
  <2> QED BY <2>1, <2>5, <2>6 DEF FenceIsCount
<1>11. BlocksPlaced'
  BY <1>1, <1>2, <1>3, BlocksSame DEF SystemsInv
<1> QED BY <1>5, <1>6, <1>7, <1>8, <1>9, <1>10, <1>11 DEF SystemsInv

\* A batch starts, is refused or hangs: none of it takes it off the fence.
LEMMA FateStep ==
  ASSUME SystemsInv, NEW i \in Places, batches[i] = "running" \/ startable(i),
         NEW fate \in {"running", "refused", "hung"}, Becomes(i, fate),
         fence' = fence, failures' \in Nat
  PROVE  SystemsInv'
<1>1. SystemsTyped
  BY DEF SystemsInv
<1>2. /\ batches[i] \in {"waiting", "running"} /\ batches' = [batches EXCEPT ![i] = fate]
      /\ UNCHANGED <<systemOrder, phase, index, lastReader, lastWriter, chunks, dependencies,
                     fence, offset, end, capacity, frames>>
  BY DEF Becomes, startable, scan, memory
<1>3. sameCriteria
  BY <1>2, CriteriaSame
<1>4. Places' = Places
  BY <1>3 DEF sameCriteria
<1>5. batches \in [Places -> Fates]
  BY <1>1 DEF SystemsTyped
<1>6. /\ batches'[i] = fate /\ batches' \in [Places -> Fates]
      /\ \A k \in Places : k # i => batches'[k] = batches[k]
  BY <1>2, <1>5 DEF Fates
<1>7. SystemsTyped'
  BY <1>1, <1>2, <1>4, <1>6 DEF SystemsTyped
<1>8. \A k \in Places : /\ batches[k] = "none" <=> batches'[k] = "none"
                        /\ batches[k] = "failed" => batches'[k] = "failed"
                        /\ batches[k] = "done" => batches'[k] = "done"
  BY <1>2, <1>6
<1>9. DispatchedAreScanned' /\ RestUnset'
  BY <1>2, <1>4, <1>8 DEF SystemsInv, DispatchedAreScanned, RestUnset, dispatched
<1>10. LastsRemembered'
  BY <1>1, <1>2, <1>3, LastsSame DEF SystemsInv
<1>11. DependenciesCollected'
  BY <1>1, <1>2, <1>3, <1>8, DependenciesSame DEF SystemsInv
<1>12. NoneOvertaken'
  <2> SUFFICES ASSUME NEW j \in Places, started(j)', NEW k \in awaited(j)'
               PROVE  batches'[k] = "done"
    BY <1>4 DEF NoneOvertaken
  <2>1. k \in awaited(j)
    <3>1. \A m \in Places : batches'[m] = "failed" <=> batches[m] = "failed"
      BY <1>2, <1>6
    <3> QED BY <1>2, <1>4, <3>1, AwaitedSame
  <2>2. batches[k] = "done"
    <3>1. CASE j = i /\ batches[i] # "running"
      BY <2>1, <3>1 DEF startable
    <3>2. CASE j # i \/ batches[i] = "running"
      <4>1. started(j)
        BY <1>6, <3>2 DEF started
      <4> QED BY <2>1, <4>1 DEF SystemsInv, NoneOvertaken
    <3> QED BY <3>1, <3>2
  <2>3. k # i
    BY <1>2, <2>2
  <2> QED BY <1>2, <2>2, <2>3
<1>13. FenceIsCount'
  <2>1. counted' = counted
    <3>1. \A k \in Places : batches'[k] \notin {"none", "done"} <=> batches[k] \notin {"none", "done"}
      BY <1>2, <1>6
    <3> QED BY <1>4, <3>1 DEF counted
  <2> QED BY <1>2, <2>1 DEF SystemsInv, FenceIsCount
<1>14. BlocksPlaced'
  BY <1>1, <1>2, <1>3, BlocksSame DEF SystemsInv
<1> QED BY <1>7, <1>9, <1>10, <1>11, <1>12, <1>13, <1>14 DEF SystemsInv

LEMMA FinishBatchStep ==
  ASSUME SystemsInv, NEW i \in Places, FinishBatch(i)
  PROVE  SystemsInv'
<1>1. SystemsTyped
  BY DEF SystemsInv
<1>2. /\ batches[i] = "running" /\ batches' = [batches EXCEPT ![i] = "done"] /\ fence' = fence - 1
      /\ UNCHANGED <<systemOrder, phase, index, lastReader, lastWriter, chunks, dependencies,
                     offset, end, capacity, frames, failures>>
  BY DEF FinishBatch, Becomes, scan, memory
<1>3. sameCriteria
  BY <1>2, CriteriaSame
<1>4. Places' = Places
  BY <1>3 DEF sameCriteria
<1>5. batches \in [Places -> Fates]
  BY <1>1 DEF SystemsTyped
<1>6. /\ batches'[i] = "done" /\ batches' \in [Places -> Fates]
      /\ \A k \in Places : k # i => batches'[k] = batches[k]
  BY <1>2, <1>5 DEF Fates
<1>7. \A k \in Places : /\ batches[k] = "none" <=> batches'[k] = "none"
                        /\ batches[k] = "failed" => batches'[k] = "failed"
                        /\ batches[k] = "done" => batches'[k] = "done"
  BY <1>2, <1>6
<1>8. counted' = counted \ {i} /\ i \in counted
  <2>1. \A k \in Places : batches'[k] \notin {"none", "done"} <=>
                          batches[k] \notin {"none", "done"} /\ k # i
    BY <1>2, <1>6
  <2> QED BY <1>2, <1>4, <2>1 DEF counted
<1>9. FenceIsCount' /\ fence' \in Nat
  <2>1. IsFiniteSet(Places) /\ counted \subseteq Places
    BY <1>1, PlacesAre DEF SystemsTyped, counted
  <2>2. IsFiniteSet(counted)
    BY <2>1, FS_Subset
  <2>3. PICK c \in Nat : c = Cardinality(counted) /\ Cardinality(counted \ {i}) = c - 1
    BY <1>8, <2>2, FS_RemoveElement, FS_CardinalityType
  <2>4. c > 0
    <3>1. IsFiniteSet(counted \ {i})
      BY <2>2, FS_Subset
    <3>2. Cardinality(counted \ {i}) \in Nat
      BY <3>1, FS_CardinalityType
    <3> QED BY <2>3, <3>2
  <2>5. fence = c
    BY <2>3 DEF SystemsInv, FenceIsCount
  <2>6. fence' = c - 1 /\ c - 1 \in Nat
    BY <1>2, <2>4, <2>5
  <2>7. fence' = Cardinality(counted')
    BY <1>8, <2>3, <2>6
  <2>8. phase' = "between" => counted' = {}
    BY <1>2, <1>8 DEF SystemsInv, FenceIsCount
  <2> QED BY <2>6, <2>7, <2>8 DEF FenceIsCount
<1>10. SystemsTyped'
  BY <1>1, <1>2, <1>4, <1>6, <1>9 DEF SystemsTyped
<1>11. DispatchedAreScanned' /\ RestUnset'
  BY <1>2, <1>4, <1>7 DEF SystemsInv, DispatchedAreScanned, RestUnset, dispatched
<1>12. LastsRemembered'
  BY <1>1, <1>2, <1>3, LastsSame DEF SystemsInv
<1>13. DependenciesCollected'
  BY <1>1, <1>2, <1>3, <1>7, DependenciesSame DEF SystemsInv
<1>14. NoneOvertaken'
  <2> SUFFICES ASSUME NEW j \in Places, started(j)', NEW k \in awaited(j)'
               PROVE  batches'[k] = "done"
    BY <1>4 DEF NoneOvertaken
  <2>1. k \in awaited(j)
    <3>1. \A m \in Places : batches'[m] = "failed" <=> batches[m] = "failed"
      BY <1>2, <1>6
    <3> QED BY <1>2, <1>4, <3>1, AwaitedSame
  <2>2. started(j)
    BY <1>2, <1>6 DEF started
  <2>3. batches[k] = "done"
    BY <2>1, <2>2 DEF SystemsInv, NoneOvertaken
  <2>4. k # i
    BY <1>2, <2>3
  <2> QED BY <1>2, <2>3, <2>4
<1>15. BlocksPlaced'
  BY <1>1, <1>2, <1>3, BlocksSame DEF SystemsInv
<1> QED BY <1>9, <1>10, <1>11, <1>12, <1>13, <1>14, <1>15 DEF SystemsInv

\* The dependencies of the system that is dispatched.
LEMMA DispatchCollects ==
  ASSUME SystemsInv, phase = "run", index \in chunks
  PROVE  /\ index \in Places /\ batches[index] = "none"
         /\ collectedFor(index, collected)
         /\ \A r \in Resources : lastWriter[r] # NoSystem => writerBefore(lastWriter[r], index, r)
         /\ \A r \in Resources : lastReader[r] # NoSystem => readerBefore(lastReader[r], index, r)
<1>1. SystemsTyped
  BY DEF SystemsInv
<1>2. index \in Places
  BY <1>1 DEF SystemsTyped
<1>3. index \in Nat /\ chunks \subseteq Nat
  BY <1>1, <1>2, IndexAt
<1>4. batches[index] = "none"
  <2>1. ~ (index < index)
    BY <1>3
  <2>2. dispatched(index) <=> index \in chunks /\ index < index
    BY <1>2 DEF SystemsInv, DispatchedAreScanned
  <2> QED BY <2>1, <2>2 DEF dispatched
<1>5. \A r \in Resources :
        /\ IF lastWriter[r] = NoSystem THEN \A i \in chunks : i < index => r \notin writes(i)
           ELSE writerBefore(lastWriter[r], index, r)
        /\ IF lastReader[r] = NoSystem THEN \A i \in chunks : i < index => r \notin reads(i)
           ELSE readerBefore(lastReader[r], index, r)
  BY DEF SystemsInv, LastsRemembered
<1>6. \A r \in Resources : lastWriter[r] \in 0 .. index /\ lastReader[r] \in 0 .. index
  <2> TAKE r \in Resources
  <2>1. lastWriter[r] \in Nat /\ lastReader[r] \in Nat
    BY <1>1 DEF SystemsTyped
  <2>2. lastWriter[r] = NoSystem \/ lastWriter[r] < index
    BY <1>5 DEF writerBefore
  <2>3. lastReader[r] = NoSystem \/ lastReader[r] < index
    BY <1>5 DEF readerBefore
  <2>4. lastWriter[r] \in 0 .. index
    BY <1>3, <2>1, <2>2 DEF NoSystem
  <2>5. lastReader[r] \in 0 .. index
    BY <1>3, <2>1, <2>3 DEF NoSystem
  <2> QED BY <2>4, <2>5
<1>7. lastWriter \in [Resources -> 0 .. index] /\ lastReader \in [Resources -> 0 .. index]
  BY <1>1, <1>6 DEF SystemsTyped
<1>8. systemOrder[index].read \subseteq Resources /\ systemOrder[index].write \subseteq Resources
  BY <1>1, <1>2, PlacesAre DEF SystemsTyped
<1>9. PICK rd, wr : rd = systemOrder[index].read /\ wr = systemOrder[index].write
  OBVIOUS
<1>10. collectedFor(index, collected)
  BY <1>3, <1>7, <1>8, <1>9, CollectedIs
<1> QED BY <1>2, <1>4, <1>5, <1>10

\* There is one last writer, and one last reader.
LEMMA LastIsOne ==
  ASSUME chunks \subseteq Nat, NEW n \in Nat, NEW r, NEW k \in chunks, NEW l \in chunks
  PROVE  /\ writerBefore(k, n, r) /\ writerBefore(l, n, r) => k = l
         /\ readerBefore(k, n, r) /\ readerBefore(l, n, r) => k = l
<1>1. k \in Nat /\ l \in Nat
  OBVIOUS
<1>2. ASSUME writerBefore(k, n, r), writerBefore(l, n, r)
      PROVE  k = l
  <2>1. /\ k < n /\ l < n /\ r \in writes(k) /\ r \in writes(l)
        /\ \A i \in chunks : k < i /\ i < n => r \notin writes(i)
        /\ \A i \in chunks : l < i /\ i < n => r \notin writes(i)
    BY <1>2 DEF writerBefore
  <2>2. ~ (k < l) /\ ~ (l < k)
    BY <2>1
  <2> QED BY <1>1, <2>2
<1>3. ASSUME readerBefore(k, n, r), readerBefore(l, n, r)
      PROVE  k = l
  <2>1. /\ k < n /\ l < n /\ r \in reads(k) /\ r \in reads(l)
        /\ \A i \in chunks : k < i /\ i < n => r \notin reads(i)
        /\ \A i \in chunks : l < i /\ i < n => r \notin reads(i)
    BY <1>3 DEF readerBefore
  <2>2. ~ (k < l) /\ ~ (l < k)
    BY <2>1
  <2> QED BY <1>1, <2>2
<1> QED BY <1>2, <1>3

LEMMA DispatchSystemStep ==
  ASSUME SystemsInv, NEW outcome \in {"waiting", "failed"}, Dispatch(outcome)
  PROVE  SystemsInv'
<1>1. SystemsTyped
  BY DEF SystemsInv
<1>2. /\ phase = "run" /\ index \in chunks
      /\ failures' = IF outcome = "failed" THEN failures + 1 ELSE failures
      /\ dependencies' = [dependencies EXCEPT ![index] = collected.found]
      /\ lastReader' = collected.lastReader /\ lastWriter' = collected.lastWriter
      /\ offset' = activated.offset /\ end' = activated.end /\ capacity' = activated.capacity
      /\ batches' = [batches EXCEPT ![index] = outcome]
      /\ fence' = fence + 1 /\ index' = index + 1
      /\ UNCHANGED <<systemOrder, phase, chunks, frames>>
  BY DEF Dispatch
<1>3. /\ index \in Places /\ batches[index] = "none"
      /\ collectedFor(index, collected)
      /\ \A r \in Resources : lastWriter[r] # NoSystem => writerBefore(lastWriter[r], index, r)
      /\ \A r \in Resources : lastReader[r] # NoSystem => readerBefore(lastReader[r], index, r)
  BY <1>2, DispatchCollects
<1>4. sameCriteria /\ Places' = Places
  BY <1>2, CriteriaSame DEF sameCriteria
<1>5. /\ index \in Nat /\ index >= 1 /\ index <= Len(systemOrder) /\ systemOrder # <<>>
      /\ Places \subseteq Nat /\ chunks \subseteq Nat
  BY <1>1, <1>3, IndexAt
<1>6. PICK c : c = collected
  OBVIOUS
<1>7. /\ c \in Collecting /\ Made(c.found)
      /\ \A r \in Resources :
           c.lastWriter[r] = IF r \in systemOrder[index].write THEN index ELSE lastWriter[r]
      /\ \A r \in Resources :
           c.lastReader[r] = IF r \in systemOrder[index].read THEN index ELSE lastReader[r]
      /\ \A r \in uses(index) : lastWriter[r] # NoSystem => holds(c.found, lastWriter[r])
      /\ \A r \in writes(index) : lastReader[r] # NoSystem => holds(c.found, lastReader[r])
  BY <1>3, <1>6 DEF collectedFor
<1>8. PICK m : m = [offset |-> offset, end |-> end, capacity |-> capacity]
  OBVIOUS
<1>9. m \in Memory /\ m.offset = offset /\ m.end = end /\ m.capacity = capacity
  BY <1>1, <1>8 DEF SystemsTyped, Memory
<1>10. /\ \A f \in placedOffsets :
            aligned(offset[f], Alignment[f]) = offset[f] /\ offset[f] + Size[f] <= capacity
       /\ \A f, g \in placedOffsets :
            f # g => offset[f] + Size[f] <= offset[g] \/ offset[g] + Size[g] <= offset[f]
       /\ \A f \in placedOffsets : offset[f] + Size[f] <= end
       /\ \A i \in chunks : i < index => writes(i) \cap FrameData \subseteq placedOffsets
  BY <1>2, <1>5 DEF SystemsInv, BlocksPlaced
<1>11. blocksSound(m)
  BY <1>9, <1>10 DEF blocksSound, placedOffsets
<1>12. activatedFor(index, m, activated)
  BY <1>8, <1>9, <1>11, ActivatedIs
<1>13. PICK l : l = activated
  OBVIOUS
<1>14. /\ l \in Memory /\ blocksSound(l) /\ placesKept(m, l)
       /\ \A f \in writes(index) \cap FrameData : l.offset[f] # NoOffset
       /\ offset' = l.offset /\ end' = l.end /\ capacity' = l.capacity
  BY <1>2, <1>12, <1>13 DEF activatedFor
<1>15. batches \in [Places -> Fates] /\ dependencies \in [Places -> Seq(Nat)]
  BY <1>1 DEF SystemsTyped
<1>16. /\ batches' \in [Places -> Fates] /\ batches'[index] = outcome
       /\ \A k \in Places : k # index => batches'[k] = batches[k]
  BY <1>2, <1>3, <1>15 DEF Fates
<1>17. c.found \in Seq(Nat)
  BY <1>7 DEF Made
<1>18. /\ dependencies' \in [Places -> Seq(Nat)] /\ dependencies'[index] = c.found
       /\ \A k \in Places : k # index => dependencies'[k] = dependencies[k]
  BY <1>2, <1>3, <1>6, <1>15, <1>17
<1>19. SystemsTyped'
  <2>1. lastReader' \in [Resources -> Nat] /\ lastWriter' \in [Resources -> Nat]
    <3>1. c.lastReader \in [Resources -> 0 .. index] /\ c.lastWriter \in [Resources -> 0 .. index]
      BY <1>7 DEF Collecting
    <3>2. 0 .. index \subseteq Nat
      BY <1>5
    <3> QED BY <1>2, <1>6, <3>1, <3>2
  <2>2. offset' \in [FrameData -> Nat \cup {NoOffset}] /\ end' \in Nat /\ capacity' \in Nat
    BY <1>14 DEF Memory
  <2>3. fence' \in Nat /\ index' \in Nat \ {0} /\ failures' \in Nat
    BY <1>1, <1>2, <1>5 DEF SystemsTyped
  <2>4. systemOrder' \in Seq(System) /\ phase' \in {"between", "run", "wait"} /\ frames' \in Nat
        /\ chunks' \subseteq Places'
    BY <1>1, <1>2, <1>4 DEF SystemsTyped
  <2> QED BY <1>4, <1>16, <1>18, <2>1, <2>2, <2>3, <2>4 DEF SystemsTyped
<1>20. \A i \in chunks : i < index' <=> i < index \/ i = index
  <2> TAKE i \in chunks
  <2>1. i \in Nat
    BY <1>5
  <2> QED BY <1>2, <1>5, <2>1
<1>21. DispatchedAreScanned' /\ RestUnset'
  <2>1. ASSUME NEW k \in Places
        PROVE  /\ dispatched(k)' <=> k \in chunks /\ k < index'
               /\ ~ dispatched(k)' => dependencies'[k] = <<>>
    <3>1. CASE k = index
      <4>1. dispatched(k)'
        BY <1>16, <3>1 DEF dispatched
      <4> QED BY <1>2, <1>20, <3>1, <4>1
    <3>2. CASE k # index
      <4>1. dispatched(k)' <=> dispatched(k)
        BY <1>16, <3>2 DEF dispatched
      <4>2. dispatched(k) <=> k \in chunks /\ k < index
        BY DEF SystemsInv, DispatchedAreScanned
      <4>3. ~ dispatched(k) => dependencies[k] = <<>>
        BY DEF SystemsInv, RestUnset
      <4>4. k \in chunks => (k < index' <=> k < index)
        BY <1>20, <3>2
      <4> QED BY <1>18, <3>2, <4>1, <4>2, <4>3, <4>4
    <3> QED BY <3>1, <3>2
  <2> QED BY <1>2, <1>4, <2>1 DEF DispatchedAreScanned, RestUnset
<1>22. LastsRemembered'
  <2> SUFFICES ASSUME NEW r \in Resources
               PROVE  /\ IF c.lastWriter[r] = NoSystem
                         THEN \A i \in chunks : i < index' => r \notin writes(i)
                         ELSE writerBefore(c.lastWriter[r], index', r)
                      /\ IF c.lastReader[r] = NoSystem
                         THEN \A i \in chunks : i < index' => r \notin reads(i)
                         ELSE readerBefore(c.lastReader[r], index', r)
    BY <1>2, <1>6 DEF LastsRemembered, writerBefore, readerBefore, writes, reads
  <2>1. /\ IF lastWriter[r] = NoSystem THEN \A i \in chunks : i < index => r \notin writes(i)
           ELSE writerBefore(lastWriter[r], index, r)
        /\ IF lastReader[r] = NoSystem THEN \A i \in chunks : i < index => r \notin reads(i)
           ELSE readerBefore(lastReader[r], index, r)
    BY <1>2 DEF SystemsInv, LastsRemembered
  <2>2. index # NoSystem /\ index < index'
    BY <1>2, <1>5 DEF NoSystem
  <2>3. \A i \in chunks : index < i => ~ (i < index')
    <3> TAKE i \in chunks
    <3>1. i \in Nat
      BY <1>5
    <3> QED BY <1>2, <1>5, <3>1
  <2>4. IF c.lastWriter[r] = NoSystem THEN \A i \in chunks : i < index' => r \notin writes(i)
        ELSE writerBefore(c.lastWriter[r], index', r)
    <3>1. CASE r \in writes(index)
      <4>1. c.lastWriter[r] = index
        BY <1>7, <3>1 DEF writes
      <4>2. writerBefore(index, index', r)
        BY <1>2, <2>2, <2>3, <3>1 DEF writerBefore
      <4> QED BY <2>2, <4>1, <4>2
    <3>2. CASE r \notin writes(index)
      <4>1. c.lastWriter[r] = lastWriter[r]
        BY <1>7, <3>2 DEF writes
      <4>2. CASE lastWriter[r] = NoSystem
        BY <1>20, <2>1, <3>2, <4>1, <4>2
      <4>3. CASE lastWriter[r] # NoSystem
        <5>1. writerBefore(lastWriter[r], index, r)
          BY <2>1, <4>3
        <5>2. writerBefore(lastWriter[r], index', r)
          BY <1>20, <3>2, <5>1 DEF writerBefore
        <5> QED BY <4>1, <4>3, <5>2
      <4> QED BY <4>2, <4>3
    <3> QED BY <3>1, <3>2
  <2>5. IF c.lastReader[r] = NoSystem THEN \A i \in chunks : i < index' => r \notin reads(i)
        ELSE readerBefore(c.lastReader[r], index', r)
    <3>1. CASE r \in reads(index)
      <4>1. c.lastReader[r] = index
        BY <1>7, <3>1 DEF reads
      <4>2. readerBefore(index, index', r)
        BY <1>2, <2>2, <2>3, <3>1 DEF readerBefore
      <4> QED BY <2>2, <4>1, <4>2
    <3>2. CASE r \notin reads(index)
      <4>1. c.lastReader[r] = lastReader[r]
        BY <1>7, <3>2 DEF reads
      <4>2. CASE lastReader[r] = NoSystem
        BY <1>20, <2>1, <3>2, <4>1, <4>2
      <4>3. CASE lastReader[r] # NoSystem
        <5>1. readerBefore(lastReader[r], index, r)
          BY <2>1, <4>3
        <5>2. readerBefore(lastReader[r], index', r)
          BY <1>20, <3>2, <5>1 DEF readerBefore
        <5> QED BY <4>1, <4>3, <5>2
      <4> QED BY <4>2, <4>3
    <3> QED BY <3>1, <3>2
  <2> QED BY <2>4, <2>5
<1>23. DependenciesCollected'
  <2>0. PICK x \in Places : x = index
    BY <1>3
  <2>1. \A k \in chunks : k < index =>
          /\ k \in Places /\ k # index /\ batches[k] # "none" /\ batches'[k] = batches[k]
    <3> TAKE k \in chunks
    <3> HAVE k < index
    <3>1. k \in Places /\ k # index
      BY <1>1, <1>5 DEF SystemsTyped
    <3>2. dispatched(k)
      BY <3>1 DEF SystemsInv, DispatchedAreScanned
    <3> QED BY <1>16, <3>1, <3>2 DEF dispatched
  <2>2. ASSUME NEW k \in chunks, k < index, holds(c.found, k)
        PROVE  waitsFor(x, k)'
    <3>1. batches[k] # "none" /\ batches'[k] = batches[k]
      BY <2>1, <2>2
    <3>2. PICK n \in DOMAIN c.found : c.found[n] = batchId(k)
      BY <2>2 DEF holds
    <3>3. CASE batches[k] = "failed"
      <4>1. batches'[k] = "failed"
        BY <3>1, <3>3
      <4> QED BY <4>1 DEF waitsFor
    <3>4. CASE batches[k] # "failed"
      <4>1. c.found[n] = k
        BY <3>1, <3>2, <3>4 DEF batchId
      <4>2. dependencies'[x] = c.found
        BY <1>18, <2>0
      <4>3. \E e \in DOMAIN dependencies'[x] : dependencies'[x][e] = k
        BY <4>1, <4>2
      <4> QED BY <4>3 DEF waitsFor
    <3> QED BY <3>3, <3>4
  <2>3. ASSUME NEW k \in chunks, NEW n, NEW r
        PROVE  /\ writerBefore(k, n, r)' <=> writerBefore(k, n, r)
               /\ readerBefore(k, n, r)' <=> readerBefore(k, n, r)
    BY <1>2 DEF writerBefore, readerBefore, writes, reads
  <2>4. uses(index) \subseteq Resources /\ writes(index) \subseteq Resources
    <3>1. systemOrder[index].read \subseteq Resources /\ systemOrder[index].write \subseteq Resources
      BY <1>1, <1>3, PlacesAre DEF SystemsTyped
    <3> QED BY <3>1 DEF uses, writes
  <2>5. /\ \A n \in DOMAIN c.found : c.found[n] \in 0 .. index - 1
        /\ Len(c.found) <= index
    <3>1. /\ Len(c.found) <= index
          /\ \A n \in DOMAIN c.found : \E k \in 1 .. index : c.found[n] = batchId(k)
      BY <1>5, <1>7, MadeBound
    <3>2. ASSUME NEW k \in 1 .. index
          PROVE  batchId(k) \in 0 .. index - 1
      <4>1. CASE k = index
        BY <1>3, <1>5, <4>1 DEF batchId, NoBatch
      <4>2. CASE k # index
        <5>1. k \in 0 .. index - 1 /\ 0 \in 0 .. index - 1
          BY <1>5, <4>2
        <5> QED BY <5>1 DEF batchId, NoBatch
      <4> QED BY <4>1, <4>2
    <3> QED BY <3>1, <3>2
  <2>6. ASSUME NEW r \in uses(index), NEW k \in chunks, writerBefore(k, index, r)
        PROVE  waitsFor(x, k)'
    <3>1. r \in Resources /\ k < index /\ r \in writes(k)
      BY <2>4, <2>6 DEF writerBefore
    <3>2. lastWriter[r] # NoSystem
      BY <1>2, <3>1 DEF SystemsInv, LastsRemembered
    <3>3. writerBefore(lastWriter[r], index, r)
      BY <1>3, <3>1, <3>2
    <3>4. lastWriter[r] \in chunks
      BY <3>3 DEF writerBefore
    <3>5. k = lastWriter[r]
      BY <1>5, <2>6, <3>3, <3>4, LastIsOne
    <3>6. holds(c.found, k)
      BY <1>7, <3>2, <3>5
    <3> QED BY <2>2, <3>1, <3>6
  <2>7. ASSUME NEW r \in writes(index), NEW k \in chunks, readerBefore(k, index, r)
        PROVE  waitsFor(x, k)'
    <3>1. r \in Resources /\ k < index /\ r \in reads(k)
      BY <2>4, <2>7 DEF readerBefore
    <3>2. lastReader[r] # NoSystem
      BY <1>2, <3>1 DEF SystemsInv, LastsRemembered
    <3>3. readerBefore(lastReader[r], index, r)
      BY <1>3, <3>1, <3>2
    <3>4. lastReader[r] \in chunks
      BY <3>3 DEF readerBefore
    <3>5. k = lastReader[r]
      BY <1>5, <2>7, <3>3, <3>4, LastIsOne
    <3>6. holds(c.found, k)
      BY <1>7, <3>2, <3>5
    <3> QED BY <2>2, <3>1, <3>6
  <2>8. ASSUME NEW j \in Places, dispatched(j)'
        PROVE  /\ \A n \in DOMAIN dependencies'[j] : dependencies'[j][n] \in 0 .. j - 1
               /\ Len(dependencies'[j]) <= j
               /\ \A r \in uses(j)' : \A k \in chunks : writerBefore(k, j, r)' => waitsFor(j, k)'
               /\ \A r \in writes(j)' : \A k \in chunks : readerBefore(k, j, r)' => waitsFor(j, k)'
    <3>0. uses(j)' = uses(j) /\ writes(j)' = writes(j)
      BY <1>4 DEF sameCriteria
    <3>1. CASE j = index
      <4>1. dependencies'[j] = c.found /\ j = x
        BY <1>18, <2>0, <3>1
      <4>2. /\ \A n \in DOMAIN dependencies'[j] : dependencies'[j][n] \in 0 .. j - 1
            /\ Len(dependencies'[j]) <= j
        BY <2>5, <3>1, <4>1
      <4>3. ASSUME NEW r \in uses(j), NEW k \in chunks, writerBefore(k, j, r)'
            PROVE  waitsFor(j, k)'
        <5>1. writerBefore(k, index, r) /\ r \in uses(index)
          BY <2>3, <3>1, <4>3
        <5>2. waitsFor(x, k)'
          BY <2>6, <5>1
        <5> QED BY <4>1, <5>2
      <4>4. ASSUME NEW r \in writes(j), NEW k \in chunks, readerBefore(k, j, r)'
            PROVE  waitsFor(j, k)'
        <5>1. readerBefore(k, index, r) /\ r \in writes(index)
          BY <2>3, <3>1, <4>4
        <5>2. waitsFor(x, k)'
          BY <2>7, <5>1
        <5> QED BY <4>1, <5>2
      <4> QED BY <3>0, <4>2, <4>3, <4>4
    <3>2. CASE j # index
      <4>1. dispatched(j) /\ dependencies'[j] = dependencies[j]
        BY <1>16, <1>18, <2>8, <3>2 DEF dispatched
      <4>2. /\ \A n \in DOMAIN dependencies[j] : dependencies[j][n] \in 0 .. j - 1
            /\ Len(dependencies[j]) <= j
            /\ \A r \in uses(j) : \A k \in chunks : writerBefore(k, j, r) => waitsFor(j, k)
            /\ \A r \in writes(j) : \A k \in chunks : readerBefore(k, j, r) => waitsFor(j, k)
        BY <4>1 DEF SystemsInv, DependenciesCollected
      <4>3. ASSUME NEW k \in chunks, waitsFor(j, k)
            PROVE  waitsFor(j, k)'
        <5>1. batches[k] = "failed" => batches'[k] = "failed"
          BY <1>1, <1>3, <1>16 DEF SystemsTyped
        <5> QED BY <4>1, <4>3, <5>1 DEF waitsFor
      <4>4. ASSUME NEW r \in uses(j), NEW k \in chunks, writerBefore(k, j, r)'
            PROVE  waitsFor(j, k)'
        <5>1. writerBefore(k, j, r)
          BY <2>3, <4>4
        <5> QED BY <4>2, <4>3, <4>4, <5>1
      <4>5. ASSUME NEW r \in writes(j), NEW k \in chunks, readerBefore(k, j, r)'
            PROVE  waitsFor(j, k)'
        <5>1. readerBefore(k, j, r)
          BY <2>3, <4>5
        <5> QED BY <4>2, <4>3, <4>5, <5>1
      <4>6. /\ \A n \in DOMAIN dependencies'[j] : dependencies'[j][n] \in 0 .. j - 1
            /\ Len(dependencies'[j]) <= j
        BY <4>1, <4>2
      <4> QED BY <3>0, <4>4, <4>5, <4>6
    <3> QED BY <3>1, <3>2
  <2> QED BY <1>2, <1>4, <2>8 DEF DependenciesCollected
<1>24. NoneOvertaken'
  <2> SUFFICES ASSUME NEW j \in Places, started(j)', NEW k \in awaited(j)'
               PROVE  batches'[k] = "done"
    BY <1>4 DEF NoneOvertaken
  <2>1. j # index
    BY <1>16 DEF started
  <2>2. started(j)
    BY <1>16, <2>1 DEF started
  <2>3. k \in awaited(j)
    <3>1. j < index
      BY <2>2 DEF SystemsInv, DispatchedAreScanned, started, dispatched
    <3>2. index \in Nat /\ Places \subseteq Nat
      BY <1>1, <1>3, IndexAt
    <3>3. ASSUME NEW a \in Places, a < j \/ a = j
          PROVE  /\ dependencies'[a] = dependencies[a]
                 /\ batches'[a] = "failed" <=> batches[a] = "failed"
      <4>1. a # index
        BY <3>1, <3>2, <3>3
      <4> QED BY <1>16, <1>18, <4>1
    <3> QED BY <1>4, <3>3, AwaitedSame
  <2>4. batches[k] = "done"
    BY <2>2, <2>3 DEF SystemsInv, NoneOvertaken
  <2>5. k # index
    BY <1>3, <2>4
  <2>6. k \in Places
    <3>1. PICK n \in DOMAIN dependencies[j] : dependencies[j][n] = k /\ k # NoBatch
      BY <2>3 DEF awaited
    <3>2. k \in 0 .. j - 1
      BY <2>2, <3>1 DEF SystemsInv, DependenciesCollected, started, dispatched
    <3>3. PICK L \in Nat : Places = 1 .. L
      BY <1>1, PlacesAre DEF SystemsTyped
    <3> QED BY <3>1, <3>2, <3>3 DEF NoBatch
  <2> QED BY <1>16, <2>4, <2>5, <2>6
<1>25. FenceIsCount'
  <2>1. counted' = counted \cup {index} /\ index \notin counted
    BY <1>3, <1>4, <1>16 DEF counted
  <2>2. IsFiniteSet(Places) /\ counted \subseteq Places
    BY <1>1, PlacesAre DEF SystemsTyped, counted
  <2>3. IsFiniteSet(counted)
    BY <2>2, FS_Subset
  <2>4. Cardinality(counted') = Cardinality(counted) + 1
    BY <2>1, <2>3, FS_AddElement
  <2>5. fence = Cardinality(counted)
    BY DEF SystemsInv, FenceIsCount
  <2>6. fence' = Cardinality(counted')
    BY <1>2, <2>4, <2>5
  <2>7. phase' # "between"
    BY <1>2
  <2> QED BY <2>6, <2>7 DEF FenceIsCount
<1>26. BlocksPlaced'
  <2>1. placedOffsets' = {f \in FrameData : l.offset[f] # NoOffset}
    BY <1>14 DEF placedOffsets
  <2>2. placedOffsets \subseteq placedOffsets'
    BY <1>9, <1>14, <2>1 DEF placedOffsets, placesKept
  <2>3. \A f \in placedOffsets' :
          /\ aligned(offset'[f], Alignment[f]) = offset'[f]
          /\ offset'[f] + Size[f] <= capacity' /\ offset'[f] + Size[f] <= end'
    BY <1>14, <2>1 DEF blocksSound
  <2>4. \A f, g \in placedOffsets' :
          f # g => offset'[f] + Size[f] <= offset'[g] \/ offset'[g] + Size[g] <= offset'[f]
    BY <1>14, <2>1 DEF blocksSound
  <2>5. ASSUME NEW i \in chunks, i < index'
        PROVE  writes(i) \cap FrameData \subseteq placedOffsets'
    <3>1. CASE i = index
      BY <1>14, <2>1, <3>1
    <3>2. CASE i # index
      <4>1. i < index
        BY <1>20, <2>5, <3>2
      <4> QED BY <1>10, <2>2, <4>1
    <3> QED BY <3>1, <3>2
  <2>6. \A i \in chunks : writes(i)' = writes(i)
    BY <1>2 DEF writes
  <2> QED BY <1>2, <2>3, <2>4, <2>5, <2>6 DEF BlocksPlaced
<1> QED BY <1>19, <1>21, <1>22, <1>23, <1>24, <1>25, <1>26 DEF SystemsInv

LEMMA SystemsInvNext == SystemsInv /\ [SystemsNext]_systemsVars => SystemsInv'
<1> SUFFICES ASSUME SystemsInv, [SystemsNext]_systemsVars
             PROVE  SystemsInv'
  OBVIOUS
<1>1. CASE \E i \in Places : DestroySystem(i)
  BY <1>1, DestroySystemStep
<1>2. CASE sceneSetSystemsOrder
  BY <1>2, SetOrderStep
<1>3. CASE BeginFrame
  BY <1>3, BeginFrameStep
<1>4. CASE RunSystems
  BY <1>4, SkipSystemStep, DispatchSystemStep, EndOfSystemsStep, FenceDownStep DEF RunSystems
<1>5. CASE RunBatches
  <2> SUFFICES ASSUME NEW i \in Places,
                      StartBatch(i) \/ RefuseBatch(i) \/ FinishBatch(i) \/ HangBatch(i)
               PROVE  SystemsInv'
    BY <1>5 DEF RunBatches
  <2>1. failures \in Nat
    BY DEF SystemsInv, SystemsTyped
  <2>2. CASE StartBatch(i)
    BY <2>1, <2>2, FateStep DEF StartBatch
  <2>3. CASE RefuseBatch(i)
    BY <2>1, <2>3, FateStep DEF RefuseBatch
  <2>4. CASE FinishBatch(i)
    BY <2>4, FinishBatchStep
  <2>5. CASE HangBatch(i)
    BY <2>1, <2>5, FateStep DEF HangBatch
  <2> QED BY <2>2, <2>3, <2>4, <2>5
<1>6. CASE UNCHANGED systemsVars
  <2>1. UNCHANGED <<systemOrder, phase, index, lastReader, lastWriter, chunks, batches,
                    dependencies, fence, offset, end, capacity, frames, failures>>
    BY <1>6 DEF systemsVars, scan, memory
  <2>2. sameCriteria /\ Places' = Places
    BY <2>1, CriteriaSame DEF sameCriteria
  <2>3. SystemsTyped'
    BY <2>1, <2>2 DEF SystemsInv, SystemsTyped
  <2>4. DispatchedAreScanned' /\ RestUnset'
    BY <2>1, <2>2 DEF SystemsInv, DispatchedAreScanned, RestUnset, dispatched
  <2>5. LastsRemembered' /\ DependenciesCollected' /\ BlocksPlaced'
    BY <2>1, <2>2, LastsSame, DependenciesSame, BlocksSame DEF SystemsInv
  <2>6. NoneOvertaken'
    BY <2>1, <2>2, NoneOvertakenSame DEF SystemsInv
  <2>7. FenceIsCount'
    <3>1. counted' = counted
      BY <2>1, <2>2 DEF counted
    <3> QED BY <2>1, <3>1 DEF SystemsInv, FenceIsCount
  <2> QED BY <2>3, <2>4, <2>5, <2>6, <2>7 DEF SystemsInv
<1> QED BY <1>1, <1>2, <1>3, <1>4, <1>5, <1>6 DEF SystemsNext

\* The main thread's memory of last readers and writers, the dependencies, the fence
\* and the blocks of frame data fit together in every reachable state
\* (ecsQuerries.c:114-256).
THEOREM SystemsInvariant == SystemsSpec => []SystemsInv
<1>1. SystemsInit => SystemsInv
  BY SystemsInvInit
<1>2. SystemsInv /\ [SystemsNext]_systemsVars => SystemsInv'
  BY SystemsInvNext
<1> QED BY <1>1, <1>2, PTL DEF SystemsSpec

-----------------------------------------------------------------------------
(* The order of accesses *)

\* The last system before the n-th, from the k-th on, that writes r.
LEMMA LastWriterIs ==
  ASSUME chunks \subseteq Nat, NEW n \in Nat, NEW r, NEW k \in chunks, k < n, r \in writes(k)
  PROVE  \E w \in chunks : writerBefore(w, n, r) /\ k <= w
<1>1. PICK S : S = {i \in chunks : i < n /\ r \in writes(i)}
  OBVIOUS
<1>2. S \subseteq 0 .. n /\ k \in S
  <2>1. ASSUME NEW i \in S
        PROVE  i \in 0 .. n
    <3>1. i \in chunks /\ i < n
      BY <1>1
    <3>2. i \in Nat
      BY <3>1
    <3> QED BY <3>1, <3>2
  <2>2. k \in S
    BY <1>1
  <2> QED BY <2>1, <2>2
<1>3. PICK w \in S : \A u \in S : u <= w
  BY <1>2, GreatestNumber
<1>4. w \in chunks /\ w < n /\ r \in writes(w) /\ w \in Nat /\ k \in Nat /\ k <= w
  BY <1>1, <1>2, <1>3
<1>5. \A i \in chunks : w < i /\ i < n => r \notin writes(i)
  <2> TAKE i \in chunks
  <2>1. i \in Nat
    OBVIOUS
  <2> QED BY <1>1, <1>3, <1>4, <2>1
<1> QED BY <1>4, <1>5 DEF writerBefore

\* The last system before the n-th, from the k-th on, that reads r.
LEMMA LastReaderIs ==
  ASSUME chunks \subseteq Nat, NEW n \in Nat, NEW r, NEW k \in chunks, k < n, r \in reads(k)
  PROVE  \E d \in chunks : readerBefore(d, n, r) /\ k <= d
<1>1. PICK S : S = {i \in chunks : i < n /\ r \in reads(i)}
  OBVIOUS
<1>2. S \subseteq 0 .. n /\ k \in S
  <2>1. ASSUME NEW i \in S
        PROVE  i \in 0 .. n
    <3>1. i \in chunks /\ i < n
      BY <1>1
    <3>2. i \in Nat
      BY <3>1
    <3> QED BY <3>1, <3>2
  <2>2. k \in S
    BY <1>1
  <2> QED BY <2>1, <2>2
<1>3. PICK d \in S : \A u \in S : u <= d
  BY <1>2, GreatestNumber
<1>4. d \in chunks /\ d < n /\ r \in reads(d) /\ d \in Nat /\ k \in Nat /\ k <= d
  BY <1>1, <1>2, <1>3
<1>5. \A i \in chunks : d < i /\ i < n => r \notin reads(i)
  <2> TAKE i \in chunks
  <2>1. i \in Nat
    OBVIOUS
  <2> QED BY <1>1, <1>3, <1>4, <2>1
<1> QED BY <1>4, <1>5 DEF readerBefore

\* Whom a batch that was started had to wait for is done, or was never submitted, or
\* had its dependents already.
crowdedOut(j, k) == k \notin awaited(j) /\ \E n \in DOMAIN dependencies[j] : dependencies[j][n] = k

LEMMA WaitedFor ==
  ASSUME SystemsInv, NEW j \in Places, started(j), NEW k \in Nat, k # NoBatch, waitsFor(j, k)
  PROVE  batches[k] = "failed" \/ batches[k] = "done" \/ crowdedOut(j, k)
<1>1. CASE batches[k] = "failed"
  BY <1>1
<1>2. ASSUME NEW n \in DOMAIN dependencies[j], dependencies[j][n] = k
      PROVE  batches[k] = "done" \/ crowdedOut(j, k)
  <2>1. CASE k \in awaited(j)
    BY <2>1 DEF SystemsInv, NoneOvertaken
  <2>2. CASE k \notin awaited(j)
    BY <1>2, <2>2 DEF crowdedOut
  <2> QED BY <2>1, <2>2
<1> QED BY <1>1, <1>2 DEF waitsFor

\* Who uses what an unfinished batch writes has to wait for it.
LEMMA WriterWaitedFor ==
  ASSUME SystemsInv, NEW j \in Places, started(j), NEW i \in chunks, i < j, i # NoBatch,
         unfinished(i), NEW r \in writes(i), r \in uses(j)
  PROVE  brokenBetween(i, j, r) \/ crowdedBetween(i, j, r)
<1>1. SystemsTyped
  BY DEF SystemsInv
<1>2. chunks \subseteq Places /\ Places \subseteq Nat /\ chunks \subseteq Nat /\ i \in Nat
  BY <1>1, PlacesAre DEF SystemsTyped
<1> DEFINE gap(k) == brokenBetween(i, k, r) \/ crowdedBetween(i, k, r)
<1> DEFINE Later == {k \in chunks : k <= j /\ k \in Places /\ started(k) /\ i < k
                                    /\ r \in uses(k) /\ ~ gap(k)}
<1> SUFFICES ASSUME ~ gap(j)
             PROVE  FALSE
  OBVIOUS
<1>3. j \in chunks /\ j < index
  <2>1. dispatched(j)
    BY DEF started, dispatched
  <2> QED BY <2>1 DEF SystemsInv, DispatchedAreScanned
<1>4. PICK S : S = Later
  OBVIOUS
<1>5. S \subseteq Nat /\ j \in S
  <2>1. S \subseteq chunks
    BY <1>4
  <2>2. j \in Nat /\ chunks \subseteq Nat
    BY <1>2
  <2>3. j <= j
    BY <2>2
  <2>4. j \in S
    BY <1>3, <1>4, <2>3
  <2> QED BY <2>1, <2>2, <2>4
<1>6. PICK k \in S : \A u \in S : k <= u
  BY <1>5, LeastNumber
<1>7. /\ k \in chunks /\ k <= j /\ k \in Places /\ k \in Nat /\ started(k) /\ i < k
      /\ r \in uses(k) /\ ~ gap(k)
  BY <1>2, <1>4, <1>6
<1>8. ASSUME NEW m \in chunks, i < m, m < k, r \in uses(m)
      PROVE  ~ started(m) /\ batches[m] # "failed"
  <2>1. m \in Nat /\ m \in Places /\ j \in Nat
    BY <1>2
  <2>2. gap(m) => gap(k)
    <3>1. i + 1 .. m - 1 \subseteq i + 1 .. k - 1 /\ i + 1 .. m \subseteq i + 1 .. k
      BY <1>2, <1>7, <1>8, <2>1
    <3>2. brokenBetween(i, m, r) => brokenBetween(i, k, r)
      BY <3>1 DEF brokenBetween
    <3>3. crowdedBetween(i, m, r) => crowdedBetween(i, k, r)
      BY <3>1 DEF crowdedBetween
    <3> QED BY <3>2, <3>3
  <2>3. m <= j
    BY <1>7, <1>8, <2>1
  <2>4. ~ started(m)
    <3> SUFFICES ASSUME started(m)
                 PROVE  FALSE
      OBVIOUS
    <3>1. m \in S
      BY <1>4, <1>7, <1>8, <2>1, <2>2, <2>3
    <3> QED BY <1>6, <1>7, <1>8, <2>1, <3>1
  <2>5. batches[m] # "failed"
    <3>1. m \in i + 1 .. k - 1
      BY <1>2, <1>7, <1>8, <2>1
    <3> QED BY <1>7, <1>8, <3>1 DEF brokenBetween
  <2> QED BY <2>4, <2>5
<1>9. PICK w \in chunks : writerBefore(w, k, r) /\ i <= w
  BY <1>2, <1>7, LastWriterIs
<1>10. w < k /\ r \in writes(w) /\ r \in uses(w) /\ w \in Places /\ w \in Nat
  BY <1>2, <1>9 DEF writerBefore, writes, uses
<1>11. dispatched(k) /\ \A m \in Places : m # NoBatch
  <2>1. Places = 1 .. Len(systemOrder) /\ Len(systemOrder) \in Nat
    BY <1>1, PlacesAre DEF SystemsTyped
  <2> QED BY <1>7, <2>1 DEF started, dispatched, NoBatch
<1>12. waitsFor(k, w)
  BY <1>7, <1>9, <1>11 DEF SystemsInv, DependenciesCollected
<1>13. crowdedOut(k, w)
  <2>1. batches[w] # "failed" /\ batches[w] # "done"
    <3>1. CASE w = i
      BY <3>1 DEF unfinished
    <3>2. CASE w # i
      <4>1. i < w
        BY <1>2, <1>9, <1>10, <3>2
      <4> QED BY <1>8, <1>10, <4>1 DEF started
    <3> QED BY <3>1, <3>2
  <2> QED BY <1>7, <1>10, <1>11, <1>12, <2>1, WaitedFor
<1>14. ASSUME NEW d \in chunks, i <= d, d < k, crowdedOut(k, d), r \in conflicts(d, k)
       PROVE  \E m \in chunks : d < m /\ m < k /\ r \in conflicts(m, k)
  <2>1. d \in Nat /\ d \in i .. k - 1 /\ k \in i + 1 .. k
    BY <1>2, <1>7, <1>14
  <2>2. ~ crowdedBetween(i, k, r)
    BY <1>7
  <2>3. PICK n \in DOMAIN dependencies[k] : dependencies[k][n] = d /\ d \notin awaited(k)
    BY <1>14 DEF crowdedOut
  <2>4. PICK m \in d + 1 .. k - 1 : m \in chunks /\ r \in conflicts(m, k)
    BY <1>14, <2>1, <2>2, <2>3 DEF crowdedBetween
  <2>5. d < m /\ m < k
    BY <1>7, <2>1, <2>4
  <2> QED BY <2>4, <2>5
<1>15. r \in conflicts(w, k)
  BY <1>7, <1>10 DEF conflicts
<1>16. PICK m \in chunks : w < m /\ m < k /\ r \in conflicts(m, k)
  BY <1>9, <1>10, <1>13, <1>14, <1>15
<1>17. r \in reads(m) /\ r \in writes(k)
  <2>1. r \notin writes(m)
    BY <1>9, <1>16 DEF writerBefore
  <2> QED BY <1>16, <2>1 DEF conflicts, uses, reads, writes
<1>18. PICK d \in chunks : readerBefore(d, k, r) /\ m <= d
  BY <1>2, <1>7, <1>16, <1>17, LastReaderIs
<1>19. /\ d < k /\ r \in reads(d) /\ r \in uses(d) /\ d \in Places /\ d \in Nat
       /\ w < d /\ i < d /\ i <= d
  <2>1. d < k /\ r \in reads(d) /\ r \in uses(d) /\ d \in Places /\ d \in Nat
    BY <1>2, <1>18 DEF readerBefore, reads, uses
  <2>2. m \in Nat
    BY <1>2
  <2> QED BY <1>2, <1>9, <1>10, <1>16, <1>18, <2>1, <2>2
<1>20. waitsFor(k, d)
  BY <1>7, <1>11, <1>17, <1>18 DEF SystemsInv, DependenciesCollected
<1>21. crowdedOut(k, d)
  <2>1. batches[d] # "failed" /\ batches[d] # "done"
    BY <1>8, <1>19 DEF started
  <2> QED BY <1>7, <1>11, <1>19, <1>20, <2>1, WaitedFor
<1>22. r \in conflicts(d, k)
  BY <1>17, <1>19 DEF conflicts
<1>23. PICK l \in chunks : d < l /\ l < k /\ r \in conflicts(l, k)
  BY <1>14, <1>19, <1>21, <1>22
<1>24. r \notin reads(l)
  BY <1>18, <1>23 DEF readerBefore
<1>25. r \notin writes(l)
  <2>1. w < l
    <3>1. l \in Nat
      BY <1>2
    <3> QED BY <1>10, <1>19, <1>23, <3>1
  <2> QED BY <1>9, <1>23, <2>1 DEF writerBefore
<1> QED BY <1>23, <1>24, <1>25 DEF conflicts, uses, reads, writes

\* Who writes what an unfinished batch only reads has to wait for it, if no other
\* reader hides it.
LEMMA ReaderWaitedFor ==
  ASSUME SystemsInv, NEW j \in Places, started(j), NEW i \in chunks, i < j, i # NoBatch,
         unfinished(i), NEW r \in reads(i), r \notin writes(i), r \in writes(j)
  PROVE  overlooked(i, j, r) \/ brokenBetween(i, j, r) \/ crowdedBetween(i, j, r)
<1> SUFFICES ASSUME ~ overlooked(i, j, r), ~ crowdedBetween(i, j, r)
             PROVE  brokenBetween(i, j, r)
  OBVIOUS
<1>1. SystemsTyped
  BY DEF SystemsInv
<1>2. /\ chunks \subseteq Places /\ Places \subseteq Nat /\ chunks \subseteq Nat
      /\ Places = 1 .. Len(systemOrder) /\ Len(systemOrder) \in Nat
  BY <1>1, PlacesAre DEF SystemsTyped
<1>3. j \in chunks /\ j < index
  <2>1. dispatched(j)
    BY DEF started, dispatched
  <2> QED BY <2>1 DEF SystemsInv, DispatchedAreScanned
<1>4. i \in Nat /\ j \in Nat
  BY <1>2
<1>5. \A k \in i + 1 .. j - 1 : k \in chunks /\ r \in uses(k) =>
        \E w \in i + 1 .. k : w \in chunks /\ r \in writes(w)
  BY DEF overlooked
<1>6. PICK S : S = {k \in chunks : i < k /\ k <= j /\ r \in writes(k)}
  OBVIOUS
<1>7. S \subseteq Nat /\ j \in S
  <2>1. S \subseteq chunks
    BY <1>6
  <2>2. j <= j
    BY <1>4
  <2>3. j \in S
    BY <1>3, <1>6, <2>2
  <2> QED BY <1>2, <2>1, <2>3
<1>8. PICK w \in S : \A u \in S : w <= u
  BY <1>7, LeastNumber
<1>9. w \in chunks /\ i < w /\ w <= j /\ r \in writes(w) /\ w \in Nat /\ w \in Places
  BY <1>2, <1>6, <1>8
<1>10. readerBefore(i, w, r)
  <2> SUFFICES ASSUME NEW k \in chunks, i < k, k < w, r \in reads(k)
               PROVE  FALSE
    BY <1>9 DEF readerBefore
  <2>1. k \in Nat /\ k \in i + 1 .. j - 1
    BY <1>2, <1>4, <1>9
  <2>2. r \in uses(k)
    BY DEF reads, uses
  <2>3. PICK v \in i + 1 .. k : v \in chunks /\ r \in writes(v)
    BY <1>5, <2>1, <2>2
  <2>4. v \in S /\ v < w
    BY <1>4, <1>6, <1>9, <2>1, <2>3
  <2> QED BY <1>8, <1>9, <2>1, <2>3, <2>4
<1>11. ASSUME started(w)
       PROVE  FALSE
  <2>1. dispatched(w)
    BY <1>11 DEF started, dispatched
  <2>2. waitsFor(w, i)
    BY <1>9, <1>10, <2>1 DEF SystemsInv, DependenciesCollected
  <2>3. crowdedOut(w, i)
    BY <1>4, <1>9, <1>11, <2>2, WaitedFor DEF unfinished
  <2>4. ASSUME NEW m \in i + 1 .. w - 1, m \in chunks
        PROVE  r \notin conflicts(m, w)
    <3>1. m \in Nat /\ i < m /\ m < w /\ m <= j
      BY <1>4, <1>9, <2>4
    <3>2. r \notin reads(m)
      BY <1>10, <2>4, <3>1 DEF readerBefore
    <3>3. r \notin writes(m)
      <4> SUFFICES ASSUME r \in writes(m)
                   PROVE  FALSE
        OBVIOUS
      <4>1. m \in S
        BY <1>6, <2>4, <3>1
      <4> QED BY <1>8, <1>9, <3>1, <4>1
    <3> QED BY <3>2, <3>3 DEF conflicts, uses, reads, writes
  <2>5. r \in conflicts(i, w)
    BY <1>9 DEF conflicts, uses, reads, writes
  <2>6. w \in i + 1 .. j /\ i \in i .. w - 1
    BY <1>4, <1>9
  <2>7. crowdedBetween(i, j, r)
    BY <2>3, <2>4, <2>5, <2>6 DEF crowdedBetween, crowdedOut
  <2> QED BY <2>7
<1>12. w # j /\ w < j
  <2>1. w # j
    BY <1>11
  <2> QED BY <1>4, <1>9, <2>1
<1>13. batches[w] \in {"failed", "waiting", "refused"}
  <2>1. w < index
    <3>1. index \in Nat
      BY <1>1 DEF SystemsTyped
    <3> QED BY <1>3, <1>4, <1>9, <1>12, <3>1
  <2>2. dispatched(w)
    BY <1>9, <2>1 DEF SystemsInv, DispatchedAreScanned
  <2>3. batches[w] \in Fates
    BY <1>1, <1>9 DEF SystemsTyped
  <2> QED BY <1>11, <2>2, <2>3 DEF dispatched, started, Fates
<1>14. w \in i + 1 .. j - 1 /\ r \in uses(w) /\ r \in uses(j) /\ w # NoBatch
  <2>1. r \in uses(w) /\ r \in uses(j)
    BY <1>9 DEF writes, uses
  <2> QED BY <1>2, <1>4, <1>9, <1>12, <2>1 DEF NoBatch
<1>15. CASE batches[w] = "failed"
  BY <1>14, <1>15 DEF brokenBetween
<1>16. CASE batches[w] \in {"waiting", "refused"}
  <2>1. unfinished(w)
    BY <1>16 DEF unfinished
  <2>2. brokenBetween(w, j, r) \/ crowdedBetween(w, j, r)
    BY <1>9, <1>12, <1>14, <2>1, WriterWaitedFor
  <2>3. /\ w + 1 .. j - 1 \subseteq i + 1 .. j - 1 /\ w + 1 .. j \subseteq i + 1 .. j
        /\ \A l \in Nat : w .. l - 1 \subseteq i .. l - 1
    BY <1>4, <1>9
  <2>4. crowdedBetween(w, j, r) => crowdedBetween(i, j, r)
    <3>1. \A l \in w + 1 .. j : l \in Nat
      BY <1>4, <1>9
    <3> QED BY <2>3, <3>1 DEF crowdedBetween
  <2> QED BY <2>2, <2>3, <2>4 DEF brokenBetween
<1> QED BY <1>13, <1>15, <1>16

LEMMA AccessesInOrder == SystemsInv => AccessesOrdered
<1> SUFFICES ASSUME SystemsInv
             PROVE  AccessesOrdered
  OBVIOUS
<1>1. SystemsTyped
  BY DEF SystemsInv
<1>2. PICK L \in Nat : L = Len(systemOrder) /\ Places = 1 .. L
  BY <1>1, PlacesAre DEF SystemsTyped
<1>3. ASSUME NEW j \in Places, started(j), NEW i \in 1 .. j - 1, unfinished(i),
             NEW r \in conflicts(i, j)
      PROVE  overlooked(i, j, r) \/ brokenBetween(i, j, r) \/ crowdedBetween(i, j, r)
  <2>0. r \in (writes(i) \cap uses(j)) \cup (uses(i) \cap writes(j))
    BY <1>3 DEF conflicts
  <2>1. i \in Places /\ i < j /\ i # NoBatch
    BY <1>2 DEF NoBatch
  <2>2. i \in chunks
    <3>1. dispatched(i)
      BY <1>3 DEF unfinished, dispatched
    <3> QED BY <2>1, <3>1 DEF SystemsInv, DispatchedAreScanned
  <2>3. CASE r \in writes(i) /\ r \in uses(j)
    BY <1>3, <2>1, <2>2, <2>3, WriterWaitedFor
  <2>4. CASE r \notin writes(i)
    <3>1. r \in reads(i) /\ r \in writes(j)
      BY <2>0, <2>4 DEF uses, reads, writes
    <3> QED BY <1>3, <2>1, <2>2, <2>4, <3>1, ReaderWaitedFor
  <2>5. CASE r \in writes(i) /\ r \notin uses(j)
    BY <2>0, <2>5 DEF uses, writes
  <2> QED BY <2>3, <2>4, <2>5
<1>4. ASSUME phase = "between", NEW i \in Places
      PROVE  ~ unfinished(i)
  BY <1>4, NoneLeft DEF counted, unfinished
<1>5. ASSUME NEW i \in Places
      PROVE  Len(dependencies[i]) <= L
  <2>1. CASE dispatched(i)
    <3>1. Len(dependencies[i]) <= i
      BY <2>1 DEF SystemsInv, DependenciesCollected
    <3>2. PICK n \in Nat : n = Len(dependencies[i])
      BY <1>1, <1>5 DEF SystemsTyped
    <3> QED BY <1>2, <3>1, <3>2
  <2>2. CASE ~ dispatched(i)
    <3>1. dependencies[i] = <<>>
      BY <2>2 DEF SystemsInv, RestUnset
    <3> QED BY <1>2, <3>1
  <2> QED BY <2>1, <2>2
<1> QED BY <1>2, <1>3, <1>4, <1>5 DEF AccessesOrdered

\* Systems that conflict run in the order of the systems, whatever others use in
\* between, but for the three gaps of the code (a hidden reader, a batch that could
\* not be submitted, a dependent too many); no batch outlives its frame and the array
\* of dependencies is never overrun (ecsQuerries.c:114-155, 187-256).
THEOREM AccessesStayOrdered == SystemsSpec => []AccessesOrdered
BY SystemsInvariant, AccessesInOrder, PTL

LEMMA BlocksFit == SystemsInv => FrameDataPlaced
<1> SUFFICES ASSUME SystemsInv
             PROVE  FrameDataPlaced
  OBVIOUS
<1>1. SystemsTyped
  BY DEF SystemsInv
<1>2. /\ \A f \in placedOffsets :
           aligned(offset[f], Alignment[f]) = offset[f] /\ offset[f] + Size[f] <= capacity
      /\ \A f, g \in placedOffsets :
           f # g => offset[f] + Size[f] <= offset[g] \/ offset[g] + Size[g] <= offset[f]
      /\ \A i \in chunks : i < index => writes(i) \cap FrameData \subseteq placedOffsets
  BY DEF SystemsInv, BlocksPlaced
<1>3. \A f \in placedOffsets : offset[f] \in Nat /\ Size[f] \in Nat /\ capacity \in Nat
  BY <1>1, ResourcesAssumption DEF SystemsTyped, placedOffsets
<1>4. ASSUME NEW f \in placedOffsets
      PROVE  offset[f] .. offset[f] + Size[f] - 1 \subseteq 0 .. capacity - 1
  BY <1>2, <1>3
<1>5. ASSUME NEW f \in placedOffsets, NEW g \in placedOffsets, f # g
      PROVE  (offset[f] .. offset[f] + Size[f] - 1) \cap (offset[g] .. offset[g] + Size[g] - 1) = {}
  <2>1. offset[f] + Size[f] <= offset[g] \/ offset[g] + Size[g] <= offset[f]
    BY <1>2, <1>5
  <2> QED BY <1>3, <2>1
<1>6. ASSUME NEW j \in Places, started(j), NEW i \in (1 .. j) \cap chunks
      PROVE  writes(i) \cap uses(j) \cap FrameData \subseteq placedOffsets
  <2>1. dispatched(j)
    BY <1>6 DEF started, dispatched
  <2>2. j < index
    BY <2>1 DEF SystemsInv, DispatchedAreScanned
  <2>3. i < index
    <3>1. j \in Nat /\ index \in Nat
      BY <1>1, PlacesAre DEF SystemsTyped
    <3> QED BY <2>2, <3>1
  <2> QED BY <1>2, <2>3
<1> QED BY <1>2, <1>4, <1>5, <1>6 DEF FrameDataPlaced, placedOffsets

\* The blocks of frame data are aligned, apart and inside the memory, and those a
\* batch needs are there before it starts (ecsQuerries.c:157-185).
THEOREM FrameDataStaysPlaced == SystemsSpec => []FrameDataPlaced
BY SystemsInvariant, BlocksFit, PTL

=============================================================================
